----------------------------- MODULE MCPoweredRun -----------------------------
(* PoweredRun for TLC: every configuration, every fault.                   *)
EXTENDS PoweredRun, MCTestRun

(* Every way to configure a smoke run; a full one, of 10 cycles.           *)
AllConfigs ==
  {[board_type |-> b, prometheus |-> p, power |-> w, jtag |-> j,
    manifest |-> m, artifacts |-> Artifacts, session_cycle |-> s,
    cycles |-> 2] :
     b, p, w, j, s \in BOOLEAN,
     m \in {"none", "unreadable", "bsp", "legacy"}}
    \cup {[Usual EXCEPT !.artifacts = {"fpga_bitstream"}, !.cycles = 10]}

AllFaults == FaultKinds

(* Bound: the cycles that fail in a reliability test.  The second failure  *)
(* of at most ten misses the rate, a third would change nothing; pytest    *)
(* hangs instead, and is killed.                                           *)
MaxFailed == 2

MCNext ==
  \/ MainRuns
  \/ ChildRuns /\ failed_cycles' <= MaxFailed
  \/ PytestDies
  \/ Controls
  \/ Switches

MCSpec == PoweredInit /\ [][MCNext]_poweredVars /\ PoweredFairness
=============================================================================

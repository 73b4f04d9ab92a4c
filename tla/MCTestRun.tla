------------------------------ MODULE MCTestRun ------------------------------
(* TestRun for TLC: the usual run with nothing going wrong.                *)
EXTENDS TestRun

(* A run of the smoke suite with a manifest, everything configured.        *)
Usual ==
  [board_type |-> TRUE, prometheus |-> TRUE, power |-> TRUE, jtag |-> TRUE,
   manifest |-> "legacy", artifacts |-> Artifacts, session_cycle |-> FALSE,
   cycles |-> 2]

UsualConfig == {Usual}
NoFaults == {}
=============================================================================

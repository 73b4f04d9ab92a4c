------------------------------ MODULE Reporters ------------------------------
(***************************************************************************)
(* The reporters of a test session: what ElkReporter and                   *)
(* PrometheusReporter do, in any order.  They share no state; the process  *)
(* that has both calls one or the other.                                   *)
(***************************************************************************)
EXTENDS ElkReporter, PrometheusReporter

Init == ElkInit /\ PromInit

Next ==
  \/ ElkNext /\ UNCHANGED promVars
  \/ PromNext /\ UNCHANGED elkVars

Spec == Init /\ [][Next]_<<elkVars, promVars>>

IInv == ElkIInv /\ PromIInv
=============================================================================

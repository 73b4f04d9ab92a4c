----------------------------- MODULE MCReporters -----------------------------
(* Reporters for TLC: since the two share nothing, a behaviour exercises   *)
(* one of them, and the other one stays as it began.                       *)
EXTENDS Reporters

(* To the gateway one registry is as good as another: it is called with    *)
(* those that have no record but of a test that succeeded.                 *)
Called ==
  \A i \in Instances, m \in Metrics \ {"test_duration", "test_success"} :
    registry[i][m] = 0

MCNext ==
  \/ PromInit /\ ElkNext /\ UNCHANGED promVars
  \/ /\ ElkInit /\ UNCHANGED elkVars
     /\ PromNext
     /\ Called \/ UNCHANGED gatewayVars

MCSpec == Init /\ [][MCNext]_<<elkVars, promVars>>
=============================================================================

---------------------------- MODULE MCNfsMonitor ----------------------------
(* Instances of NfsMonitor for TLC.                                        *)
EXTENDS NfsMonitor, TLC

AllFaults == FaultKinds

(* Jenkins fails, the monitor is killed, builds are cleaned up; but         *)
(* publishers keep clear of the pass and write whole, valid manifests.     *)
RecoverableFaults == {"refusal", "lost_reply", "crash", "removal"}

MidpassPublish == {"midpass_publish"}
Malformed == {"malformed"}

Symmetry == Permutations(Manifests)
=============================================================================

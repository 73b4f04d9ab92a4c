--------------------------- MODULE MCPowerControl ---------------------------
(* Instances of PowerControl for TLC.                                      *)
EXTENDS PowerControl

AllControllers == ControllerTypes
AllFaults == FaultKinds
=============================================================================

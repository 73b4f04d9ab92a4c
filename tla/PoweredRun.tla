------------------------------ MODULE PoweredRun ------------------------------
(***************************************************************************)
(* A run of the test orchestrator over the power controllers themselves:   *)
(* TestRun with PowerControl in the place of the contract PowerOutlet.     *)
(* main and pytest each create a controller for the one outlet; main waits *)
(* while pytest runs, so one of the two is in use at a time.  That nothing *)
(* happens here that TestRun does not allow is ImplementsRun, and what     *)
(* holds of TestRun holds of the run with a smart plug or an operator.     *)
(*                                                                         *)
(* The mock is not among the controllers: each process would have an       *)
(* outlet of its own.  Nor is the relay template, which breaks the         *)
(* contract.  A plug that never answers is a controller that takes no more *)
(* steps, which Init /\ [][Next] allows of every one.                      *)
(***************************************************************************)
EXTENDS TestRun, Sequences

CONSTANTS
  Kinds,       \* the controllers config.yaml may name
  PowerFaults  \* what the devices and people behind them may do

VARIABLES
  kind,             \* the class of both controllers
  turn, step,       \* as in PowerControl, of the call in progress
  current_state, power_events,  \* attributes of the controller in use
  main_controller   \* those of main's, while pytest uses its own

controller == <<current_state, power_events>>
poweredVars == <<vars, kind, turn, step, controller, main_controller>>

Control == INSTANCE PowerControl
           WITH Faults <- PowerFaults, MaxCalls <- 0, MaxPolls <- 0,
                polls <- 0, calls <- 0

ASSUME PoweredRunAssumption ==
  /\ Kinds \subseteq {"smart_plug", "manual"}
  /\ PowerFaults \subseteq Control!FaultKinds
  /\ "power_fails" \in Faults

(* create_power_controller, and the attributes of the one in use.          *)
NewController == [current_state |-> "unknown", power_events |-> <<>>]
InUse == [current_state |-> current_state, power_events |-> power_events]
Takes(c) ==
  /\ current_state' = c.current_state
  /\ power_events' = c.power_events

PoweredInit ==
  /\ Init
  /\ Control!Init
  /\ main_controller = NewController

(* A controller's step, and what becomes of the board with its power.      *)
Powers(controls) ==
  /\ controls
  /\ DeviceKeeps
  /\ trouble' = (trouble \/ (call' # call /\ answer'.reply \in BadReplies))
  /\ UNCHANGED <<config, main, session, wrong_image, main_controller>>

Controls == Powers(Control!Controller)
Switches == Powers(Control!PlugSwitches)

(* pytest creates a controller of its own when main starts it ...          *)
PytestStarts ==
  /\ pc # "waiting" /\ pc' = "waiting"
  /\ main_controller' = InUse
  /\ Takes(NewController)
  /\ UNCHANGED <<kind, turn, step>>

(* ... and main goes on with the one it had.                               *)
PytestGone ==
  /\ pc = "waiting" /\ pc' # "waiting"
  /\ Takes(main_controller)
  /\ UNCHANGED <<kind, turn, main_controller>>

(* In between a step of either process begins a call or has none to do     *)
(* with power.                                                             *)
CallBegins ==
  /\ pc' = "waiting" <=> pc = "waiting"
  /\ IF call' = call THEN UNCHANGED <<kind, turn, step, controller>>
                     ELSE Control!Begin(call')
  /\ UNCHANGED main_controller

MainRuns ==
  /\ Main
  /\ PytestStarts \/ (PytestGone /\ UNCHANGED step) \/ CallBegins

ChildRuns == Child /\ CallBegins

(* A request on the wire, or a person asked to go to the switch, does not  *)
(* notice that pytest was killed; everything else of the call is gone.     *)
PytestDies ==
  /\ PytestKilled
  /\ target' \in {target} \cup {t \in {turn} : step \in {"post", "prompt"}}
  /\ PytestGone
  /\ step' = "idle"

PoweredNext == MainRuns \/ ChildRuns \/ PytestDies \/ Controls \/ Switches

PoweredSpec == PoweredInit /\ [][PoweredNext]_poweredVars

(* main and pytest run on, and so does a power call (see PowerControl);    *)
(* pytest may hang, and then the timeout of subprocess.run ends it.        *)
PoweredFairness ==
  /\ WF_poweredVars(MainRuns)
  /\ WF_poweredVars(Controls)
  /\ WF_poweredVars(PytestDies)

FairPoweredSpec == PoweredSpec /\ PoweredFairness

-----------------------------------------------------------------------------
(* The run over the controllers implements the run over their contract: no *)
(* process calls while the other is in a call, a call ends with an answer  *)
(* that is true of the outlet also when it follows the death of a process  *)
(* in a call, and what the dead one has commanded is a command of that     *)
(* call.  (run_tests.py, conftest.py, power_controller.py)                 *)
ImplementsRun == Spec

Controllers == [current_state : Outlet!Positions \cup {"unknown"},
                power_events : Seq(Control!Events)]

(* Why: a controller in use keeps its invariant, and so does the run, in   *)
(* which a board without power has nothing loaded.                         *)
PoweredInv ==
  /\ Control!ControlInv
  /\ outlet = "off" => loaded = {}
  /\ main_controller \in Controllers

PoweredIInv == IInv /\ PoweredInv
=============================================================================

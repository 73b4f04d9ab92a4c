--------------------------- MODULE PoweredRunProofs ---------------------------
(***************************************************************************)
(* Proofs about PoweredRun, for every set of configurations and faults:    *)
(* the run over the controllers implements the run over their contract,    *)
(* and so has the properties proved of that.  What a controller keeps and  *)
(* refines is not proved again: the lemmas of PowerControlProofs, taken    *)
(* for the controllers of this run, say it.                                *)
(***************************************************************************)
EXTENDS PoweredRun, TestRunProofs

P == INSTANCE PowerControlProofs
     WITH Faults <- PowerFaults, MaxCalls <- 0, MaxPolls <- 0,
          polls <- 0, calls <- 0

USE DEF Outlet!Positions, Outlet!Calls, Outlet!Queries, Outlet!Switching,
        Outlet!Replies

-----------------------------------------------------------------------------
(* The controllers of this run are those of the lemmas.                    *)

LEMMA SameAssumption == P!PowerControlAssumption
BY PoweredRunAssumption
DEF P!PowerControlAssumption, P!ControllerTypes, P!FaultKinds,
    Control!FaultKinds

LEMMA SameInvariant == Control!ControlInv <=> P!ControlInv
<1>1. Control!TypeOK <=> P!TypeOK
  BY DEF Control!TypeOK, P!TypeOK, Control!Outlet!TypeOK, P!Outlet!TypeOK,
         Control!Outlet!Positions, P!Outlet!Positions, Control!Outlet!Calls,
         P!Outlet!Calls, Control!Outlet!Queries, P!Outlet!Queries,
         Control!Outlet!Switching, P!Outlet!Switching, Control!Outlet!Replies,
         P!Outlet!Replies, Control!Events, P!Events
<1>2. Control!CallInv <=> P!CallInv
  BY DEF Control!CallInv, P!CallInv, Control!Outlet!Queries,
         P!Outlet!Queries, Control!Outlet!Commands, P!Outlet!Commands,
         Control!Outlet!Positions, P!Outlet!Positions
<1>3. Control!PowerInv <=> P!PowerInv
  BY DEF Control!PowerInv, P!PowerInv
<1> QED
  BY <1>1, <1>2, <1>3 DEF Control!ControlInv, P!ControlInv

LEMMA SameInvariantAfter == (Control!ControlInv <=> P!ControlInv)'
BY SameInvariant, PTL

LEMMA SameBegin ==
  ASSUME NEW c
  PROVE  Control!Begin(c) <=> P!Begin(c)
BY DEF Control!Begin, P!Begin, Control!Outlet!Invoke, P!Outlet!Invoke,
       Control!Outlet!Positions, P!Outlet!Positions, Control!Outlet!Queries,
       P!Outlet!Queries, Control!FirstStep, P!FirstStep

LEMMA SameTurnEnds ==
  ASSUME NEW ok
  PROVE  Control!TurnEnds(ok) <=> P!TurnEnds(ok)
BY DEF Control!TurnEnds, P!TurnEnds, Control!TurnEvent, P!TurnEvent,
       Control!CycleEvent, P!CycleEvent, Control!Return, P!Return,
       Control!FirstStep, P!FirstStep

LEMMA SameTurns ==
  /\ Control!Plug <=> P!Plug
  /\ Control!RelayTurns <=> P!RelayTurns
  /\ Control!Prompt <=> P!Prompt
  /\ Control!Mock <=> P!Mock
BY SameTurnEnds
DEF Control!Plug, Control!PlugReadsPrevious, Control!PlugPosts,
    Control!PlugPostFails, Control!PlugVerifies, Control!RelayTurns,
    Control!Prompt, Control!ManualSucceeds, Control!ManualFails,
    Control!NobodyAtPrompt, Control!Mock, Control!MockTurns,
    Control!MockFails, Control!Taken, Control!HttpFails, Control!world,
    P!Plug, P!PlugReadsPrevious, P!PlugPosts, P!PlugPostFails,
    P!PlugVerifies, P!RelayTurns, P!Prompt, P!ManualSucceeds,
    P!ManualFails, P!NobodyAtPrompt, P!Mock, P!MockTurns, P!MockFails,
    P!Taken, P!HttpFails, P!world

LEMMA SameQuery == Control!Query <=> P!Query
BY DEF Control!Query, Control!StateReturns, Control!PollHits,
       Control!PollMisses, Control!PollTimesOut, Control!QueryReturns,
       Control!Return, Control!Reading, Control!Seen, Control!world,
       Control!HttpFails, Control!Outlet!Awaited, Control!Outlet!Positions,
       P!Query, P!StateReturns, P!PollHits, P!PollMisses, P!PollTimesOut,
       P!QueryReturns, P!Return, P!Reading, P!Seen, P!world, P!HttpFails,
       P!Outlet!Awaited, P!Outlet!Positions

LEMMA SameController ==
  Control!Controller \/ Control!PlugSwitches => P!Next
BY SameTurns, SameQuery
DEF Control!Controller, Control!PlugSwitches, Control!Outlet!Switch, P!Next,
    P!Controller, P!PlugSwitches, P!Outlet!Switch

(* ... so a step of theirs keeps their invariant and their promise.        *)
LEMMA ControllerSteps ==
  ASSUME Control!ControlInv, Control!Controller \/ Control!PlugSwitches
  PROVE  /\ Control!ControlInv'
         /\ Outlet!Next \/ UNCHANGED Outlet!outletVars
<1>1. P!ControlInv /\ P!Next
  BY SameInvariant, SameController
<1>2. P!ControlInv'
  BY <1>1, SameAssumption, P!NextKeeps
<1>3. Control!ControlInv'
  BY <1>2, SameInvariantAfter
<1>4. kind # "relay_board"
  BY PoweredRunAssumption DEF Control!ControlInv, Control!TypeOK
<1>5. [kind # "relay_board" => P!Outlet!Next]_(P!Outlet!outletVars)
  BY <1>1, SameAssumption, P!NextRefines
<1>6. /\ P!Outlet!Next <=> Outlet!Next
      /\ UNCHANGED P!Outlet!outletVars <=> UNCHANGED Outlet!outletVars
  BY DEF P!Outlet!Next, P!Outlet!Invoke, P!Outlet!Obey, P!Outlet!Switch,
         P!Outlet!Respond, P!Outlet!Truthful, P!Outlet!Commands,
         P!Outlet!Final, P!Outlet!Awaited, P!Outlet!Positions,
         P!Outlet!Calls, P!Outlet!Queries, P!Outlet!Switching,
         P!Outlet!Replies, P!Outlet!outletVars,
         Outlet!Next, Outlet!Invoke, Outlet!Obey, Outlet!Switch,
         Outlet!Respond, Outlet!Truthful, Outlet!Commands, Outlet!Final,
         Outlet!Awaited, Outlet!outletVars
<1> QED
  BY <1>3, <1>4, <1>5, <1>6

LEMMA BeginSteps ==
  ASSUME Control!ControlInv, NEW c \in Outlet!Calls, Control!Begin(c)
  PROVE  Control!ControlInv'
<1>1. P!ControlInv /\ P!Begin(c) /\ c \in P!Outlet!Calls
  BY SameInvariant, SameBegin
  DEF P!Outlet!Calls, P!Outlet!Queries, P!Outlet!Switching,
      P!Outlet!Positions
<1>2. P!ControlInv'
  BY <1>1, SameAssumption, P!BeginKeeps
<1> QED
  BY <1>2, SameInvariantAfter

-----------------------------------------------------------------------------
(* What the processes do to power and board.                               *)

(* Between the starts and ends of pytest a step of main's or pytest's asks *)
(* for a power call or leaves power alone, and none loads a device without *)
(* power.                                                                  *)
LEMMA MainDoes ==
  ASSUME Main
  PROVE  /\ outlet' = outlet /\ target' = target /\ answer' = answer
         /\ \/ UNCHANGED <<call, cut>>
            \/ call = "none" /\ call' \in Outlet!Calls
         /\ loaded' = loaded \/ outlet = "on"
         /\ pc # "waiting" /\ pc' = "waiting"
              => pc = "suite" /\ UNCHANGED <<call, cut>>
         /\ pc = "waiting" => child = "done" /\ UNCHANGED <<call, cut>>
<1> USE DEF Goto, Kept, Proceed, ProvisionFails, Abort, Ask, Exit, Program,
            Outlet!Invoke, power
<1>1. CASE \/ ParseManifest \/ StartProvisioning \/ Cycled \/ SkipFlash
           \/ FlashLacksSpec \/ FlashFails
  BY <1>1 DEF ParseManifest, StartProvisioning, Cycled, SkipFlash,
              FlashLacksSpec, FlashFails
<1>2. CASE FlashBootloader \/ FlashBitstream
  BY <1>2 DEF FlashBootloader, FlashBitstream
<1>3. CASE WaitForSystemReady \/ Polled \/ Provisioned \/ ExecuteTestSuite
  BY <1>3 DEF WaitForSystemReady, Polled, Provisioned, ExecuteTestSuite
<1>4. CASE SuiteCompleted \/ Report \/ Cleanup \/ Checked \/ Restored
  BY <1>4 DEF SuiteCompleted, Report, Cleanup, Checked, Restored
<1> QED
  BY <1>1, <1>2, <1>3, <1>4 DEF Main

LEMMA ChildDoes ==
  ASSUME Child
  PROVE  /\ outlet' = outlet /\ target' = target /\ answer' = answer
         /\ \/ UNCHANGED <<call, cut>>
            \/ call = "none" /\ call' \in Outlet!Calls
         /\ loaded' = loaded
<1> USE DEF ChildGoto, ChildKept, Counters, Ghosts, Ask, Outlet!Invoke, power,
            main
<1>1. CASE SessionSetup \/ SessionCycled \/ FirstTests
  BY <1>1 DEF SessionSetup, SessionCycled, FirstTests, TestsPass, TestsFail
<1>2. CASE StartCycle \/ CycleEnds \/ ReliabilityEnds \/ MoreTests
  BY <1>2 DEF StartCycle, CycleEnds, ReliabilityEnds, MoreTests, TestsPass,
              TestsFail
<1>3. CASE Teardown \/ ChildChecked \/ ChildRestored
  BY <1>3 DEF Teardown, ChildChecked, ChildRestored
<1> QED
  BY <1>1, <1>2, <1>3 DEF Child

-----------------------------------------------------------------------------
(* The invariant.                                                          *)

LEMMA NewIsController == NewController \in Controllers
BY DEF NewController, Controllers

(* main starts pytest, and sees it end, between calls.                     *)
LEMMA NoCallOutside ==
  ASSUME IInv, pc = "suite" \/ (pc = "waiting" /\ child = "done")
  PROVE  call = "none"
BY DEF IInv, CallInv, Awaits, ProgressInv

LEMMA PoweredInitHolds == PoweredInit => PoweredInv
<1> SUFFICES ASSUME PoweredInit PROVE PoweredInv
  OBVIOUS
<1>1. Control!Init <=> P!Init
  BY DEF Control!Init, P!Init, Control!Outlet!Init, P!Outlet!Init,
         Control!Outlet!Positions, P!Outlet!Positions
<1>2. P!ControlInv
  BY <1>1, SameAssumption, P!InitInvariant DEF PoweredInit
<1>3. Control!ControlInv
  BY <1>2, SameInvariant
<1>4. loaded = {} /\ main_controller = NewController
  BY DEF PoweredInit, Init
<1> QED
  BY <1>3, <1>4, NewIsController DEF PoweredInv

(* A controller taken into use, with attributes of their types and no call *)
(* in progress, keeps the invariant.                                       *)
LEMMA TakesKeeps ==
  ASSUME Control!ControlInv,
         NEW c \in Controllers,
         Takes(c), UNCHANGED <<kind, turn, outlet, cut, answer>>,
         target' \in Outlet!Positions, call' = "none", step' = "idle"
  PROVE  Control!ControlInv'
<1>1. kind \in {"smart_plug", "manual"}
  BY PoweredRunAssumption DEF Control!ControlInv, Control!TypeOK
<1>2. Control!TypeOK'
  BY DEF Control!ControlInv, Control!TypeOK, Control!Outlet!TypeOK, Takes,
         Control!Outlet!Positions, Controllers
<1>3. Control!CallInv'
  BY DEF Control!ControlInv, Control!CallInv
<1>4. Control!PowerInv'
  BY <1>1 DEF Control!ControlInv, Control!PowerInv
<1> QED
  BY <1>2, <1>3, <1>4 DEF Control!ControlInv

LEMMA CallBeginsKeeps ==
  ASSUME PoweredInv, CallBegins, UNCHANGED <<outlet, target, answer>>,
         \/ UNCHANGED <<call, cut>>
         \/ call = "none" /\ call' \in Outlet!Calls
  PROVE  Control!ControlInv'
<1>1. CASE call' = call
  <2>1. UNCHANGED <<kind, turn, step, current_state, power_events>>
    BY <1>1 DEF CallBegins, controller
  <2>2. CASE UNCHANGED cut
    <3> USE <1>1, <2>1, <2>2 DEF PoweredInv, Control!ControlInv
    <3>1. Control!TypeOK'
      BY DEF Control!TypeOK, Control!Outlet!TypeOK
    <3>2. Control!CallInv' /\ Control!PowerInv'
      BY DEF Control!CallInv, Control!PowerInv
    <3> QED
      BY <3>1, <3>2
  <2> QED
    BY <1>1, <2>2
<1>2. CASE call' # call
  BY <1>2, BeginSteps DEF CallBegins, PoweredInv
<1> QED
  BY <1>1, <1>2

LEMMA MainRunsKeeps ==
  ASSUME IInv, PoweredInv, MainRuns
  PROVE  PoweredInv'
<1>1. /\ UNCHANGED <<outlet, target, answer>>
      /\ \/ UNCHANGED <<call, cut>>
         \/ call = "none" /\ call' \in Outlet!Calls
      /\ loaded' = loaded \/ outlet = "on"
  BY MainDoes DEF MainRuns
<1>2. outlet' = "off" => loaded' = {}
  BY <1>1 DEF PoweredInv
<1>3. CASE PytestStarts
  <2>1. call = "none" /\ UNCHANGED <<call, cut>>
    BY <1>3, MainDoes, NoCallOutside DEF MainRuns, PytestStarts
  <2>2. Control!ControlInv'
    <3>1. /\ Takes(NewController) /\ step = "idle" /\ Control!ControlInv
          /\ UNCHANGED <<kind, turn, step>>
          /\ target \in Outlet!Positions
      BY <1>3, <2>1
      DEF PytestStarts, PoweredInv, Control!ControlInv, Control!CallInv,
          IInv, TypeOK, Outlet!TypeOK
    <3> QED
      BY <1>1, <2>1, <3>1, NewIsController, TakesKeeps
  <2>3. InUse \in Controllers
    BY DEF InUse, Controllers, PoweredInv, Control!ControlInv, Control!TypeOK,
           Control!Outlet!Positions
  <2> QED
    BY <1>2, <1>3, <2>2, <2>3 DEF PytestStarts, PoweredInv
<1>4. CASE PytestGone /\ UNCHANGED step
  <2>1. call = "none" /\ UNCHANGED <<call, cut>>
    BY <1>4, MainDoes, NoCallOutside DEF MainRuns, PytestGone
  <2>2. Control!ControlInv'
    <3>1. /\ Takes(main_controller) /\ step = "idle" /\ Control!ControlInv
          /\ main_controller \in Controllers
          /\ UNCHANGED <<kind, turn, step>>
          /\ target \in Outlet!Positions
      BY <1>4, <2>1
      DEF PytestGone, PoweredInv, Control!ControlInv, Control!CallInv,
          IInv, TypeOK, Outlet!TypeOK
    <3> QED
      BY <1>1, <2>1, <3>1, TakesKeeps
  <2> QED
    BY <1>2, <1>4, <2>2 DEF PytestGone, PoweredInv
<1>5. CASE CallBegins
  BY <1>1, <1>2, <1>5, CallBeginsKeeps DEF CallBegins, PoweredInv
<1> QED
  BY <1>3, <1>4, <1>5 DEF MainRuns

LEMMA ChildRunsKeeps ==
  ASSUME PoweredInv, ChildRuns
  PROVE  PoweredInv'
<1>1. /\ UNCHANGED <<outlet, target, answer, loaded>>
      /\ \/ UNCHANGED <<call, cut>>
         \/ call = "none" /\ call' \in Outlet!Calls
  BY ChildDoes DEF ChildRuns
<1>2. Control!ControlInv'
  BY <1>1, CallBeginsKeeps DEF ChildRuns
<1> QED
  BY <1>1, <1>2 DEF ChildRuns, CallBegins, PoweredInv

(* What pytest's controller has told the outlet when pytest is killed is a *)
(* command of its call.                                                    *)
LEMMA PytestDiesRefines ==
  ASSUME PoweredInv, PytestDies
  PROVE  SuiteDies
<1>1. step \in {"post", "prompt"} => turn \in Outlet!Commands(call)
  BY DEF PoweredInv, Control!ControlInv, Control!CallInv,
         Control!Outlet!Commands, Control!Outlet!Positions, Outlet!Commands
<1> QED
  BY <1>1 DEF PytestDies, SuiteDies

LEMMA PytestDiesKeeps ==
  ASSUME IInv, PoweredInv, PytestDies
  PROVE  PoweredInv'
<1>1. /\ Takes(main_controller) /\ step' = "idle" /\ call' = "none"
      /\ UNCHANGED <<kind, turn, outlet, cut, answer, loaded,
                     main_controller>>
  BY DEF PytestDies, PytestGone, PytestKilled
<1>2. target' \in Outlet!Positions
  BY DEF PytestDies, PoweredInv, Control!ControlInv, Control!TypeOK,
         Control!Outlet!Positions, IInv, TypeOK, Outlet!TypeOK
<1>3. Control!ControlInv'
  BY <1>1, <1>2, TakesKeeps DEF PoweredInv
<1> QED
  BY <1>1, <1>3 DEF PoweredInv

LEMMA ControllersKeep ==
  ASSUME PoweredInv, Controls \/ Switches
  PROVE  PoweredInv'
<1>1. Control!ControlInv'
  BY ControllerSteps DEF Controls, Switches, Powers, PoweredInv
<1> QED
  BY <1>1 DEF Controls, Switches, Powers, DeviceKeeps, PoweredInv

-----------------------------------------------------------------------------
(* The refinement.                                                         *)

(* A call of the controllers' is in progress when they take a step.        *)
LEMMA ControllerInCall ==
  ASSUME Control!ControlInv, Control!Controller
  PROVE  call # "none"
<1>1. step # "idle"
  BY DEF Control!Controller, Control!Plug, Control!PlugReadsPrevious,
         Control!PlugPosts, Control!PlugPostFails, Control!PlugVerifies,
         Control!RelayTurns, Control!Prompt, Control!ManualSucceeds,
         Control!ManualFails, Control!NobodyAtPrompt, Control!Mock,
         Control!MockTurns, Control!MockFails, Control!Query,
         Control!StateReturns, Control!PollHits, Control!PollMisses,
         Control!PollTimesOut
<1> QED
  BY <1>1 DEF Control!ControlInv, Control!CallInv

(* A step of the controllers is a move of the outlet, an answer, or        *)
(* nothing that their caller or the board can tell.                        *)
LEMMA ControllersRefine ==
  ASSUME IInv, PoweredInv, Controls \/ Switches
  PROVE  PowerMoves \/ PowerAnswers \/ UNCHANGED vars
<1>1. /\ DeviceKeeps
      /\ trouble' = (trouble \/ (call' # call /\ answer'.reply \in BadReplies))
      /\ UNCHANGED <<config, main, session, wrong_image>>
  BY DEF Controls, Switches, Powers
<1>2. trouble \in BOOLEAN
  BY DEF IInv, TypeOK
<1>3. CASE Switches
  <2>1. Outlet!Switch
    BY <1>3 DEF Switches, Powers, Control!PlugSwitches,
                Control!Outlet!Switch, Outlet!Switch
  <2>2. trouble' = trouble
    BY <1>1, <1>2, <2>1 DEF Outlet!Switch
  <2> QED
    BY <1>1, <2>1, <2>2 DEF PowerMoves
<1>4. CASE Controls
  <2>1. call # "none"
    BY <1>4, ControllerInCall DEF Controls, Powers, PoweredInv
  <2>2. Outlet!Next \/ UNCHANGED Outlet!outletVars
    BY <1>4, ControllerSteps DEF Controls, Powers, PoweredInv
  <2>3. CASE \E c \in Outlet!Calls : Outlet!Invoke(c)
    BY <2>1, <2>3 DEF Outlet!Invoke
  <2>4. CASE Outlet!Switch \/ \E t \in Outlet!Positions : Outlet!Obey(t)
    <3>1. trouble' = trouble
      BY <1>1, <1>2, <2>4 DEF Outlet!Switch, Outlet!Obey
    <3> QED
      BY <1>1, <2>4, <3>1 DEF PowerMoves
  <2>5. CASE \E r \in Outlet!Replies : Outlet!Respond(r)
    <3>1. PICK r \in Outlet!Replies : Outlet!Respond(r)
      BY <2>5
    <3>2. call' # call /\ answer'.reply = r
      BY <2>1, <3>1 DEF Outlet!Respond
    <3>3. trouble' = (trouble \/ r \in BadReplies)
      BY <1>1, <3>2
    <3>4. "power_fails" \in Faults
      BY PoweredRunAssumption
    <3> QED
      BY <1>1, <3>1, <3>3, <3>4 DEF PowerAnswers
  <2>6. CASE UNCHANGED Outlet!outletVars
    <3>1. UNCHANGED <<outlet, target, call, cut, answer>>
      BY <2>6 DEF Outlet!outletVars
    <3>2. loaded' = loaded
      BY <1>1, <3>1 DEF DeviceKeeps, PoweredInv
    <3>3. trouble' = trouble
      BY <1>1, <1>2, <3>1
    <3> QED
      BY <1>1, <3>1, <3>2, <3>3 DEF vars, power
  <2> QED
    BY <2>2, <2>3, <2>4, <2>5, <2>6 DEF Outlet!Next
<1> QED
  BY <1>3, <1>4

LEMMA PoweredStep ==
  ASSUME PoweredIInv, [PoweredNext]_poweredVars
  PROVE  [Next]_vars /\ PoweredIInv'
<1> USE DEF PoweredIInv
<1>1. CASE MainRuns
  BY <1>1, MainRunsKeeps, StepKeeps DEF MainRuns, Next
<1>2. CASE ChildRuns
  BY <1>2, ChildRunsKeeps, StepKeeps DEF ChildRuns, Next
<1>3. CASE PytestDies
  BY <1>3, PytestDiesRefines, PytestDiesKeeps, StepKeeps DEF Next
<1>4. CASE Controls \/ Switches
  BY <1>4, ControllersRefine, ControllersKeep, StepKeeps DEF Next
<1>5. CASE UNCHANGED poweredVars
  <2>1. UNCHANGED vars
    BY <1>5 DEF poweredVars
  <2>2. UNCHANGED <<kind, outlet, target, call, cut, answer, turn, step,
                    current_state, power_events, main_controller, loaded>>
    BY <1>5 DEF poweredVars, vars, power, controller
  <2>3. Control!ControlInv'
    BY <2>2
    DEF PoweredInv, Control!ControlInv, Control!TypeOK,
        Control!Outlet!TypeOK, Control!CallInv, Control!PowerInv
  <2> QED
    BY <2>1, <2>2, <2>3, StepKeeps DEF PoweredInv
<1> QED
  BY <1>1, <1>2, <1>3, <1>4, <1>5 DEF PoweredNext

(* The run and its controllers keep their invariants together, whoever     *)
(* dies in a call, however late the plug switches.  (run_tests.py,         *)
(* conftest.py, power_controller.py)                                       *)
THEOREM PoweredInvariance == PoweredSpec => []PoweredIInv
<1>1. PoweredInit => PoweredIInv
  BY PoweredInitHolds, InitHolds DEF PoweredInit, PoweredIInv
<1>2. PoweredIInv /\ [PoweredNext]_poweredVars => PoweredIInv'
  BY PoweredStep
<1> QED
  BY <1>1, <1>2, PTL DEF PoweredSpec

(* The run over a smart plug or a person at the switch is a run over the   *)
(* contract: of all that the controllers do, a lost reply, a late switch,  *)
(* a failed half of a cycle or the death of their process leave main and   *)
(* pytest with nothing the contract does not allow.  (power_cycle,         *)
(* _send_power_command, execute_test_suite)                                *)
THEOREM PoweredImplements == PoweredSpec => ImplementsRun
<1>1. PoweredInit => Init
  BY DEF PoweredInit
<1>2. PoweredIInv /\ [PoweredNext]_poweredVars => [Next]_vars
  BY PoweredStep
<1> QED
  BY <1>1, <1>2, PoweredInvariance, PTL DEF PoweredSpec, ImplementsRun, Spec

(* ... so what the contract's run promises of its exit code, its board and *)
(* its failures, a run with the controllers keeps.  (main, cleanup)        *)
THEOREM PoweredCorrect ==
  PoweredSpec => [](/\ GreenRun
                    /\ BoardLeftOnByCleanup
                    /\ ProvisionedIsPowered
                    /\ WrongImageExplained
                    /\ FailureExplained)
BY PoweredImplements, GreenRunTheorem, BoardLeftOnTheorem,
   ProvisionedIsPoweredTheorem, WrongImageTheorem, FailureTheorem, PTL
DEF ImplementsRun
=============================================================================

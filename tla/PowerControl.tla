----------------------------- MODULE PowerControl -----------------------------
(***************************************************************************)
(* The power controllers of hardware_control/power_controller.py: the      *)
(* smart plug (an HTTP device that may switch late, whose replies may be   *)
(* lost), the relay board (a template that talks to no hardware), the      *)
(* manual controller (a person at a prompt) and the mock.  One caller,     *)
(* one call at a time; a step is what happens between two points where     *)
(* the call waits for a device, a person or a timer.                       *)
(*                                                                         *)
(* That these keep the promise of PowerOutlet is the refinement Promise.   *)
(***************************************************************************)
EXTENDS Naturals, Sequences

CONSTANTS
  Kinds,     \* the controllers create_power_controller may be asked for
  MaxCalls,  \* bound: how many calls the caller makes
  MaxPolls,  \* bound: the polls that fit into a wait_for_state
  Faults     \* what the devices and people behind them may do

ControllerTypes == {"smart_plug", "relay_board", "manual", "mock"}
FaultKinds == {"no_reply",      \* an HTTP exchange with the plug fails
               "slow",          \* the plug switches more than 2 s later
               "hang",          \* the plug takes a request, never answers
               "eof",           \* nobody is at the prompt: input() raises
               "mock_failure"}  \* failure_probability > 0

ASSUME PowerControlAssumption ==
  /\ Kinds \subseteq ControllerTypes
  /\ MaxCalls \in Nat
  /\ MaxPolls \in Nat
  /\ Faults \subseteq FaultKinds

VARIABLES
  kind,           \* the class of the controller
  outlet, target, \* the switch of the board, and what it was last told
  call, cut, answer,  \* the caller's view, as in PowerOutlet
  turn,           \* the turn_on or turn_off a switching call is in
  step,           \* where that is
  current_state,  \* the attribute of the controller
  power_events,   \* its history: per event, what it is about and "success"
  polls,          \* the polls of a wait_for_state so far
  calls           \* how many calls were made

vars == <<kind, outlet, target, call, cut, answer, turn, step, current_state,
          power_events, polls, calls>>

world == <<outlet, target, cut>>

Outlet == INSTANCE PowerOutlet

Events == [about : {"on", "off", "cycle"}, success : BOOLEAN]

TypeOK ==
  /\ kind \in Kinds
  /\ Outlet!TypeOK
  /\ turn \in Outlet!Positions
  /\ step \in {"idle", "previous", "post", "verify", "relay", "prompt",
               "simulate", "poll", "hung"}
  /\ current_state \in Outlet!Positions \cup {"unknown"}
  /\ power_events \in Seq(Events)
  /\ polls \in 0..MaxPolls
  /\ calls \in 0..MaxCalls

(* A mock stands for its board as well: it starts switched off.            *)
Init ==
  /\ kind \in Kinds
  /\ Outlet!Init
  /\ kind = "mock" => outlet = "off"
  /\ turn = "on"
  /\ step = "idle"
  /\ current_state = IF kind = "mock" THEN "off" ELSE "unknown"
  /\ power_events = <<>>
  /\ polls = 0
  /\ calls = 0

-----------------------------------------------------------------------------
(* Calls and answers.                                                      *)

FirstStep == [smart_plug |-> "previous", relay_board |-> "relay",
              manual |-> "prompt", mock |-> "simulate"][kind]

Begin(c) ==
  /\ Outlet!Invoke(c)
  /\ turn' = IF c = "cycle" THEN "off"
             ELSE IF c \in Outlet!Positions THEN c ELSE turn
  /\ step' = IF c \in Outlet!Queries THEN "poll" ELSE FirstStep
  /\ polls' = 0
  /\ UNCHANGED <<kind, current_state, power_events>>

Call(c) ==
  /\ calls < MaxCalls
  /\ calls' = calls + 1
  /\ Begin(c)

Return(r) ==
  /\ answer' = [call |-> call, reply |-> r]
  /\ call' = "none"
  /\ step' = "idle"

TurnEvent(ok) ==
  IF ok = "raised" THEN <<>>
  ELSE <<[about |-> turn, success |-> ok = "true"]>>

(* Mutant: the failure of a cycle's second half is not recorded.           *)
CycleEventMissing(ok) ==
  IF call = "cycle" /\ ((ok = "true") = (turn = "on"))
  THEN <<[about |-> "cycle", success |-> ok = "true"]>>
  ELSE <<>>

CycleEvent(ok) ==
  IF call = "cycle" /\ (ok # "true" \/ turn = "on")
  THEN <<[about |-> "cycle", success |-> ok = "true"]>>
  ELSE <<>>

(* A turn_on or turn_off ends: the event is recorded, and the call returns *)
(* unless it was the first half of a cycle.  power_cycle turns what a      *)
(* half raises into False; the others let it through to the caller.        *)
TurnEnds(ok) ==
  /\ power_events' = power_events \o TurnEvent(ok) \o CycleEvent(ok)
  /\ IF call = "cycle" /\ turn = "off" /\ ok = "true"
     THEN /\ turn' = "on"
          /\ step' = FirstStep
          /\ UNCHANGED <<call, answer>>
     ELSE /\ Return(IF call = "cycle" /\ ok = "raised" THEN "false" ELSE ok)
          /\ UNCHANGED turn
  /\ UNCHANGED <<kind, polls, calls>>

(* The device, or the person, has taken the position of the turn.          *)
Taken ==
  /\ outlet' = turn
  /\ target' = turn
  /\ cut' = (cut \/ turn = "off")

-----------------------------------------------------------------------------
(* SmartPlugController._send_power_command.                                *)

HttpFails == "no_reply" \in Faults

(* get_state for the event's previous_state.                               *)
PlugReadsPrevious ==
  /\ step = "previous"
  /\ current_state' \in {outlet} \cup (IF HttpFails THEN {"unknown"} ELSE {})
  /\ step' = "post"
  /\ UNCHANGED <<kind, world, call, answer, turn, power_events, polls, calls>>

(* Mutant: the command that is verified is the one before.                 *)
PlugPostsLate ==
  /\ step = "post"
  /\ step' = "verify"
  /\ UNCHANGED <<kind, world, call, answer, turn, current_state, power_events,
                 polls, calls>>

PlugPosts ==
  /\ step = "post"
  /\ target' = turn
  /\ step' = "verify"
  /\ UNCHANGED <<kind, outlet, cut, call, answer, turn, current_state,
                 power_events, polls, calls>>

(* The request is lost or refused, or obeyed and its reply lost.           *)
PlugPostFails ==
  /\ step = "post"
  /\ HttpFails
  /\ target' \in {target, turn}
  /\ TurnEnds("false")
  /\ UNCHANGED <<outlet, cut, current_state>>

(* Mutant: success unless the plug is seen in the other position.          *)
PlugVerifiesLeniently ==
  /\ step = "verify"
  /\ "slow" \in Faults \/ outlet = target
  /\ \E seen \in {outlet} \cup (IF HttpFails THEN {"unknown"} ELSE {}) :
       /\ current_state' = seen
       /\ TurnEnds(IF seen \in {turn, "unknown"} THEN "true" ELSE "false")
  /\ UNCHANGED world

(* Mutant: success is the status code of the request.                      *)
PlugVerifiesNothing ==
  /\ step = "verify"
  /\ TurnEnds("true")
  /\ UNCHANGED <<world, current_state>>

(* Two seconds later get_state decides.                                    *)
PlugVerifies ==
  /\ step = "verify"
  /\ "slow" \in Faults \/ outlet = target
  /\ \E seen \in {outlet} \cup (IF HttpFails THEN {"unknown"} ELSE {}) :
       /\ current_state' = seen
       /\ TurnEnds(IF seen = turn THEN "true" ELSE "false")
  /\ UNCHANGED world

PlugSwitches ==
  /\ Outlet!Switch
  /\ UNCHANGED <<kind, turn, step, current_state, power_events, polls, calls>>

(* requests takes its timeout per request: the session attribute set in    *)
(* __init__ limits nothing, and a plug that does not answer is awaited     *)
(* without end.                                                            *)
PlugHangs ==
  /\ "hang" \in Faults
  /\ kind = "smart_plug"
  /\ step \in {"previous", "post", "verify", "poll"}
  /\ step' = "hung"
  /\ UNCHANGED <<kind, world, call, answer, turn, current_state, power_events,
                 polls, calls>>

-----------------------------------------------------------------------------
(* RelayBoardController._control_relay: nothing is sent to the board.      *)
RelayTurns ==
  /\ step = "relay"
  /\ TurnEnds("true")
  /\ current_state' = turn
  /\ UNCHANGED world

(* ManualPowerController._manual_operation.  The person does what is asked *)
(* and says so, or says that it failed, having touched the switch or not.  *)
(* A failure leaves current_state as it was.                               *)
ManualSucceeds ==
  /\ step = "prompt"
  /\ Taken
  /\ TurnEnds("true")
  /\ current_state' = turn

ManualFails ==
  /\ step = "prompt"
  /\ Taken \/ UNCHANGED world
  /\ TurnEnds("false")
  /\ UNCHANGED current_state

(* The end of the input may come at either prompt: at the first, or when   *)
(* the person has touched the switch and is asked how it went.             *)
NobodyAtPrompt ==
  /\ step = "prompt"
  /\ "eof" \in Faults
  /\ Taken \/ UNCHANGED world
  /\ TurnEnds("raised")
  /\ UNCHANGED current_state

(* MockPowerController._simulate_operation.                                *)
MockTurns ==
  /\ step = "simulate"
  /\ Taken
  /\ TurnEnds("true")
  /\ current_state' = turn

MockFails ==
  /\ step = "simulate"
  /\ "mock_failure" \in Faults
  /\ TurnEnds("false")
  /\ UNCHANGED <<world, current_state>>

-----------------------------------------------------------------------------
(* get_state and wait_for_state.                                           *)

(* What get_state returns, per controller.                                 *)
Reading ==
  {s \in Outlet!Positions \cup {"unknown", "raised"} :
     \/ kind \in {"smart_plug", "manual"} /\ s = outlet
     \/ kind = "smart_plug" /\ HttpFails /\ s = "unknown"
     \/ kind = "relay_board" /\ s = "unknown"
     \/ kind = "manual" /\ "eof" \in Faults /\ s = "raised"
     \/ kind = "mock" /\ s = current_state}

(* The smart plug and the person set current_state as they are read.       *)
Seen(s) ==
  current_state' = IF kind = "relay_board" \/ s = "raised"
                   THEN current_state ELSE s

QueryReturns(r) ==
  /\ Return(r)
  /\ UNCHANGED <<kind, world, turn, power_events, polls, calls>>

StateReturns ==
  /\ step = "poll"
  /\ call = "state"
  /\ \E s \in Reading : Seen(s) /\ QueryReturns(s)

PollHits ==
  /\ step = "poll"
  /\ call # "state"
  /\ \E s \in Reading : /\ s \in {Outlet!Awaited(call), "raised"}
                        /\ Seen(s)
                        /\ QueryReturns(IF s = "raised" THEN s ELSE "true")

PollMisses ==
  /\ step = "poll"
  /\ call # "state"
  /\ polls < MaxPolls
  /\ \E s \in Reading \ {Outlet!Awaited(call), "raised"} : Seen(s)
  /\ polls' = polls + 1
  /\ UNCHANGED <<kind, world, call, answer, turn, step, power_events, calls>>

(* Mutant: the loop ends only on the awaited state.                        *)
PollNeverTimesOut == FALSE

(* The time is up, after any number of polls.                              *)
PollTimesOut ==
  /\ step = "poll"
  /\ call # "state"
  /\ QueryReturns("false")
  /\ UNCHANGED current_state

-----------------------------------------------------------------------------
Plug == PlugReadsPrevious \/ PlugPosts \/ PlugPostFails \/ PlugVerifies
Prompt == ManualSucceeds \/ ManualFails \/ NobodyAtPrompt
Mock == MockTurns \/ MockFails
Query == StateReturns \/ PollHits \/ PollMisses \/ PollTimesOut

Controller == Plug \/ RelayTurns \/ Prompt \/ Mock \/ Query

Next ==
  \/ \E c \in Outlet!Calls : Call(c)
  \/ Controller
  \/ PlugSwitches
  \/ PlugHangs

Spec == Init /\ [][Next]_vars

(* Replies and failures arrive, people answer, sleeps end, and a plug that *)
(* was told to switch does.                                                *)
Fairness == WF_vars(Controller) /\ WF_vars(PlugSwitches)

FairSpec == Spec /\ Fairness

-----------------------------------------------------------------------------
(* Every controller keeps the promise of PowerOutlet: a True answer is     *)
(* true of the outlet whatever replies were lost and however late earlier  *)
(* commands took effect, and a cycle that returns True has interrupted the *)
(* board's power.  All but the relay template, which answers True for what *)
(* it never did.  (_send_power_command, _manual_operation,                 *)
(* _simulate_operation, power_cycle, wait_for_state)                       *)
Promise ==
  /\ Outlet!Init
  /\ [][kind # "relay_board" => Outlet!Next]_(Outlet!outletVars)

(* What a True answer of a switching call is worth: no command of a call   *)
(* before it moves the outlet afterwards.  (turn_on, turn_off, power_cycle)*)
StaysPut == kind # "relay_board" => Outlet!StaysPut

(* The history tells what the caller was told: after a switching call that *)
(* returned, the last event carries its result.  generate_final_report     *)
(* copies the history into the report of the run.                          *)
HistoryTellsAnswer ==
  call = "none" /\ answer.call \in Outlet!Switching
                /\ answer.reply # "raised"
    => /\ power_events # <<>>
       /\ power_events[Len(power_events)] =
            [about |-> answer.call, success |-> answer.reply = "true"]

(* Why the promise is kept: a call in progress is at a step of its own     *)
(* controller and kind, turns a way it may turn, remembers a loss of       *)
(* power, and when a plug is verified its last command was this one.       *)
CallInv ==
  /\ call = "none" <=> step = "idle"
  /\ step \in {"previous", "post", "verify"} => kind = "smart_plug"
  /\ step = "relay" => kind = "relay_board"
  /\ step = "prompt" => kind = "manual"
  /\ step = "simulate" => kind = "mock"
  /\ step = "poll" => call \in Outlet!Queries
  /\ step \notin {"idle", "poll", "hung"} => turn \in Outlet!Commands(call)

PowerInv ==
  /\ call # "none" /\ outlet = "off" => cut
  /\ call = "cycle" /\ turn = "on" /\ kind # "relay_board" => cut
  /\ step = "verify" => target = turn
  /\ kind = "mock" => current_state = outlet /\ target = outlet

ControlInv == TypeOK /\ CallInv /\ PowerInv

IInv == ControlInv /\ HistoryTellsAnswer

(* Every call returns, unless it waits for a plug that took its request    *)
(* and never answers.  (wait_for_state's timeout, SmartPlugController)     *)
CallsReturnOrHang == call # "none" ~> call = "none" \/ step = "hung"
=============================================================================

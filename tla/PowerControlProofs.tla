-------------------------- MODULE PowerControlProofs --------------------------
(***************************************************************************)
(* Proofs about PowerControl, for every set of controllers, any number of  *)
(* calls and polls, and every fault: its inductive invariant IInv, and     *)
(* that every controller but the relay template implements PowerOutlet.    *)
(***************************************************************************)
EXTENDS PowerControl, SequenceTheorems, TLAPS

USE DEF Outlet!Positions, Outlet!Queries, Outlet!Switching, Outlet!Calls,
        Outlet!Replies

-----------------------------------------------------------------------------
(* The history.                                                            *)

(* Appending a non-empty sequence makes its last element the last.         *)
LEMMA LastOfConcat ==
  ASSUME NEW S, NEW s \in Seq(S), NEW e \in S
  PROVE  /\ s \o <<e>> \in Seq(S)
         /\ s \o <<e>> # <<>>
         /\ (s \o <<e>>)[Len(s \o <<e>>)] = e
<1>1. <<e>> \in Seq(S) /\ Len(<<e>>) = 1 /\ <<e>>[1] = e
  OBVIOUS
<1>2. s \o <<e>> \in Seq(S) /\ Len(s \o <<e>>) = Len(s) + 1
  BY <1>1, ConcatProperties
<1>3. Len(s) \in Nat
  BY LenProperties
<1>4. (s \o <<e>>)[Len(s) + 1] = e
  BY <1>1, <1>2, <1>3, ConcatProperties
<1>5. s \o <<e>> # <<>>
  BY <1>2, <1>3, EmptySeq
<1> QED
  BY <1>2, <1>4, <1>5

LEMMA ConcatEmpty ==
  ASSUME NEW S, NEW s \in Seq(S)
  PROVE  s \o <<>> = s
BY ConcatEmptySeq

(* What TurnEnds adds ends with the event of the call that returns.        *)
LEMMA TurnEndsHistory ==
  ASSUME power_events \in Seq(Events), turn \in {"on", "off"},
         call \in {turn, "cycle"},
         NEW ok \in {"true", "false", "raised"}, TurnEnds(ok)
  PROVE  power_events' \in Seq(Events) /\ HistoryTellsAnswer'
<1> DEFINE e == [about |-> turn, success |-> ok = "true"]
           c == [about |-> "cycle", success |-> ok = "true"]
           h == power_events \o TurnEvent(ok)
<1>1. e \in Events /\ c \in Events
  BY DEF Events
<1>2. h \in Seq(Events)
  <2>1. CASE ok = "raised"
    BY <2>1, ConcatEmpty DEF TurnEvent
  <2>2. CASE ok # "raised"
    BY <2>2, <1>1, LastOfConcat DEF TurnEvent
  <2> QED BY <2>1, <2>2
<1>3. power_events' = h \o CycleEvent(ok)
  BY DEF TurnEnds
<1>4. CASE CycleEvent(ok) = <<c>>
  <2>1. call = "cycle"
    BY <1>4 DEF CycleEvent
  <2> HIDE DEF h
  <2>2. /\ power_events' \in Seq(Events)
        /\ power_events' # <<>>
        /\ power_events'[Len(power_events')] = c
    BY <1>1, <1>2, <1>3, <1>4, LastOfConcat
  <2>3. call' = "none" => answer' = [call |-> "cycle",
                                     reply |-> IF ok = "raised" THEN "false" ELSE ok]
    BY <2>1 DEF TurnEnds, Return
  <2> QED
    BY <2>2, <2>3 DEF HistoryTellsAnswer
<1>5. CASE CycleEvent(ok) = <<>>
  <2>1. call # "cycle" \/ (ok = "true" /\ turn = "off")
    BY <1>5 DEF CycleEvent
  <2>2. power_events' = h
    BY <1>2, <1>3, <1>5, ConcatEmpty
  <2>3. CASE call = "cycle"
    BY <2>1, <2>2, <2>3, <1>2 DEF TurnEnds, HistoryTellsAnswer
  <2>4. CASE call # "cycle"
    <3>1. call = turn /\ answer' = [call |-> call, reply |-> ok]
      BY <2>4 DEF TurnEnds, Return
    <3>2. CASE ok = "raised"
      BY <3>1, <3>2, <2>2, <1>2 DEF HistoryTellsAnswer
    <3>3. CASE ok # "raised"
      <4>1. /\ power_events' # <<>>
            /\ power_events'[Len(power_events')] = e
        BY <3>3, <2>2, <1>1, LastOfConcat DEF TurnEvent
      <4> QED
        BY <4>1, <3>1, <2>2, <1>2 DEF HistoryTellsAnswer
    <3> QED BY <3>2, <3>3
  <2> QED BY <2>3, <2>4
<1> QED BY <1>4, <1>5 DEF CycleEvent

-----------------------------------------------------------------------------
(* The inductive invariant.                                                *)

TurningSteps == {"previous", "post", "verify", "relay", "prompt", "simulate"}

LEMMA FirstStepIsTurning ==
  ASSUME kind \in ControllerTypes
  PROVE  /\ FirstStep \in {"previous", "relay", "prompt", "simulate"}
         /\ FirstStep = "previous" <=> kind = "smart_plug"
         /\ FirstStep = "relay" <=> kind = "relay_board"
         /\ FirstStep = "prompt" <=> kind = "manual"
         /\ FirstStep = "simulate" <=> kind = "mock"
BY DEF FirstStep, ControllerTypes

LEMMA KindIsType ==
  ASSUME TypeOK
  PROVE  kind \in ControllerTypes
BY PowerControlAssumption DEF TypeOK

(* Whatever a turn ends with, the controller's half of ControlInv is preserved.  *)
LEMMA TurnEndsKeeps ==
  ASSUME ControlInv, step \in TurningSteps,
         NEW ok \in {"true", "false", "raised"}, TurnEnds(ok)
  PROVE  /\ kind' \in Kinds /\ kind' = kind
         /\ call' \in Outlet!Calls \cup {"none"}
         /\ answer' \in [call : Outlet!Calls \cup {"none"},
                         reply : Outlet!Replies]
         /\ turn' \in Outlet!Positions
         /\ step' \in {"idle"} \cup TurningSteps /\ step' # "verify"
         /\ power_events' \in Seq(Events)
         /\ polls' \in 0..MaxPolls
         /\ calls' \in 0..MaxCalls
         /\ CallInv' /\ HistoryTellsAnswer'
         /\ call' # "none" => /\ call' = call /\ call = "cycle"
                              /\ turn = "off" /\ ok = "true"
<1>1. turn \in {"on", "off"} /\ call \in {turn, "cycle"}
  BY DEF ControlInv, TypeOK, CallInv, TurningSteps, Outlet!Commands
<1>2. power_events' \in Seq(Events) /\ HistoryTellsAnswer'
  BY <1>1, TurnEndsHistory DEF ControlInv, TypeOK
<1>3. /\ kind \in ControllerTypes /\ kind' = kind /\ kind' \in Kinds
      /\ polls' \in 0..MaxPolls /\ calls' \in 0..MaxCalls
  BY KindIsType DEF ControlInv, TypeOK, TurnEnds
<1>4. CASE call = "cycle" /\ turn = "off" /\ ok = "true"
  <2>1. turn' = "on" /\ step' = FirstStep /\ call' = call /\ answer' = answer
    BY <1>4 DEF TurnEnds
  <2>2. CallInv'
    BY <2>1, <1>3, <1>4, FirstStepIsTurning DEF CallInv, Outlet!Commands
  <2> QED
    BY <2>1, <2>2, <1>2, <1>3, <1>4, FirstStepIsTurning
    DEF ControlInv, TypeOK, TurningSteps, Outlet!TypeOK
<1>5. CASE ~(call = "cycle" /\ turn = "off" /\ ok = "true")
  <2>1. PICK r \in {"true", "false", "raised"} :
          /\ answer' = [call |-> call, reply |-> r]
          /\ call' = "none" /\ step' = "idle" /\ turn' = turn
    BY <1>5 DEF TurnEnds, Return
  <2>2. CallInv'
    BY <2>1 DEF CallInv
  <2> QED
    BY <1>1, <2>1, <2>2, <1>2, <1>3 DEF TurningSteps
<1> QED BY <1>4, <1>5

LEMMA InitInvariant == Init => ControlInv
<1> SUFFICES ASSUME Init PROVE ControlInv
  OBVIOUS
<1>1. <<>> \in Seq(Events)
  BY EmptySeq
<1>2. TypeOK
  <2>1. Outlet!TypeOK
    BY DEF Init, Outlet!Init, Outlet!TypeOK
  <2>2. power_events \in Seq(Events)
    BY <1>1 DEF Init
  <2>3. polls \in 0..MaxPolls /\ calls \in 0..MaxCalls
    BY PowerControlAssumption DEF Init
  <2>4. /\ kind \in Kinds /\ turn \in Outlet!Positions /\ step = "idle"
        /\ current_state \in Outlet!Positions \cup {"unknown"}
    BY DEF Init
  <2> QED
    BY <2>1, <2>2, <2>3, <2>4 DEF TypeOK
<1>3. CallInv /\ PowerInv
  BY DEF Init, Outlet!Init, CallInv, PowerInv
<1> QED BY <1>2, <1>3 DEF ControlInv

LEMMA BeginKeeps ==
  ASSUME ControlInv, NEW c \in Outlet!Calls, Begin(c), calls' \in 0..MaxCalls
  PROVE  ControlInv'
<1>1. kind \in ControllerTypes
  BY KindIsType DEF ControlInv
<1>2. TypeOK'
  BY <1>1, FirstStepIsTurning, PowerControlAssumption
  DEF ControlInv, TypeOK, Begin, Outlet!Invoke, Outlet!TypeOK
<1>3. CallInv'
  <2>1. CASE c \in Outlet!Queries
    BY <2>1 DEF Begin, Outlet!Invoke, CallInv
  <2>2. CASE c \notin Outlet!Queries
    <3>1. /\ step' = FirstStep /\ call' = c /\ kind' = kind
          /\ turn' \in Outlet!Commands(c)
      BY <2>2 DEF Begin, Outlet!Invoke, Outlet!Commands
    <3> QED
      BY <3>1, <2>2, <1>1, FirstStepIsTurning DEF CallInv, Outlet!Commands
  <2> QED BY <2>1, <2>2
<1>4. PowerInv'
  BY <1>1, FirstStepIsTurning
  DEF ControlInv, TypeOK, PowerInv, Begin, Outlet!Invoke, Outlet!TypeOK
<1> QED BY <1>2, <1>3, <1>4 DEF ControlInv

LEMMA CallKeeps ==
  ASSUME ControlInv, NEW c \in Outlet!Calls, Call(c)
  PROVE  ControlInv'
<1>1. calls' \in 0..MaxCalls
  BY PowerControlAssumption DEF ControlInv, TypeOK, Call
<1> QED BY <1>1, BeginKeeps DEF Call

(* Every turn of the switch preserves ControlInv, given what its action does to  *)
(* the world and to current_state.                                         *)
LEMMA TurnKeeps ==
  ASSUME ControlInv, step \in TurningSteps,
         NEW ok \in {"true", "false", "raised"}, TurnEnds(ok),
         outlet' \in Outlet!Positions, target' \in Outlet!Positions,
         cut' \in BOOLEAN, cut => cut', outlet' = "off" => outlet = "off" \/ cut',
         current_state' \in Outlet!Positions \cup {"unknown"},
         ok = "true" /\ kind # "relay_board" => outlet' = turn,
         kind = "mock" => current_state' = outlet' /\ target' = outlet'
  PROVE  ControlInv'
<1>1. call # "none"
  BY DEF ControlInv, CallInv, TurningSteps
<1>2. outlet' = "off" => cut'
  BY <1>1 DEF ControlInv, PowerInv
<1>3. TypeOK'
  BY TurnEndsKeeps DEF TypeOK, Outlet!TypeOK, TurningSteps
<1>4. PowerInv'
  BY <1>2, TurnEndsKeeps DEF PowerInv
<1> QED
  BY <1>3, <1>4, TurnEndsKeeps DEF ControlInv

LEMMA PlugReadsPreviousKeeps == ControlInv /\ PlugReadsPrevious => ControlInv'
<1> SUFFICES ASSUME ControlInv, PlugReadsPrevious PROVE ControlInv'
  OBVIOUS
<1>1. kind = "smart_plug"
  BY DEF ControlInv, CallInv, PlugReadsPrevious
<1>2. TypeOK'
  BY DEF ControlInv, TypeOK, Outlet!TypeOK, PlugReadsPrevious, world
<1>3. CallInv'
  BY <1>1 DEF ControlInv, CallInv, PlugReadsPrevious, world, Outlet!Commands
<1>4. PowerInv'
  BY <1>1 DEF ControlInv, PowerInv, PlugReadsPrevious, world
<1> QED BY <1>2, <1>3, <1>4 DEF ControlInv

LEMMA PlugPostsKeeps == ControlInv /\ PlugPosts => ControlInv'
<1> SUFFICES ASSUME ControlInv, PlugPosts PROVE ControlInv'
  OBVIOUS
<1>1. kind = "smart_plug"
  BY DEF ControlInv, CallInv, PlugPosts
<1>2. TypeOK'
  BY DEF ControlInv, TypeOK, Outlet!TypeOK, PlugPosts
<1>3. CallInv'
  BY <1>1 DEF ControlInv, CallInv, PlugPosts, Outlet!Commands
<1>4. PowerInv'
  BY <1>1 DEF ControlInv, PowerInv, PlugPosts
<1> QED BY <1>2, <1>3, <1>4 DEF ControlInv

LEMMA PlugPostFailsKeeps == ControlInv /\ PlugPostFails => ControlInv'
<1> SUFFICES ASSUME ControlInv, PlugPostFails PROVE ControlInv'
  OBVIOUS
<1>1. /\ step \in TurningSteps /\ kind = "smart_plug" /\ TurnEnds("false")
      /\ target' \in Outlet!Positions
      /\ UNCHANGED <<outlet, cut, current_state>>
  BY DEF ControlInv, TypeOK, Outlet!TypeOK, CallInv, PlugPostFails, TurningSteps
<1> QED
  BY <1>1, TurnKeeps DEF ControlInv, TypeOK, Outlet!TypeOK

LEMMA PlugVerifiesKeeps == ControlInv /\ PlugVerifies => ControlInv'
<1> SUFFICES ASSUME ControlInv, PlugVerifies PROVE ControlInv'
  OBVIOUS
<1>1. PICK seen \in {outlet, "unknown"} :
        current_state' = seen /\ TurnEnds(IF seen = turn THEN "true" ELSE "false")
  BY DEF PlugVerifies
<1>2. /\ step \in TurningSteps /\ kind = "smart_plug"
      /\ UNCHANGED <<outlet, target, cut>>
  BY DEF ControlInv, CallInv, PlugVerifies, TurningSteps, world
<1>3. seen = turn => seen = outlet
  BY DEF ControlInv, TypeOK
<1>4. CASE seen = turn
  BY <1>1, <1>2, <1>3, <1>4, TurnKeeps DEF ControlInv, TypeOK, Outlet!TypeOK
<1>5. CASE seen # turn
  BY <1>1, <1>2, <1>5, TurnKeeps DEF ControlInv, TypeOK, Outlet!TypeOK
<1> QED BY <1>4, <1>5

LEMMA PlugSwitchesKeeps == ControlInv /\ PlugSwitches => ControlInv'
<1> SUFFICES ASSUME ControlInv, PlugSwitches PROVE ControlInv'
  OBVIOUS
<1>1. TypeOK'
  BY DEF ControlInv, TypeOK, Outlet!TypeOK, PlugSwitches, Outlet!Switch
<1>2. CallInv'
  BY DEF ControlInv, CallInv, PlugSwitches, Outlet!Switch,
         Outlet!Commands
<1>3. PowerInv'
  BY DEF ControlInv, TypeOK, Outlet!TypeOK, PowerInv, PlugSwitches, Outlet!Switch
<1> QED BY <1>1, <1>2, <1>3 DEF ControlInv

LEMMA PlugHangsKeeps == ControlInv /\ PlugHangs => ControlInv'
<1> SUFFICES ASSUME ControlInv, PlugHangs PROVE ControlInv'
  OBVIOUS
<1>1. TypeOK'
  BY DEF ControlInv, TypeOK, Outlet!TypeOK, PlugHangs, world
<1>2. CallInv'
  BY DEF ControlInv, CallInv, PlugHangs, world
<1>3. PowerInv'
  BY DEF ControlInv, PowerInv, PlugHangs, world
<1> QED BY <1>1, <1>2, <1>3 DEF ControlInv

LEMMA RelayTurnsKeeps == ControlInv /\ RelayTurns => ControlInv'
<1> SUFFICES ASSUME ControlInv, RelayTurns PROVE ControlInv'
  OBVIOUS
<1>1. /\ step \in TurningSteps /\ kind = "relay_board" /\ TurnEnds("true")
      /\ current_state' = turn /\ UNCHANGED <<outlet, target, cut>>
  BY DEF ControlInv, CallInv, RelayTurns, TurningSteps, world
<1> QED
  BY <1>1, TurnKeeps DEF ControlInv, TypeOK, Outlet!TypeOK

LEMMA PromptKeeps == ControlInv /\ Prompt => ControlInv'
<1> SUFFICES ASSUME ControlInv, Prompt PROVE ControlInv'
  OBVIOUS
<1>1. /\ step \in TurningSteps /\ kind = "manual"
      /\ Taken \/ UNCHANGED world
      /\ \/ TurnEnds("true") /\ Taken /\ current_state' = turn
         \/ TurnEnds("false") /\ UNCHANGED current_state
         \/ TurnEnds("raised") /\ UNCHANGED current_state
  BY DEF ControlInv, CallInv, Prompt, ManualSucceeds, ManualFails, NobodyAtPrompt,
         TurningSteps, world
<1>2. /\ outlet' \in Outlet!Positions /\ target' \in Outlet!Positions
      /\ cut' \in BOOLEAN /\ (cut => cut')
      /\ (outlet' = "off" => outlet = "off" \/ cut')
      /\ (Taken => outlet' = turn)
  <2>1. /\ outlet \in Outlet!Positions /\ target \in Outlet!Positions
        /\ turn \in Outlet!Positions /\ cut \in BOOLEAN
    BY DEF ControlInv, TypeOK, Outlet!TypeOK
  <2>2. CASE Taken
    BY <2>1, <2>2 DEF Taken
  <2>3. CASE UNCHANGED world
    <3>1. outlet' = outlet /\ target' = target /\ cut' = cut
      BY <2>3 DEF world
    <3>2. Taken => outlet' = turn
      BY DEF Taken
    <3> QED BY <2>1, <3>1, <3>2
  <2> QED BY <1>1, <2>2, <2>3
<1>3. CASE TurnEnds("true") /\ Taken /\ current_state' = turn
  BY <1>1, <1>2, <1>3, TurnKeeps DEF ControlInv, TypeOK, Outlet!TypeOK
<1>4. CASE TurnEnds("false") /\ UNCHANGED current_state
  BY <1>1, <1>2, <1>4, TurnKeeps DEF ControlInv, TypeOK, Outlet!TypeOK
<1>5. CASE TurnEnds("raised") /\ UNCHANGED current_state
  BY <1>1, <1>2, <1>5, TurnKeeps DEF ControlInv, TypeOK, Outlet!TypeOK
<1> QED BY <1>1, <1>3, <1>4, <1>5

LEMMA MockKeeps == ControlInv /\ Mock => ControlInv'
<1> SUFFICES ASSUME ControlInv, Mock PROVE ControlInv'
  OBVIOUS
<1>1. /\ step \in TurningSteps /\ kind = "mock"
      /\ current_state = outlet /\ target = outlet
  BY DEF ControlInv, CallInv, PowerInv, Mock, MockTurns, MockFails, TurningSteps
<1>2. CASE MockTurns
  <2>1. TurnEnds("true") /\ Taken /\ current_state' = turn
    BY <1>2 DEF MockTurns
  <2> QED
    BY <1>1, <2>1, TurnKeeps DEF Taken, ControlInv, TypeOK, Outlet!TypeOK
<1>3. CASE MockFails
  <2>1. TurnEnds("false") /\ UNCHANGED <<outlet, target, cut, current_state>>
    BY <1>3 DEF MockFails, world
  <2> QED
    BY <1>1, <2>1, TurnKeeps DEF ControlInv, TypeOK, Outlet!TypeOK
<1> QED BY <1>2, <1>3 DEF Mock

(* A query leaves the world alone and answers with a Reply.                *)
LEMMA QueryFacts ==
  ASSUME ControlInv, Query
  PROVE  /\ step = "poll" /\ call \in Outlet!Queries
         /\ UNCHANGED <<kind, outlet, target, cut, turn, power_events, calls>>
         /\ current_state' \in Outlet!Positions \cup {"unknown"}
         /\ polls' \in 0..MaxPolls
         /\ kind = "mock" => current_state' = current_state
         /\ \/ UNCHANGED <<call, answer, step>>
            \/ \E r \in Outlet!Replies : Return(r)
<1>1. current_state \in Outlet!Positions \cup {"unknown"} /\ polls \in 0..MaxPolls
  BY DEF ControlInv, TypeOK
<1>2. \A s \in Reading : /\ s \in Outlet!Replies
                         /\ Seen(s) => /\ current_state' \in Outlet!Positions
                                                         \cup {"unknown"}
                                       /\ kind = "mock" =>
                                            current_state' = current_state
  BY <1>1 DEF Reading, Seen
<1>3. step = "poll" /\ call \in Outlet!Queries
  BY DEF ControlInv, CallInv, Query, StateReturns, PollHits, PollMisses, PollTimesOut
<1>4. CASE StateReturns
  BY <1>1, <1>2, <1>3, <1>4 DEF StateReturns, QueryReturns, world
<1>5. CASE PollHits
  <2>1. PICK s \in Reading : /\ Seen(s)
                             /\ QueryReturns(IF s = "raised" THEN s ELSE "true")
    BY <1>5 DEF PollHits
  <2> QED
    BY <1>1, <1>2, <1>3, <2>1 DEF QueryReturns, world
<1>6. CASE PollMisses
  <2>1. PICK s \in Reading : Seen(s)
    BY <1>6 DEF PollMisses
  <2>2. polls' \in 0..MaxPolls
    BY <1>1, <1>6, PowerControlAssumption DEF PollMisses
  <2> QED
    BY <1>2, <1>3, <1>6, <2>1, <2>2 DEF PollMisses, world
<1>7. CASE PollTimesOut
  BY <1>1, <1>3, <1>7 DEF PollTimesOut, QueryReturns, world
<1> QED BY <1>4, <1>5, <1>6, <1>7 DEF Query

LEMMA QueryKeeps == ControlInv /\ Query => ControlInv'
<1> SUFFICES ASSUME ControlInv, Query PROVE ControlInv'
  OBVIOUS
<1>1. CASE UNCHANGED <<call, answer, step>>
  <2>1. TypeOK'
    BY <1>1, QueryFacts DEF ControlInv, TypeOK, Outlet!TypeOK
  <2>2. CallInv' /\ PowerInv'
    BY <1>1, QueryFacts DEF ControlInv, CallInv, PowerInv
  <2> QED BY <2>1, <2>2 DEF ControlInv
<1>2. CASE \E r \in Outlet!Replies : Return(r)
  <2>1. PICK r \in Outlet!Replies : Return(r)
    BY <1>2
  <2>2. TypeOK'
    BY <2>1, QueryFacts DEF ControlInv, TypeOK, Outlet!TypeOK, Return
  <2>3. CallInv' /\ PowerInv'
    BY <2>1, QueryFacts DEF ControlInv, CallInv, PowerInv, Return
  <2> QED BY <2>2, <2>3 DEF ControlInv
<1> QED BY <1>1, <1>2, QueryFacts

LEMMA NextKeeps == ControlInv /\ [Next]_vars => ControlInv'
<1> SUFFICES ASSUME ControlInv, [Next]_vars PROVE ControlInv'
  OBVIOUS
<1>1. CASE \E c \in Outlet!Calls : Call(c)
  BY <1>1, CallKeeps
<1>2. CASE Plug
  BY <1>2, PlugReadsPreviousKeeps, PlugPostsKeeps, PlugPostFailsKeeps,
     PlugVerifiesKeeps DEF Plug
<1>3. CASE RelayTurns \/ Prompt \/ Mock \/ Query
  BY <1>3, RelayTurnsKeeps, PromptKeeps, MockKeeps, QueryKeeps
<1>4. CASE PlugSwitches \/ PlugHangs
  BY <1>4, PlugSwitchesKeeps, PlugHangsKeeps
<1>5. CASE UNCHANGED vars
  <2>1. TypeOK'
    BY <1>5 DEF vars, ControlInv, TypeOK, Outlet!TypeOK
  <2>2. CallInv' /\ PowerInv'
    BY <1>5 DEF vars, ControlInv, CallInv, PowerInv
  <2> QED BY <2>1, <2>2 DEF ControlInv
<1> QED BY <1>1, <1>2, <1>3, <1>4, <1>5 DEF Next, Controller

(* Only the end of a turn writes the history, and the end of a query is    *)
(* not about it.                                                           *)
LEMMA HistoryKeeps ==
  ControlInv /\ HistoryTellsAnswer /\ [Next]_vars => HistoryTellsAnswer'
<1> SUFFICES ASSUME ControlInv, HistoryTellsAnswer, [Next]_vars
             PROVE  HistoryTellsAnswer'
  OBVIOUS
<1>1. ASSUME NEW ok \in {"true", "false", "raised"}, TurnEnds(ok),
             step \in TurningSteps
      PROVE  HistoryTellsAnswer'
  BY <1>1, TurnEndsKeeps
<1>2. ASSUME UNCHANGED <<call, answer, power_events>>
      PROVE  HistoryTellsAnswer'
  BY <1>2 DEF HistoryTellsAnswer
<1>3. CASE \E c \in Outlet!Calls : Call(c)
  BY <1>3 DEF Call, Begin, Outlet!Invoke, HistoryTellsAnswer
<1>4. CASE Plug
  BY <1>1, <1>2, <1>4
  DEF Plug, PlugReadsPrevious, PlugPosts, PlugPostFails, PlugVerifies,
      TurningSteps
<1>5. CASE RelayTurns \/ Prompt \/ Mock
  BY <1>1, <1>5
  DEF RelayTurns, Prompt, ManualSucceeds, ManualFails, NobodyAtPrompt, Mock,
      MockTurns, MockFails, TurningSteps
<1>6. CASE Query
  <2>1. call \in Outlet!Queries /\ UNCHANGED power_events
    BY <1>6, QueryFacts
  <2>2. CASE \E r \in Outlet!Replies : Return(r)
    BY <2>1, <2>2 DEF Return, HistoryTellsAnswer
  <2> QED BY <1>2, <1>6, <2>1, <2>2, QueryFacts
<1>7. CASE PlugSwitches \/ PlugHangs \/ UNCHANGED vars
  BY <1>2, <1>7 DEF PlugSwitches, Outlet!Switch, PlugHangs, vars
<1> QED
  BY <1>3, <1>4, <1>5, <1>6, <1>7 DEF Next, Controller

(* The inductive invariant of every controller, for any number of calls    *)
(* and polls and any faults.                                               *)
THEOREM Invariance == Spec => []IInv
<1>1. Init => IInv
  BY InitInvariant DEF IInv, Init, Outlet!Init, HistoryTellsAnswer
<1>2. IInv /\ [Next]_vars => IInv'
  BY NextKeeps, HistoryKeeps DEF IInv
<1> QED BY <1>1, <1>2, PTL DEF Spec

(* A controller's attributes, and the caller's view, keep their types.     *)
THEOREM TypeCorrect == Spec => []TypeOK
<1>1. IInv => TypeOK
  BY DEF IInv, ControlInv
<1> QED BY <1>1, Invariance, PTL

(* The last event of the history carries the result of the last switching  *)
(* call, for power_cycle as for the turns it is made of.                   *)
THEOREM HistoryCorrect == Spec => []HistoryTellsAnswer
<1>1. IInv => HistoryTellsAnswer
  BY DEF IInv
<1> QED BY <1>1, Invariance, PTL

-----------------------------------------------------------------------------
(* The promise.                                                            *)

(* A turn of the switch is a step of PowerOutlet: an answer when it ends   *)
(* the call, otherwise at most a command.                                  *)
LEMMA TurnRefines ==
  ASSUME ControlInv, step \in TurningSteps,
         NEW ok \in {"true", "false", "raised"}, TurnEnds(ok),
         \/ UNCHANGED <<outlet, target>>
         \/ target' = turn /\ outlet' \in {outlet, turn},
         cut' = (cut \/ outlet' = "off"),
         ok = "true" => outlet' = turn /\ target' = turn,
         kind # "relay_board"
  PROVE  Outlet!Next \/ UNCHANGED Outlet!outletVars
<1>1. /\ turn \in Outlet!Positions /\ cut \in BOOLEAN
      /\ call \in {turn, "cycle"} /\ call \notin Outlet!Queries /\ call # "none"
      /\ turn \in Outlet!Commands(call)
      /\ outlet = "off" => cut
  BY DEF ControlInv, TypeOK, Outlet!TypeOK, CallInv, PowerInv, TurningSteps,
         Outlet!Commands
<1>2. CASE call = "cycle" /\ turn = "off" /\ ok = "true"
  <2>1. call' = call /\ answer' = answer
    BY <1>2 DEF TurnEnds
  <2>2. Outlet!Obey(turn)
    BY <1>1, <1>2, <2>1 DEF Outlet!Obey
  <2> QED BY <1>1, <2>2 DEF Outlet!Next
<1>3. CASE ~(call = "cycle" /\ turn = "off" /\ ok = "true")
  <2> DEFINE r == IF call = "cycle" /\ ok = "raised" THEN "false" ELSE ok
  <2>1. Return(r)
    BY <1>3 DEF TurnEnds
  <2>2. Outlet!Truthful(r)
    <3>1. r \in {"true", "false"} \/ (r = "raised" /\ call # "cycle")
      OBVIOUS
    <3>2. r = "true" => /\ ok = "true" /\ turn = Outlet!Final(call)
                        /\ outlet' = turn /\ target' = turn
      BY <1>1, <1>3 DEF Outlet!Final
    <3>3. call = "cycle" /\ r = "true" => cut'
      <4> SUFFICES ASSUME call = "cycle", r = "true" PROVE cut'
        OBVIOUS
      <4>1. ok = "true" /\ turn = "on"
        BY <1>1, <1>3, <3>2
      <4>2. cut
        BY <4>1 DEF ControlInv, PowerInv
      <4> QED BY <4>2
    <3> HIDE DEF r
    <3> QED
      BY <1>1, <3>1, <3>2, <3>3 DEF Outlet!Truthful
  <2>3. r \in Outlet!Replies
    OBVIOUS
  <2> HIDE DEF r
  <2>4. \/ UNCHANGED <<outlet, target>>
        \/ \E t \in Outlet!Commands(call) : target' = t /\ outlet' \in {outlet, t}
    BY <1>1
  <2>5. Outlet!Respond(r)
    BY <1>1, <2>1, <2>2, <2>4 DEF Outlet!Respond, Return
  <2> QED BY <2>3, <2>5 DEF Outlet!Next
<1> QED BY <1>2, <1>3

(* Nothing but the turns, the queries and a late switch moves the outlet.  *)
LEMMA PlugRefines ==
  ASSUME ControlInv, Plug
  PROVE  Outlet!Next \/ UNCHANGED Outlet!outletVars
<1>1. /\ step \in TurningSteps /\ step # "idle" /\ kind = "smart_plug"
      /\ call # "none" /\ turn \in Outlet!Positions
      /\ turn \in Outlet!Commands(call)
      /\ cut \in BOOLEAN /\ (outlet = "off" => cut)
  BY DEF ControlInv, TypeOK, Outlet!TypeOK, CallInv, PowerInv, TurningSteps, Plug,
         PlugReadsPrevious, PlugPosts, PlugPostFails, PlugVerifies
<1>2. CASE PlugReadsPrevious
  BY <1>2 DEF PlugReadsPrevious, world, Outlet!outletVars
<1>3. CASE PlugPosts
  <2>1. Outlet!Obey(turn)
    BY <1>1, <1>3 DEF PlugPosts, Outlet!Obey
  <2> QED BY <1>1, <2>1 DEF Outlet!Next
<1>4. CASE PlugPostFails
  <2>1. /\ TurnEnds("false") /\ UNCHANGED <<outlet, cut>>
        /\ target' \in {target, turn}
    BY <1>4 DEF PlugPostFails
  <2>2. cut' = (cut \/ outlet' = "off")
    BY <1>1, <2>1
  <2> QED BY <1>1, <2>1, <2>2, TurnRefines
<1>5. CASE PlugVerifies
  <2>1. PICK seen \in {outlet, "unknown"} :
          TurnEnds(IF seen = turn THEN "true" ELSE "false")
    BY <1>5 DEF PlugVerifies
  <2>2. UNCHANGED <<outlet, target, cut>> /\ target = turn
    BY <1>5 DEF PlugVerifies, world, ControlInv, PowerInv
  <2>3. cut' = (cut \/ outlet' = "off")
    BY <1>1, <2>2
  <2>4. CASE seen = turn
    <3>1. outlet = turn
      BY <1>1, <2>4
    <3> QED BY <1>1, <2>1, <2>2, <2>3, <2>4, <3>1, TurnRefines
  <2>5. CASE seen # turn
    BY <1>1, <2>1, <2>2, <2>3, <2>5, TurnRefines
  <2> QED BY <2>4, <2>5
<1> QED BY <1>2, <1>3, <1>4, <1>5 DEF Plug

LEMMA PromptRefines ==
  ASSUME ControlInv, Prompt
  PROVE  Outlet!Next \/ UNCHANGED Outlet!outletVars
<1>1. /\ step \in TurningSteps /\ kind = "manual" /\ call # "none"
      /\ turn \in Outlet!Positions /\ cut \in BOOLEAN /\ (outlet = "off" => cut)
  BY DEF ControlInv, TypeOK, Outlet!TypeOK, CallInv, PowerInv, TurningSteps, Prompt,
         ManualSucceeds, ManualFails, NobodyAtPrompt
<1>2. /\ Taken \/ UNCHANGED <<outlet, target, cut>>
      /\ \/ TurnEnds("true") /\ Taken
         \/ TurnEnds("false")
         \/ TurnEnds("raised")
  BY DEF Prompt, ManualSucceeds, ManualFails, NobodyAtPrompt, world
<1>3. cut' = (cut \/ outlet' = "off")
  <2>1. CASE Taken
    BY <1>1, <2>1 DEF Taken
  <2>2. CASE UNCHANGED <<outlet, target, cut>>
    BY <1>1, <2>2
  <2> QED BY <1>2, <2>1, <2>2
<1>4. Taken => outlet' = turn /\ target' = turn
  BY DEF Taken
<1>5. CASE TurnEnds("true") /\ Taken
  BY <1>1, <1>3, <1>4, <1>5, TurnRefines
<1>6. CASE TurnEnds("false")
  BY <1>1, <1>2, <1>3, <1>4, <1>6, TurnRefines
<1>7. CASE TurnEnds("raised")
  BY <1>1, <1>2, <1>3, <1>4, <1>7, TurnRefines
<1> QED BY <1>2, <1>5, <1>6, <1>7

LEMMA MockRefines ==
  ASSUME ControlInv, Mock
  PROVE  Outlet!Next \/ UNCHANGED Outlet!outletVars
<1>1. /\ step \in TurningSteps /\ kind = "mock" /\ call # "none"
      /\ turn \in Outlet!Positions /\ cut \in BOOLEAN /\ (outlet = "off" => cut)
  BY DEF ControlInv, TypeOK, Outlet!TypeOK, CallInv, PowerInv, TurningSteps, Mock,
         MockTurns, MockFails
<1>2. CASE MockTurns
  <2>1. TurnEnds("true") /\ outlet' = turn /\ target' = turn
    BY <1>2 DEF MockTurns, Taken
  <2>2. cut' = (cut \/ outlet' = "off")
    BY <1>1, <1>2 DEF MockTurns, Taken
  <2> QED BY <1>1, <2>1, <2>2, TurnRefines
<1>3. CASE MockFails
  <2>1. TurnEnds("false") /\ UNCHANGED <<outlet, target, cut>>
    BY <1>3 DEF MockFails, world
  <2>2. cut' = (cut \/ outlet' = "off")
    BY <1>1, <2>1
  <2> QED BY <1>1, <2>1, <2>2, TurnRefines
<1> QED BY <1>2, <1>3 DEF Mock

LEMMA QueryRefines ==
  ASSUME ControlInv, Query, kind # "relay_board"
  PROVE  Outlet!Next \/ UNCHANGED Outlet!outletVars
<1>1. /\ call \in Outlet!Queries /\ call # "none" /\ cut \in BOOLEAN
      /\ outlet = "off" => cut
      /\ UNCHANGED <<outlet, target, cut>>
  BY QueryFacts DEF ControlInv, TypeOK, Outlet!TypeOK, PowerInv
<1>2. cut' = (cut \/ outlet' = "off")
  BY <1>1
<1>3. kind = "mock" => current_state = outlet
  BY DEF ControlInv, PowerInv
<1>4. Reading \subseteq {outlet, "unknown", "raised"}
  BY <1>3 DEF Reading
<1>5. ASSUME NEW r \in Outlet!Replies, Return(r), Outlet!Truthful(r)
      PROVE  Outlet!Next
  <2>1. Outlet!Respond(r)
    BY <1>1, <1>2, <1>5 DEF Outlet!Respond, Return
  <2> QED BY <2>1 DEF Outlet!Next
<1>6. CASE StateReturns
  <2>1. PICK s \in Reading : Return(s) /\ call = "state"
    BY <1>6 DEF StateReturns, QueryReturns
  <2>2. Outlet!Truthful(s)
    BY <1>4, <2>1 DEF Outlet!Truthful
  <2>3. s \in Outlet!Replies
    BY <1>4, <2>1 DEF ControlInv, TypeOK, Outlet!TypeOK
  <2> QED BY <1>5, <2>1, <2>2, <2>3
<1>7. CASE PollHits
  <2>1. PICK s \in Reading : /\ s \in {Outlet!Awaited(call), "raised"}
                             /\ Return(IF s = "raised" THEN s ELSE "true")
                             /\ call # "state"
    BY <1>7 DEF PollHits, QueryReturns
  <2>2. Outlet!Awaited(call) \in {"on", "off"}
    BY DEF Outlet!Awaited
  <2>3. CASE s = "raised"
    BY <1>1, <1>5, <2>1, <2>3 DEF Outlet!Truthful
  <2>4. CASE s # "raised"
    <3>1. outlet = Outlet!Awaited(call)
      BY <1>4, <2>1, <2>2, <2>4
    <3> QED BY <1>1, <1>5, <2>1, <2>4, <3>1 DEF Outlet!Truthful
  <2> QED BY <2>3, <2>4
<1>8. CASE PollMisses
  BY <1>1, <1>8 DEF PollMisses, Outlet!outletVars
<1>9. CASE PollTimesOut
  BY <1>1, <1>5, <1>9 DEF PollTimesOut, QueryReturns, Outlet!Truthful
<1> QED BY <1>6, <1>7, <1>8, <1>9 DEF Query

LEMMA NextRefines ==
  ASSUME ControlInv, [Next]_vars
  PROVE  [kind # "relay_board" => Outlet!Next]_(Outlet!outletVars)
<1> SUFFICES ASSUME kind # "relay_board"
             PROVE  Outlet!Next \/ UNCHANGED Outlet!outletVars
  OBVIOUS
<1>2. CASE \E c \in Outlet!Calls : Call(c)
  BY <1>2 DEF Call, Begin, Outlet!Next
<1>3. CASE Plug
  BY <1>3, PlugRefines
<1>4. CASE RelayTurns
  BY <1>4 DEF RelayTurns, ControlInv, CallInv
<1>5. CASE Prompt
  BY <1>5, PromptRefines
<1>6. CASE Mock
  BY <1>6, MockRefines
<1>7. CASE Query
  BY <1>7, QueryRefines
<1>8. CASE PlugSwitches
  BY <1>8 DEF PlugSwitches, Outlet!Next
<1>9. CASE PlugHangs \/ UNCHANGED vars
  BY <1>9 DEF PlugHangs, vars, world, Outlet!outletVars
<1> QED
  BY <1>2, <1>3, <1>4, <1>5, <1>6, <1>7, <1>8, <1>9 DEF Next, Controller

(* A controller stays what it was created as.                              *)
LEMMA KindStays == [Next]_vars => kind' = kind
<1> SUFFICES ASSUME [Next]_vars PROVE kind' = kind
  OBVIOUS
<1>1. CASE \E c \in Outlet!Calls : Call(c)
  BY <1>1 DEF Call, Begin
<1>2. CASE Plug
  BY <1>2 DEF Plug, PlugReadsPrevious, PlugPosts, PlugPostFails, PlugVerifies,
              TurnEnds
<1>3. CASE RelayTurns \/ Prompt \/ Mock
  BY <1>3 DEF RelayTurns, Prompt, ManualSucceeds, ManualFails, NobodyAtPrompt,
              Mock, MockTurns, MockFails, TurnEnds
<1>4. CASE Query
  BY <1>4 DEF Query, StateReturns, PollHits, PollMisses, PollTimesOut,
              QueryReturns
<1>5. CASE PlugSwitches \/ PlugHangs \/ UNCHANGED vars
  BY <1>5 DEF PlugSwitches, PlugHangs, vars
<1> QED BY <1>1, <1>2, <1>3, <1>4, <1>5 DEF Next, Controller

(* Every controller but the relay template keeps the promise of            *)
(* PowerOutlet: the detailed specification implements the abstract one.    *)
THEOREM Implements == Spec => Promise
<1>1. Init => Outlet!Init
  BY DEF Init
<1>2. IInv /\ [Next]_vars =>
        [kind # "relay_board" => Outlet!Next]_(Outlet!outletVars)
  BY NextRefines DEF IInv
<1> QED BY <1>1, <1>2, Invariance, PTL DEF Spec, Promise

(* What the promise is worth to a caller: no late command undoes a True    *)
(* answer, ...                                                             *)
LEMMA StaysPutStep ==
  Outlet!StaysPut /\ [Outlet!Next]_(Outlet!outletVars) => Outlet!StaysPut'
<1> SUFFICES ASSUME Outlet!StaysPut, [Outlet!Next]_(Outlet!outletVars)
             PROVE  Outlet!StaysPut'
  OBVIOUS
<1>1. CASE \E c \in Outlet!Calls : Outlet!Invoke(c)
  BY <1>1 DEF Outlet!Invoke, Outlet!StaysPut
<1>2. CASE \E t \in Outlet!Positions : Outlet!Obey(t)
  BY <1>2 DEF Outlet!Obey, Outlet!Commands, Outlet!StaysPut
<1>3. CASE Outlet!Switch
  BY <1>3 DEF Outlet!Switch, Outlet!StaysPut
<1>4. CASE \E r \in Outlet!Replies : Outlet!Respond(r)
  BY <1>4 DEF Outlet!Respond, Outlet!Truthful, Outlet!Final, Outlet!StaysPut
<1>5. CASE UNCHANGED Outlet!outletVars
  BY <1>5 DEF Outlet!outletVars, Outlet!StaysPut
<1> QED
  BY <1>1, <1>2, <1>3, <1>4, <1>5 DEF Outlet!Next

(* ... whatever controller is behind the contract: once a switching call   *)
(* has answered True the outlet stays where it was put until a later call  *)
(* moves it.  (PowerControllerBase)                                        *)
THEOREM ContractStaysPut == Outlet!Spec => []Outlet!StaysPut
<1>1. Outlet!Init => Outlet!StaysPut
  BY DEF Outlet!Init, Outlet!StaysPut
<1> QED
  BY <1>1, StaysPutStep, PTL DEF Outlet!Spec

(* So it is with every controller here but the relay template.  (turn_on,  *)
(* turn_off, power_cycle)                                                  *)
THEOREM StaysPutAlways == Spec => []StaysPut
<1>1. Init => StaysPut
  BY DEF Init, Outlet!Init, StaysPut, Outlet!StaysPut
<1>2. IInv /\ StaysPut /\ [Next]_vars => StaysPut'
  BY KindStays, NextRefines, StaysPutStep DEF IInv, StaysPut
<1> QED BY <1>1, <1>2, Invariance, PTL DEF Spec
=============================================================================

---------------------------- MODULE BootValidator ----------------------------
(***************************************************************************)
(* BootValidator of framework/boot_validator.py on its console, as the two *)
(* boot tests of tests/test_system_validation.py use it: one validation of *)
(* the boot that is under way, or cycles of power cycle and validation.    *)
(* Every test has a validator and a connection of its own (the fixture     *)
(* boot_validator); the cycles of a test share them.                       *)
(*                                                                         *)
(* Of a line of the console the code knows which patterns match it and     *)
(* which messages of the acceptance criteria it holds, and so does this.   *)
(***************************************************************************)
EXTENDS Naturals, Sequences, FiniteSets

CONSTANTS
  Texts,     \* what the console may write at a time
  Criteria,  \* the acceptance criteria a session may be configured with
  Timeout,   \* the validator's timeout in ticks
  MaxWire,   \* bound: what may wait in the socket
  MaxCycles, \* the cycles of the reliability test
  MaxTests   \* bound: how many tests the session runs

Stages == {"fsbl", "u_boot", "kernel", "userspace", "login_ready"}

ASSUME BootValidatorAssumption ==
  /\ \A t \in Texts : /\ t.stages \subseteq Stages
                      /\ t.error \in BOOLEAN
                      /\ t.warning \in BOOLEAN
                      /\ t.ended \in BOOLEAN
  /\ Timeout \in Nat
  /\ MaxWire \in Nat
  /\ MaxCycles \in Nat \ {0}
  /\ MaxTests \in Nat

VARIABLES
  is_open, wire, line, peer,  \* the connection, as in TcpSerial
  boot,          \* which boot of the board this is
  test,          \* the test that runs, "none" between tests
  phase,         \* where it is
  tests,         \* how many tests have run
  cycle,         \* reliability test: the cycles behind it, ...
  successes,     \* ... and those it counted as successful boots
  verdict,       \* of the last test that ended
  criteria,      \* the acceptance criteria
  current_stage, \* the validator's attribute
  clock,         \* ticks since the validation began
  metrics,       \* what the validation has gathered
  result,        \* what it ended with
  login,         \* history: what became of this boot's lines of login_ready
  loginBefore    \* history: this validator had read a login line before

consoleVars == <<is_open, wire, line, peer>>
testVars == <<test, tests, cycle, successes, verdict, criteria>>
vars == <<consoleVars, boot, testVars, phase, current_stage, clock, metrics,
          result, login, loginBefore>>

(* What the console writes belongs to a boot of the board.                 *)
Written == [text : Texts, boot : 0..(MaxTests * MaxCycles), ended : BOOLEAN]
Serial == INSTANCE TcpSerial WITH Pieces <- Written

Messages == UNION {t.says : t \in Texts}
Late == Timeout + 1
NoMetrics == [found |-> {}, errors |-> 0, elapsed |-> 0, lines |-> 0,
              boots |-> {}]

TypeOK ==
  /\ Serial!SerialTypeOK
  /\ boot \in 0..(MaxTests * MaxCycles)
  /\ test \in {"none", "validation", "reliability"}
  /\ phase \in {"none", "ready", "resetting", "looping", "reading", "done"}
  /\ tests \in 0..MaxTests
  /\ cycle \in 0..MaxCycles
  /\ successes \in 0..cycle
  /\ verdict \in {"none", "passed", "failed"}
  /\ criteria \in Criteria
  /\ current_stage \in Stages \cup {"pre_boot"}
  /\ clock \in 0..Late
  /\ metrics \in [found : SUBSET Messages, errors : Nat, elapsed : 0..Timeout,
                  lines : 0..2, boots : SUBSET (0..(MaxTests * MaxCycles))]
  /\ result \in {"none", "passed", "timeout", "raised", "rejected"}
  /\ login \in {"unseen", "dropped", "masked", "read"}
  /\ loginBefore \in BOOLEAN

Init ==
  /\ Serial!SerialInit
  /\ boot = 0
  /\ test = "none"
  /\ phase = "none"
  /\ tests = 0
  /\ cycle = 0
  /\ successes = 0
  /\ verdict = "none"
  /\ criteria \in Criteria
  /\ current_stage = "pre_boot"
  /\ clock = 0
  /\ metrics = NoMetrics
  /\ result = "none"
  /\ login = "unseen"
  /\ loginBefore = FALSE

-----------------------------------------------------------------------------
(* The board.                                                              *)

Console ==
  /\ \E t \in Texts :
       Serial!Arrives([text |-> t, boot |-> boot, ended |-> t.ended])
  /\ UNCHANGED <<boot, testVars, phase, current_stage, clock, metrics, result,
                 login, loginBefore>>

Hangup ==
  /\ Serial!PeerEnds
  /\ UNCHANGED <<boot, testVars, phase, current_stage, clock, metrics, result,
                 login, loginBefore>>

-----------------------------------------------------------------------------
(* The tests.                                                              *)

(* Mutant: one validator serves the whole session.                         *)
SharedValidator == UNCHANGED current_stage

NewValidator == current_stage' = "pre_boot"

(* The fixture boot_validator: a new validator and its connection.         *)
Enter(t) ==
  /\ phase = "none"
  /\ tests < MaxTests
  /\ tests' = tests + 1
  /\ \/ /\ Serial!Open
        /\ test' = t
        /\ phase' = "ready"
        /\ UNCHANGED verdict
     \/ /\ Serial!OpenFails
        /\ verdict' = "failed"
        /\ UNCHANGED <<test, phase>>
  /\ NewValidator
  /\ cycle' = 0
  /\ successes' = 0
  /\ metrics' = NoMetrics
  /\ result' = "none"
  /\ login' = "unseen"
  /\ loginBefore' = FALSE
  /\ UNCHANGED <<boot, criteria, clock>>

(* Mutant: the lines that wait are judged with those of the boot.          *)
StartWithoutReset ==
  /\ phase' = "looping"
  /\ clock' = 0
  /\ metrics' = NoMetrics
  /\ result' = "none"
  /\ login' = "unseen"

StartValidation ==
  /\ phase' = "resetting"
  /\ clock' = 0
  /\ metrics' = NoMetrics
  /\ result' = "none"
  /\ login' = "unseen"

(* test_boot_sequence_validation: the board is booting, or has booted.     *)
Validate ==
  /\ phase = "ready"
  /\ test = "validation"
  /\ StartValidation
  /\ UNCHANGED <<consoleVars, boot, testVars, current_stage, loginBefore>>

(* test_boot_reliability_cycles: the next cycle.                           *)
CycleAndValidate ==
  /\ phase = "ready"
  /\ test = "reliability"
  /\ cycle < MaxCycles
  /\ boot' = boot + 1
  /\ StartValidation
  /\ UNCHANGED <<consoleVars, testVars, current_stage, loginBefore>>

(* Mutant: a power cycle that failed is tried again.                       *)
CycleRetried ==
  /\ phase = "ready"
  /\ test = "reliability"
  /\ cycle < MaxCycles
  /\ boot' = boot + 1
  /\ result' = "none"
  /\ UNCHANGED <<consoleVars, phase, test, tests, cycle, successes, verdict,
                 criteria, current_stage, clock, metrics, login, loginBefore>>

(* A power cycle that failed may have taken the board down all the same.   *)
CycleFails ==
  /\ phase = "ready"
  /\ test = "reliability"
  /\ cycle < MaxCycles
  /\ boot' \in {boot, boot + 1}
  /\ cycle' = cycle + 1
  /\ result' = "none"
  /\ UNCHANGED <<consoleVars, phase, test, tests, successes, verdict, criteria,
                 current_stage, clock, metrics, login, loginBefore>>

(* min_reliability_rate is 0.9.                                            *)
Verdict ==
  IF test = "validation" THEN result = "passed"
  ELSE 10 * successes >= 9 * MaxCycles

Leave ==
  /\ \/ phase = "done"
     \/ phase = "ready" /\ test = "reliability" /\ cycle = MaxCycles
  /\ verdict' = IF Verdict THEN "passed" ELSE "failed"
  /\ Serial!Close
  /\ phase' = "none"
  /\ test' = "none"
  /\ UNCHANGED <<boot, tests, cycle, successes, criteria, current_stage, clock,
                 metrics, result, login, loginBefore>>

-----------------------------------------------------------------------------
(* validate_boot_sequence.                                                 *)

Validating == phase \in {"resetting", "looping", "reading"}

(* The validation returns or raises; the reliability test counts it.       *)
Ends(r) ==
  /\ result' = r
  /\ loginBefore' = (loginBefore \/ login' = "read")
  /\ IF test = "reliability"
     THEN /\ phase' = "ready"
          /\ cycle' = cycle + 1
          /\ successes' = successes + IF r = "passed" THEN 1 ELSE 0
     ELSE phase' = "done" /\ UNCHANGED <<cycle, successes>>
  /\ UNCHANGED <<test, tests, verdict, criteria>>

Goes(p) ==
  /\ phase' = p
  /\ UNCHANGED <<testVars, result, loginBefore>>

OwnLogin(ws) ==
  \E w \in ws : w.boot = boot /\ "login_ready" \in w.text.stages

Reset ==
  /\ phase = "resetting"
  /\ \/ /\ Serial!Drain
        /\ login' = IF OwnLogin({wire[i] : i \in DOMAIN wire}) THEN "dropped"
                    ELSE login
        /\ Goes("resetting")
     \/ Serial!Drained /\ Goes("looping") /\ UNCHANGED login
  /\ UNCHANGED <<boot, current_stage, clock, metrics>>

(* The head of the loop.                                                   *)
CheckDeadline ==
  /\ phase = "looping"
  /\ IF clock > Timeout
     THEN UNCHANGED <<consoleVars, metrics, login>> /\ Ends("timeout")
     ELSE /\ metrics' = [metrics EXCEPT !.elapsed = clock]
          /\ Serial!StartLine
          /\ Goes("reading")
          /\ UNCHANGED login
  /\ UNCHANGED <<boot, current_stage, clock>>

(* _analyze_message_type, _detect_boot_stage: in the order of the tables,  *)
(* whatever the order on the line.                                         *)
MessageType(ws) ==
  IF \E w \in ws : w.text.error THEN "error"
  ELSE IF \E w \in ws : w.text.warning THEN "warning" ELSE "info"

Rank == [fsbl |-> 1, u_boot |-> 2, kernel |-> 3, userspace |-> 4,
         login_ready |-> 5]

DetectStage(ws) ==
  LET found == UNION {w.text.stages : w \in ws}
  IN  IF found = {} THEN "none"
      ELSE CHOOSE s \in found : \A t \in found : Rank[s] <= Rank[t]

(* add_message; required and forbidden messages are looked for in those of *)
(* type info.                                                              *)
AddMessage(m, ws) ==
  [m EXCEPT
     !.found = @ \cup IF MessageType(ws) = "info"
                      THEN UNION {w.text.says : w \in ws} ELSE {},
     !.errors = IF MessageType(ws) = "error" /\ @ <= criteria.max_errors
                THEN @ + 1 ELSE @,
     !.lines = IF @ < 2 THEN @ + 1 ELSE @,
     !.boots = @ \cup {w.boot : w \in ws}]

(* _transition_to_stage; the durations it takes are reported only.         *)
TransitionToStage(s) ==
  current_stage' = IF s = "none" THEN current_stage ELSE s

(* _validate_acceptance_criteria.                                          *)
Acceptable(m) ==
  /\ m.elapsed <= criteria.max_boot_time
  /\ criteria.required \subseteq m.found
  /\ criteria.forbidden \cap m.found = {}
  /\ m.errors <= criteria.max_errors

Fate(ws, s) ==
  IF ~OwnLogin(ws) THEN login
  ELSE IF s = "login_ready" THEN "read" ELSE "masked"

(* Mutant: a boot is complete when the stage changes to login_ready.       *)
JudgeTransition(ws) ==
  LET s == DetectStage(ws)
      m == AddMessage(metrics, ws)
  IN  /\ metrics' = m
      /\ TransitionToStage(s)
      /\ login' = Fate(ws, s)
      /\ IF s = "login_ready" /\ current_stage # s
         THEN Ends(IF Acceptable(m) THEN "passed" ELSE "rejected")
         ELSE Goes("looping")

(* A line, not empty, was read.                                            *)
Judge(ws) ==
  LET s == DetectStage(ws)
      m == AddMessage(metrics, ws)
  IN  /\ metrics' = m
      /\ TransitionToStage(s)
      /\ login' = Fate(ws, s)
      /\ IF current_stage' = "login_ready"
         THEN Ends(IF Acceptable(m) THEN "passed" ELSE "rejected")
         ELSE Goes("looping")

ReadPiece ==
  /\ phase = "reading"
  /\ Serial!Take
  /\ IF Serial!LineEnded THEN Judge(line')
     ELSE Goes("reading") /\ UNCHANGED <<current_stage, metrics, login>>
  /\ UNCHANGED <<boot, clock>>

(* Mutant: readline waits for the end of the line.                         *)
ReadWaits == FALSE

(* A second without a character, or the end of the stream.                 *)
ReadTimesOut ==
  /\ phase = "reading"
  /\ Serial!LineBreaksOff
  /\ IF line # {} THEN Judge(line)
     ELSE Goes("looping") /\ UNCHANGED <<current_stage, metrics, login>>
  /\ UNCHANGED <<boot, clock>>

ReadFails ==
  /\ phase = "reading"
  /\ Serial!ReadRaises
  /\ UNCHANGED <<boot, current_stage, clock, metrics, login>>
  /\ Ends("raised")

Tick ==
  /\ Validating
  /\ clock < Late
  /\ clock' = clock + 1
  /\ UNCHANGED <<consoleVars, boot, testVars, phase, current_stage, metrics,
                 result, login, loginBefore>>

Validator == Reset \/ CheckDeadline \/ ReadPiece \/ ReadTimesOut \/ ReadFails

Next ==
  \/ Console
  \/ Hangup
  \/ \E t \in {"validation", "reliability"} : Enter(t)
  \/ Validate
  \/ CycleAndValidate
  \/ CycleFails
  \/ Leave
  \/ Validator
  \/ Tick

Spec == Init /\ [][Next]_vars

(* The validator runs and time passes.                                     *)
FairSpec == Spec /\ WF_vars(Validator) /\ WF_vars(Tick)

-----------------------------------------------------------------------------
(* "Monitor boot process until completion or timeout" (line 237): after a  *)
(* cycle that was counted, the validation of a later one is not over, with *)
(* either answer, before a line of login_ready of its own boot was read.   *)
(* (validate_boot_sequence, test_boot_reliability_cycles)                  *)
CompletionAwaited ==
  successes > 0 /\ result \in {"passed", "rejected"} => login = "read"

(* A validation that passes has read a line of login_ready of the boot it  *)
(* validates. If it did not, the stage an earlier validation of the same   *)
(* validator left behind ended it, at the first line it read: one without  *)
(* a stage, under criteria that require no message such a line lacks.      *)
(* (current_stage of BootValidator, line 136)                              *)
StalePassExplained ==
  result = "passed" /\ login # "read" => loginBefore /\ metrics.lines = 1

(* Whatever waits in the socket when a validation begins, the lines it     *)
(* judges were written by the boot it validates.  (reset_input_buffer)     *)
JudgesOwnBoot ==
  Validating \/ result # "none" => metrics.boots \subseteq {boot}

(* A boot whose login line was read in time, and not behind the words of   *)
(* another stage, is not reported as timed out.  (validate_boot_sequence)  *)
LoginNotMissed == result = "timeout" => login # "read"

(* Once the console pauses, a validation ends, whatever the line lost or   *)
(* joined; before that the reset of the input buffer and a line without an *)
(* end know no deadline.  (reset_input_buffer, readline, line 243)         *)
ValidationEnds == <>[][~Console]_vars => (Validating ~> ~Validating)

-----------------------------------------------------------------------------
(* The inductive invariant: what makes the properties above hold.          *)

(* The boots of the session: each cycle of each test is one at most.       *)
BootInv ==
  /\ phase = "none" => boot <= tests * MaxCycles
  /\ phase # "none" =>
       /\ tests > 0
       /\ boot <= (tests - 1) * MaxCycles + cycle
                    + (IF Validating /\ test = "reliability" THEN 1 ELSE 0)
  /\ Validating /\ test = "reliability" => cycle < MaxCycles

(* After the reset everything there is to read is of the boot that is      *)
(* validated, and until its login line is read there is no result.         *)
OwnInv ==
  /\ phase \in {"looping", "reading"} =>
       \A i \in DOMAIN wire : wire[i].boot = boot
  /\ phase = "reading" => \A w \in line : w.boot = boot
  /\ Validating => result = "none" /\ login # "read"

(* The stage of an earlier boot that is left behind is that of a login     *)
(* line, and the next line ends the validation.                            *)
StageInv ==
  current_stage = "login_ready" =>
    loginBefore /\ (Validating => metrics.lines = 0)

IInv ==
  /\ TypeOK
  /\ BootInv
  /\ OwnInv
  /\ StageInv
  /\ JudgesOwnBoot
  /\ StalePassExplained
  /\ LoginNotMissed
=============================================================================

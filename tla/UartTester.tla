------------------------------ MODULE UartTester ------------------------------
(***************************************************************************)
(* UartTester of framework/uart_test.py: test_console_interaction and      *)
(* test_data_integrity send one command after the other to the shell of    *)
(* the board and judge what they read until a prompt appears or the time   *)
(* is up.  Nothing in the text says which command it answers: an answer    *)
(* that comes late is read as the next command's.                          *)
(***************************************************************************)
EXTENDS Naturals, Sequences, FiniteSets

CONSTANTS
  Last,           \* the commands of a test are 1..Last, 0 asks for a prompt
  Matches,        \* the commands whose patterns the answer of one matches
  PromptMatches,  \* the commands whose patterns the prompt matches
  PrintkMatches,  \* the commands whose patterns a message of the kernel does
  MaxWire         \* bound: what may wait in the socket

Numbers == 0..Last
Commands == 1..Last

ASSUME UartTesterAssumption ==
  /\ Last \in Nat \ {0}
  /\ Matches \in [Commands -> SUBSET Commands]
  /\ PromptMatches \subseteq Commands
  /\ PrintkMatches \subseteq Commands
  /\ MaxWire \in Nat

VARIABLES
  is_open, wire, line, peer,  \* the connection, as in TcpSerial
  requests,  \* what the shell has received and not completed, in order
  answered,  \* the answer to the first of them is written, not its prompt
  test,      \* the test that runs
  phase,     \* where it is
  command,   \* the command it is at
  expired,   \* the time of the command is up
  response,  \* what was read for it, in order, nothing twice
  outcome,   \* what was counted of each command
  passed,    \* test_successful, once the test has ended
  gaveUp,    \* history: commands that ended before their prompt
  owed,      \* history: commands whose reset ended with the shell still busy
  heard      \* history: per command, whose answers were read for it

consoleVars == <<is_open, wire, line, peer>>
boardVars == <<requests, answered>>
history == <<gaveUp, owed, heard>>
vars == <<consoleVars, boardVars, test, phase, command, expired, response,
          outcome, passed, history>>

(* What the console writes: the answer of a command, which ends its line,  *)
(* a prompt, which does not, or a message of the kernel.                   *)
Pieces == [kind : {"answer"}, of : Commands, ended : {TRUE}]
          \cup [kind : {"prompt"}, of : {0}, ended : {FALSE}]
          \cup [kind : {"printk"}, of : {0}, ended : {TRUE}]
Serial == INSTANCE TcpSerial WITH Pieces <- Pieces

Running == phase \in {"resetting", "sending", "looping", "reading"}

TypeOK ==
  /\ Serial!SerialTypeOK
  /\ requests \in Seq(Numbers)
  /\ answered \in BOOLEAN
  /\ test \in {"console", "integrity"}
  /\ phase \in {"none", "resetting", "sending", "looping", "reading", "ended"}
  /\ command \in Numbers
  /\ expired \in BOOLEAN
  /\ response \in Seq(Pieces)
  /\ outcome \in [Commands -> {"none", "success", "failure", "mismatch"}]
  /\ passed \in BOOLEAN
  /\ gaveUp \subseteq Numbers
  /\ owed \subseteq Numbers
  /\ heard \in [Numbers -> SUBSET Commands]

Init ==
  /\ Serial!SerialInit
  /\ requests = <<>>
  /\ answered = FALSE
  /\ test \in {"console", "integrity"}
  /\ phase = "none"
  /\ command = 0
  /\ expired = FALSE
  /\ response = <<>>
  /\ outcome = [c \in Commands |-> "none"]
  /\ passed = FALSE
  /\ gaveUp = {}
  /\ owed = {}
  /\ heard = [c \in Numbers |-> {}]

-----------------------------------------------------------------------------
(* The board.                                                              *)

Writes(p) ==
  /\ Serial!Arrives(p)
  /\ UNCHANGED <<test, phase, command, expired, response, outcome, passed,
                 history>>

Answer ==
  /\ requests # <<>>
  /\ ~answered
  /\ Head(requests) # 0
  /\ Writes([kind |-> "answer", of |-> Head(requests), ended |-> TRUE])
  /\ answered' = TRUE
  /\ UNCHANGED requests

Prompt ==
  /\ requests # <<>>
  /\ answered \/ Head(requests) = 0
  /\ Writes([kind |-> "prompt", of |-> 0, ended |-> FALSE])
  /\ answered' = FALSE
  /\ requests' = Tail(requests)

Printk ==
  /\ Writes([kind |-> "printk", of |-> 0, ended |-> TRUE])
  /\ UNCHANGED boardVars

Hangup ==
  /\ Serial!PeerEnds
  /\ UNCHANGED <<boardVars, test, phase, command, expired, response, outcome,
                 passed, history>>

-----------------------------------------------------------------------------
(* The tests.                                                              *)

(* Mutant: what waits in the socket is not read away before a command.     *)
WithoutReset == "sending"

FirstPhase == "resetting"

(* test_console_interaction begins with an empty command.                  *)
Enter ==
  /\ phase = "none"
  /\ Serial!Open
  /\ phase' = FirstPhase
  /\ command' = IF test = "console" THEN 0 ELSE 1
  /\ UNCHANGED <<boardVars, test, expired, response, outcome, passed, history>>

(* _send_command is through: test_console_interaction goes by the pattern, *)
(* anywhere in the response, test_data_integrity by the first checksum.    *)
FirstAnswer(rs) ==
  LET answers == {i \in DOMAIN rs : rs[i].kind = "answer"}
  IN  IF answers = {} THEN 0
      ELSE rs[CHOOSE i \in answers : \A j \in answers : i <= j].of

PatternFound(rs) ==
  \E i \in DOMAIN rs :
    \/ rs[i].kind = "answer" /\ command \in Matches[rs[i].of]
    \/ rs[i].kind = "prompt" /\ command \in PromptMatches
    \/ rs[i].kind = "printk" /\ command \in PrintkMatches

(* Mutant: a response is as good as its pattern.                           *)
CountedAnyResponse(rs, raised) ==
  IF test = "console"
  THEN IF ~raised /\ rs # <<>> THEN "success" ELSE "failure"
  ELSE IF raised \/ FirstAnswer(rs) = 0 THEN "failure"
  ELSE IF FirstAnswer(rs) = command THEN "success" ELSE "mismatch"

(* Mutant: no checksum is counted as a wrong one.                          *)
CountedMissing(rs, raised) ==
  IF raised THEN "failure"
  ELSE IF test = "console"
  THEN IF PatternFound(rs) THEN "success" ELSE "failure"
  ELSE IF FirstAnswer(rs) = command THEN "success" ELSE "mismatch"

Counted(rs, raised) ==
  IF raised THEN "failure"
  ELSE IF test = "console"
  THEN IF PatternFound(rs) THEN "success" ELSE "failure"
  ELSE IF FirstAnswer(rs) = 0 THEN "failure"
  ELSE IF FirstAnswer(rs) = command THEN "success" ELSE "mismatch"

(* 80 % of the commands, 99 % of the chunks.                               *)
Enough(os) ==
  LET successes == Cardinality({c \in Commands : os[c] = "success"})
  IN  100 * successes >= (IF test = "console" THEN 80 ELSE 99) * Last

(* Mutant: the next command is begun after the last.                       *)
AnotherAlways == TRUE

Another == command < Last

(* The commands whose answers a sequence of pieces holds.                  *)
AnswersIn(s) == {s[i].of : i \in {j \in DOMAIN s : s[j].kind = "answer"}}

CommandEnds(rs, raised) ==
  /\ outcome' = IF command = 0 THEN outcome
                ELSE [outcome EXCEPT ![command] = Counted(rs, raised)]
  /\ heard' = [heard EXCEPT ![command] = AnswersIn(rs)]
  /\ expired' = FALSE
  /\ response' = <<>>
  /\ IF Another
     THEN /\ command' = command + 1
          /\ phase' = FirstPhase
          /\ UNCHANGED passed
     ELSE /\ phase' = "ended"
          /\ passed' = Enough(outcome')
          /\ UNCHANGED command
  /\ UNCHANGED <<boardVars, test, owed>>

-----------------------------------------------------------------------------
(* _send_command.                                                          *)

Stays ==
  UNCHANGED <<boardVars, test, command, expired, outcome, passed, gaveUp, heard>>

Reset ==
  /\ phase = "resetting"
  /\ \/ Serial!Drain /\ UNCHANGED <<phase, owed>>
     \/ /\ Serial!Drained
        /\ phase' = "sending"
        /\ owed' = IF requests = <<>> THEN owed ELSE owed \cup {command}
  /\ Stays
  /\ UNCHANGED response

Send ==
  /\ phase = "sending"
  /\ phase' = "looping"
  /\ requests' = IF Serial!Reaches THEN Append(requests, command) ELSE requests
  /\ UNCHANGED <<consoleVars, answered, test, command, expired, response,
                 outcome, passed, history>>

SendFails ==
  /\ phase = "sending"
  /\ Serial!WriteMayRaise
  /\ CommandEnds(<<>>, TRUE)
  /\ gaveUp' = gaveUp \cup {command}
  /\ UNCHANGED consoleVars

Expires ==
  /\ Running
  /\ ~expired
  /\ expired' = TRUE
  /\ UNCHANGED <<consoleVars, boardVars, test, phase, command, response,
                 outcome, passed, history>>

(* Mutant: the loop ends at a prompt only.                                 *)
LoopWaits == FALSE

TimeIsUp ==
  /\ phase = "looping"
  /\ expired
  /\ CommandEnds(response, FALSE)
  /\ gaveUp' = gaveUp \cup {command}
  /\ UNCHANGED consoleVars

(* What is read a second time adds nothing that a verdict depends on.      *)
Adds(p) ==
  IF \E i \in DOMAIN response : response[i] = p THEN response
  ELSE Append(response, p)

(* The loop sleeps as long as it sees nothing.                             *)
LoopSleeps ==
  /\ phase = "looping"
  /\ ~expired
  /\ Serial!SeesNothing
  /\ Stays
  /\ UNCHANGED <<phase, response, owed>>

StartLine ==
  /\ phase = "looping"
  /\ ~expired
  /\ Serial!InWaiting
  /\ Serial!StartLine
  /\ phase' = "reading"
  /\ Stays
  /\ UNCHANGED <<response, owed>>

(* Mutant: any line is taken for a prompt.                                 *)
AnyLineIsPrompt ==
  /\ phase = "reading"
  /\ Serial!Take
  /\ CommandEnds(Adds(Head(wire)), FALSE)
  /\ UNCHANGED gaveUp

(* A line that ends is searched for a prompt like any other, ...           *)
ReadPiece ==
  /\ phase = "reading"
  /\ Serial!Take
  /\ response' = Adds(Head(wire))
  /\ phase' = IF Serial!LineEnded THEN "looping" ELSE "reading"
  /\ Stays
  /\ UNCHANGED owed

(* ... and one that closes in #, $ or > passes for one: an answer or a     *)
(* message of the kernel then ends the command before its prompt.          *)
ReadPromptLike ==
  /\ phase = "reading"
  /\ Serial!Take
  /\ Serial!LineEnded
  /\ CommandEnds(Adds(Head(wire)), FALSE)
  /\ gaveUp' = gaveUp \cup {command}

(* The line breaks off after a prompt, or before anything was read of it.  *)
ReadBreaksOff ==
  /\ phase = "reading"
  /\ Serial!LineBreaksOff
  /\ IF line = {}
     THEN /\ phase' = "looping"
          /\ Stays
          /\ UNCHANGED <<response, owed>>
     ELSE CommandEnds(response, FALSE) /\ UNCHANGED gaveUp

ReadFails ==
  /\ phase = "reading"
  /\ Serial!ReadRaises
  /\ CommandEnds(response, TRUE)
  /\ gaveUp' = gaveUp \cup {command}

Tester ==
  \/ Reset \/ Send \/ SendFails \/ TimeIsUp \/ LoopSleeps
  \/ StartLine \/ ReadPiece \/ ReadPromptLike \/ ReadBreaksOff \/ ReadFails

Board == Answer \/ Prompt \/ Printk \/ Hangup

Next == Enter \/ Board \/ Tester \/ Expires

Spec == Init /\ [][Next]_vars

(* The tester runs, and time passes.                                       *)
FairSpec == Spec /\ WF_vars(Tester) /\ WF_vars(Expires)

-----------------------------------------------------------------------------
(* A command whose reset ended when the shell had completed all it was     *)
(* sent reads its own answer only: nothing read is left over.              *)
(* (reset_input_buffer in _send_command)                                   *)
CleanStart == \A c \in Numbers \ owed : heard[c] \subseteq {c}

(* If a command reads the answer of another one, that is an earlier one,   *)
(* and it or one before it had ended without a prompt.  (_send_command)    *)
ForeignAnswerExplained ==
  \A c \in Numbers : \A d \in heard[c] \ {c} :
    d < c /\ \E e \in gaveUp : e <= d

(* A command of test_console_interaction that counts as successful has     *)
(* read its own answer, unless an earlier one had ended without a prompt   *)
(* or its pattern matches any prompt, as that of whoami does, or messages  *)
(* of the kernel, as that of date does.                                    *)
SuccessExplained ==
  \A c \in Commands : outcome[c] = "success" =>
    \/ c \in heard[c]
    \/ c \in PromptMatches \cup PrintkMatches
    \/ \E e \in gaveUp : e < c

(* On a line that garbles nothing test_data_integrity reports a wrong      *)
(* checksum only after a command that ended without a prompt: what it      *)
(* takes for corrupted data is a late answer.                              *)
MismatchExplained ==
  \A c \in Commands : outcome[c] = "mismatch" => \E e \in gaveUp : e < c

(* Once the kernel is quiet a test ends, whatever the shell leaves         *)
(* unanswered.  (reset_input_buffer, the deadline of _send_command)        *)
TestEnds == <>[][~Printk]_vars => (Running ~> ~Running)

-----------------------------------------------------------------------------
(* The inductive invariant: what makes the properties above hold.          *)

Elements(s) == {s[i] : i \in DOMAIN s}
Ascending(s) == \A i, j \in DOMAIN s : i < j => s[i] < s[j]

Pending == Elements(requests) \cup AnswersIn(wire) \cup AnswersIn(response)
PromptIn(s) == \E i \in DOMAIN s : s[i].kind = "prompt"

NotSent == {"none", "resetting", "sending"}

(* The shell works off the commands in the order they were sent, and       *)
(* nothing answers a command before it is sent.                            *)
OrderInv ==
  /\ Ascending(requests)
  /\ \A d \in Pending : d <= command
  /\ phase \in NotSent => /\ response = <<>>
                          /\ \A d \in Pending : d < command
  /\ phase = "none" => /\ ~is_open /\ wire = <<>> /\ requests = <<>>
                       /\ owed = {}

(* After a reset that found the shell idle there is nothing of an earlier  *)
(* command left to read.                                                   *)
ResetInv ==
  /\ \A c \in owed : c <= command
  /\ phase = "resetting" => command \notin owed
  /\ phase \in {"sending", "looping", "reading"} /\ command \notin owed
       => Pending \subseteq {command}

(* What an earlier command has left behind goes back to one that gave up.  *)
LeftInv == \A d \in Pending : d < command => \E e \in gaveUp : e <= d

(* Until one has given up, the prompt of a command shows that the shell is *)
(* through with all of them.                                               *)
PromptInv ==
  (\A e \in gaveUp : ~(e < command)) =>
    /\ PromptIn(wire) => requests = <<>>
    /\ phase = "reading" /\ line # {} => requests = <<>>
    /\ phase \in NotSent => requests = <<>> /\ ~PromptIn(wire)

IInv ==
  /\ TypeOK
  /\ OrderInv
  /\ ResetInv
  /\ LeftInv
  /\ PromptInv
  /\ CleanStart
  /\ ForeignAnswerExplained
  /\ SuccessExplained
  /\ MismatchExplained
=============================================================================

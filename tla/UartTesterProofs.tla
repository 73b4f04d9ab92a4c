--------------------------- MODULE UartTesterProofs ---------------------------
(***************************************************************************)
(* Proofs about UartTester, for any number of commands, whatever patterns  *)
(* match, and any capacity of the socket: its inductive invariant IInv,    *)
(* and what a command may read of the others.                              *)
(***************************************************************************)
EXTENDS UartTester, SequenceTheorems, FiniteSetTheorems, WellFoundedInduction,
        TLAPS

USE UartTesterAssumption
USE DEF Numbers, Commands

-----------------------------------------------------------------------------
(* Sequences of pieces.                                                    *)

LEMMA PieceFacts ==
  ASSUME NEW p \in Pieces
  PROVE  /\ p.kind \in {"answer", "prompt", "printk"}
         /\ p.kind = "answer" => p.of \in Commands
         /\ ~p.ended => p.kind = "prompt"
         /\ p.ended \in BOOLEAN
BY DEF Pieces

(* The empty sequence holds no answer and no prompt.                       *)
LEMMA NoPieces == AnswersIn(<<>>) = {} /\ ~PromptIn(<<>>) /\ <<>> \in Seq(Pieces)
BY DEF AnswersIn, PromptIn

(* What a piece adds at the end.                                           *)
LEMMA AppendPieces ==
  ASSUME NEW s \in Seq(Pieces), NEW p \in Pieces
  PROVE  /\ Append(s, p) \in Seq(Pieces)
         /\ AnswersIn(Append(s, p)) =
              AnswersIn(s) \cup (IF p.kind = "answer" THEN {p.of} ELSE {})
         /\ PromptIn(Append(s, p)) <=> PromptIn(s) \/ p.kind = "prompt"
<1> DEFINE t == Append(s, p)
<1>1. /\ t \in Seq(Pieces)
      /\ DOMAIN t = DOMAIN s \cup {Len(s) + 1}
      /\ \A i \in DOMAIN s : t[i] = s[i]
      /\ t[Len(s) + 1] = p
  BY AppendProperties
<1> HIDE DEF t
<1>2. AnswersIn(t) =
        AnswersIn(s) \cup (IF p.kind = "answer" THEN {p.of} ELSE {})
  BY <1>1, Zenon DEF AnswersIn
<1>3. PromptIn(t) <=> PromptIn(s) \/ p.kind = "prompt"
  BY <1>1, Zenon DEF PromptIn
<1> QED
  BY <1>1, <1>2, <1>3 DEF t

(* What is taken from the front.                                           *)
LEMMA TailPieces ==
  ASSUME NEW s \in Seq(Pieces), s # <<>>
  PROVE  /\ Head(s) \in Pieces
         /\ Tail(s) \in Seq(Pieces)
         /\ AnswersIn(Tail(s)) \subseteq AnswersIn(s)
         /\ PromptIn(Tail(s)) => PromptIn(s)
         /\ Head(s).kind = "answer" => Head(s).of \in AnswersIn(s)
         /\ Head(s).kind = "prompt" => PromptIn(s)
<1>1. /\ Head(s) \in Pieces /\ Tail(s) \in Seq(Pieces)
      /\ Len(s) \in Nat \ {0} /\ DOMAIN s = 1..Len(s)
      /\ Head(s) = s[1]
      /\ \A i \in DOMAIN Tail(s) : i + 1 \in DOMAIN s /\ Tail(s)[i] = s[i + 1]
  BY HeadTailProperties, LenProperties
<1>2. 1 \in DOMAIN s
  BY <1>1
<1>3. AnswersIn(Tail(s)) \subseteq AnswersIn(s)
  <2> SUFFICES ASSUME NEW i \in DOMAIN Tail(s), Tail(s)[i].kind = "answer"
               PROVE  Tail(s)[i].of \in AnswersIn(s)
    BY Zenon DEF AnswersIn
  <2> QED
    BY <1>1, Zenon DEF AnswersIn
<1>4. PromptIn(Tail(s)) => PromptIn(s)
  BY <1>1, Zenon DEF PromptIn
<1>5. Head(s).kind = "answer" => Head(s).of \in AnswersIn(s)
  BY <1>1, <1>2, Zenon DEF AnswersIn
<1>6. Head(s).kind = "prompt" => PromptIn(s)
  BY <1>1, <1>2, Zenon DEF PromptIn
<1> QED
  BY <1>1, <1>3, <1>4, <1>5, <1>6

(* The answers of a sequence are those of commands.                        *)
LEMMA AnswersAreCommands ==
  ASSUME NEW s \in Seq(Pieces)
  PROVE  AnswersIn(s) \subseteq Commands
<1> SUFFICES ASSUME NEW i \in DOMAIN s, s[i].kind = "answer"
             PROVE  s[i].of \in Commands
  BY Zenon DEF AnswersIn
<1>1. s[i] \in Pieces
  BY ElementOfSeq, LenProperties
<1> QED
  BY <1>1, PieceFacts

LEMMA AddsPieces ==
  ASSUME response \in Seq(Pieces), NEW p \in Pieces
  PROVE  /\ Adds(p) \in Seq(Pieces)
         /\ AnswersIn(Adds(p)) \subseteq
              AnswersIn(response) \cup (IF p.kind = "answer" THEN {p.of} ELSE {})
BY AppendPieces DEF Adds

(* A set of naturals that is not empty has a least element.                *)
LEMMA LeastNumber ==
  ASSUME NEW S \in SUBSET Nat, S # {}
  PROVE  \E x \in S : \A y \in S : x <= y
<1> DEFINE R == {ss \in Nat \X Nat : ss[1] < ss[2]}
<1>1. R = OpToRel(<, Nat)
  BY Zenon DEF OpToRel
<1>2. IsWellFoundedOn(R, Nat)
  BY <1>1, NatLessThanWellFounded, Zenon
<1>3. \E x \in S : \A y \in S : ~ (<<y, x>> \in R)
  <2> HIDE DEF R
  <2> QED
    BY <1>2, WFMin
<1>4. \A x, y \in Nat : ~(<<y, x>> \in R) => x <= y
  OBVIOUS
<1> QED
  BY <1>3, <1>4

(* The first answer of a response is one of its answers.                   *)
LEMMA FirstAnswerIsAnswer ==
  ASSUME NEW rs \in Seq(Pieces), FirstAnswer(rs) # 0
  PROVE  FirstAnswer(rs) \in AnswersIn(rs)
<1> DEFINE answers == {i \in DOMAIN rs : rs[i].kind = "answer"}
<1>1. answers # {}
  BY DEF FirstAnswer
<1>2. answers \subseteq Nat
  BY LenProperties
<1>3. \E i \in answers : \A j \in answers : i <= j
  BY <1>1, <1>2, LeastNumber
<1> DEFINE first == CHOOSE i \in answers : \A j \in answers : i <= j
<1>4. first \in answers
  BY <1>3, Zenon
<1>5. FirstAnswer(rs) = rs[first].of
  BY <1>1 DEF FirstAnswer
<1> HIDE DEF first
<1> QED
  BY <1>4, <1>5, Zenon DEF AnswersIn

(* The requests are a queue of different numbers in ascending order; a     *)
(* queue of one number only has at most one place.                         *)
LEMMA AppendRequests ==
  ASSUME NEW s \in Seq(Numbers), NEW c \in Numbers, Ascending(s),
         \A d \in Elements(s) : d < c
  PROVE  /\ Append(s, c) \in Seq(Numbers)
         /\ Ascending(Append(s, c))
         /\ Elements(Append(s, c)) = Elements(s) \cup {c}
         /\ Append(s, c) # <<>>
<1> DEFINE t == Append(s, c)
<1>1. /\ t \in Seq(Numbers)
      /\ Len(s) \in Nat /\ DOMAIN s = 1..Len(s)
      /\ DOMAIN t = DOMAIN s \cup {Len(s) + 1}
      /\ \A i \in DOMAIN s : t[i] = s[i]
      /\ t[Len(s) + 1] = c
      /\ t # <<>>
  BY AppendProperties, LenProperties
<1> HIDE DEF t
<1>2. Elements(t) = Elements(s) \cup {c}
  BY <1>1 DEF Elements
<1>3. Ascending(t)
  <2> SUFFICES ASSUME NEW i \in DOMAIN t, NEW j \in DOMAIN t, i < j
               PROVE  t[i] < t[j]
    BY Zenon DEF Ascending
  <2>1. CASE j \in DOMAIN s
    BY <1>1, <2>1 DEF Ascending
  <2>2. CASE j = Len(s) + 1
    <3>1. i \in DOMAIN s
      BY <1>1, <2>2
    <3>2. s[i] \in Elements(s)
      BY <3>1, Zenon DEF Elements
    <3> QED
      BY <1>1, <2>2, <3>1, <3>2
  <2> QED
    BY <1>1, <2>1, <2>2
<1> QED
  BY <1>1, <1>2, <1>3 DEF t

LEMMA TailRequests ==
  ASSUME NEW s \in Seq(Numbers), s # <<>>, Ascending(s)
  PROVE  /\ Head(s) \in Elements(s) /\ Head(s) \in Numbers
         /\ Tail(s) \in Seq(Numbers)
         /\ Ascending(Tail(s))
         /\ Elements(Tail(s)) \subseteq Elements(s)
         /\ \A c : Elements(s) \subseteq {c} => Tail(s) = <<>>
<1>1. /\ Head(s) \in Numbers /\ Tail(s) \in Seq(Numbers)
      /\ Len(s) \in Nat \ {0} /\ DOMAIN s = 1..Len(s)
      /\ Head(s) = s[1]
      /\ Len(Tail(s)) = Len(s) - 1
      /\ DOMAIN Tail(s) = 1..(Len(s) - 1)
      /\ \A i \in DOMAIN Tail(s) : i + 1 \in DOMAIN s /\ Tail(s)[i] = s[i + 1]
  BY HeadTailProperties, LenProperties
<1>2. Head(s) \in Elements(s)
  BY <1>1 DEF Elements
<1>3. Elements(Tail(s)) \subseteq Elements(s)
  BY <1>1, Zenon DEF Elements
<1>4. Ascending(Tail(s))
  BY <1>1 DEF Ascending
<1>5. ASSUME NEW c, Elements(s) \subseteq {c}
      PROVE  Tail(s) = <<>>
  <2>1. \A i \in DOMAIN s : s[i] = c
    BY <1>5, Zenon DEF Elements
  <2>2. \A i \in DOMAIN s : s[i] \in Nat
    BY ElementOfSeq, <1>1
  <2>3. Len(s) = 1
    <3> SUFFICES ASSUME Len(s) # 1 PROVE FALSE
      OBVIOUS
    <3>1. 1 \in DOMAIN s /\ 2 \in DOMAIN s
      BY <1>1
    <3>2. s[1] < s[2]
      BY <3>1 DEF Ascending
    <3> QED
      BY <2>1, <2>2, <3>1, <3>2
  <2> QED
    BY <1>1, <2>3, EmptySeq
<1> QED
  BY <1>1, <1>2, <1>3, <1>4, <1>5

-----------------------------------------------------------------------------
(* The end of a command.                                                   *)

(* The history of what was read is kept when no command ends.              *)
LEMMA HistoryStays ==
  ASSUME IInv, outcome' = outcome, heard' = heard,
         gaveUp \subseteq gaveUp', owed \subseteq owed'
  PROVE  /\ CleanStart' /\ ForeignAnswerExplained'
         /\ SuccessExplained' /\ MismatchExplained'
<1>1. CleanStart'
  BY DEF IInv, CleanStart
<1>2. ForeignAnswerExplained'
  BY DEF IInv, ForeignAnswerExplained
<1>3. SuccessExplained' /\ MismatchExplained'
  BY DEF IInv, SuccessExplained, MismatchExplained
<1> QED
  BY <1>1, <1>2, <1>3

AfterReset == {"sending", "looping", "reading"}

(* What is counted of a command is what its response justifies.            *)
LEMMA VerdictExplained ==
  ASSUME IInv, phase \in AfterReset,
         NEW rs \in Seq(Pieces), AnswersIn(rs) \subseteq Pending,
         NEW raised \in BOOLEAN, CommandEnds(rs, raised),
         gaveUp \subseteq gaveUp'
  PROVE  /\ CleanStart' /\ ForeignAnswerExplained'
         /\ SuccessExplained' /\ MismatchExplained'
<1> DEFINE H == AnswersIn(rs)
<1>1. /\ H \subseteq Pending
      /\ H \subseteq Commands
      /\ rs \in Seq(Pieces)
  BY AnswersAreCommands
<1>2. /\ command \in Numbers /\ heard \in [Numbers -> SUBSET Commands]
      /\ outcome \in [Commands -> {"none", "success", "failure", "mismatch"}]
      /\ gaveUp \subseteq Numbers
  BY DEF IInv, TypeOK
<1>3. /\ heard' = [heard EXCEPT ![command] = H]
      /\ owed' = owed
      /\ outcome' = IF command = 0 THEN outcome
                    ELSE [outcome EXCEPT ![command] = Counted(rs, raised)]
  BY DEF CommandEnds
<1>4. /\ heard'[command] = H
      /\ \A c \in Numbers \ {command} : heard'[c] = heard[c]
  BY <1>2, <1>3
<1>5. CleanStart'
  <2>1. command \notin owed => H \subseteq {command}
    BY <1>1 DEF IInv, ResetInv, AfterReset
  <2> HIDE DEF H
  <2> QED
    BY <1>3, <1>4, <2>1 DEF IInv, CleanStart
<1>6. \A d \in H \ {command} : d < command /\ \E e \in gaveUp : e <= d
  <2> SUFFICES ASSUME NEW d \in H, d # command
               PROVE  d < command /\ \E e \in gaveUp : e <= d
    OBVIOUS
  <2> HIDE DEF H
  <2>1. d <= command
    BY <1>1 DEF IInv, OrderInv
  <2>2. d < command
    BY <1>1, <1>2, <2>1
  <2> QED
    BY <1>1, <2>2 DEF IInv, LeftInv
<1>7. ForeignAnswerExplained'
  <2> HIDE DEF H
  <2> QED
    BY <1>4, <1>6 DEF IInv, ForeignAnswerExplained
<1>8. \A d \in H \ {command} : \E e \in gaveUp' : e < command
  <2> HIDE DEF H
  <2> SUFFICES ASSUME NEW d \in H \ {command}
               PROVE  \E e \in gaveUp' : e < command
    OBVIOUS
  <2>1. PICK e \in gaveUp : e <= d
    BY <1>6
  <2> QED
    BY <1>1, <1>2, <1>6, <2>1
<1>9. \A c \in Commands \ {command} : outcome'[c] = outcome[c]
  BY <1>2, <1>3
<1>10. CASE command = 0
  <2>1. outcome' = outcome /\ \A c \in Commands : heard'[c] = heard[c]
    BY <1>3, <1>4, <1>10
  <2>2. SuccessExplained'
    BY <2>1 DEF IInv, SuccessExplained
  <2>3. MismatchExplained'
    BY <2>1 DEF IInv, MismatchExplained
  <2> QED
    BY <1>5, <1>7, <2>2, <2>3
<1>11. CASE command # 0
  <2>1. command \in Commands /\ outcome'[command] = Counted(rs, raised)
    BY <1>2, <1>3, <1>11
  <2>2. Counted(rs, raised) = "success" =>
          \/ command \in H
          \/ command \in PromptMatches \cup PrintkMatches
          \/ H \ {command} # {}
    <3>1. CASE test = "console" /\ PatternFound(rs)
      <4>1. PICK i \in DOMAIN rs :
              \/ rs[i].kind = "answer" /\ command \in Matches[rs[i].of]
              \/ rs[i].kind = "prompt" /\ command \in PromptMatches
              \/ rs[i].kind = "printk" /\ command \in PrintkMatches
        BY <3>1 DEF PatternFound
      <4>2. rs[i].kind = "answer" => rs[i].of \in H
        BY Zenon DEF AnswersIn
      <4> QED
        BY <4>1, <4>2
    <3>2. CASE test = "integrity" /\ FirstAnswer(rs) = command
      BY <1>1, <1>11, <3>2, FirstAnswerIsAnswer
    <3> QED
      BY <3>1, <3>2 DEF Counted, IInv, TypeOK
  <2>3. Counted(rs, raised) = "mismatch" => H \ {command} # {}
    <3>1. ASSUME FirstAnswer(rs) # 0, FirstAnswer(rs) # command
          PROVE  H \ {command} # {}
      BY <1>1, <3>1, FirstAnswerIsAnswer
    <3> QED
      BY <3>1 DEF Counted
  <2> HIDE DEF H
  <2>4. SuccessExplained'
    <3> SUFFICES ASSUME NEW c \in Commands, outcome'[c] = "success"
                 PROVE  \/ c \in heard'[c]
                        \/ c \in PromptMatches \cup PrintkMatches
                        \/ \E e \in gaveUp' : e < c
      BY DEF SuccessExplained
    <3>1. CASE c = command
      BY <1>4, <1>8, <2>1, <2>2, <3>1
    <3>2. CASE c # command
      BY <1>4, <1>9, <3>2 DEF IInv, SuccessExplained
    <3> QED
      BY <3>1, <3>2
  <2>5. MismatchExplained'
    <3> SUFFICES ASSUME NEW c \in Commands, outcome'[c] = "mismatch"
                 PROVE  \E e \in gaveUp' : e < c
      BY DEF MismatchExplained
    <3>1. CASE c = command
      BY <1>8, <2>1, <2>3, <3>1
    <3>2. CASE c # command
      BY <1>9, <3>2 DEF IInv, MismatchExplained
    <3> QED
      BY <3>1, <3>2
  <2> QED
    BY <1>5, <1>7, <2>4, <2>5
<1> QED
  BY <1>5, <1>7, <1>10, <1>11

LEMMA EnoughIsBoolean ==
  ASSUME NEW os
  PROVE  Enough(os) \in BOOLEAN
<1>1. IsFiniteSet({c \in Commands : os[c] = "success"})
  BY FS_Interval, FS_Subset
<1>2. Cardinality({c \in Commands : os[c] = "success"}) \in Nat
  BY <1>1, FS_CardinalityType
<1> QED
  BY <1>2 DEF Enough

(* The values at the end of a command are of their types.                  *)
LEMMA CommandEndsTypes ==
  ASSUME IInv, phase \in AfterReset, NEW rs \in Seq(Pieces),
         NEW raised \in BOOLEAN, CommandEnds(rs, raised),
         gaveUp' \in {gaveUp, gaveUp \cup {command}},
         Serial!SerialTypeOK'
  PROVE  TypeOK'
<1>1. AnswersIn(rs) \subseteq Commands
  BY AnswersAreCommands
<1>2. heard' \in [Numbers -> SUBSET Commands]
  BY <1>1 DEF IInv, TypeOK, CommandEnds
<1>3. Counted(rs, raised) \in {"none", "success", "failure", "mismatch"}
  BY DEF Counted
<1>4. outcome' \in [Commands -> {"none", "success", "failure", "mismatch"}]
  BY <1>3 DEF IInv, TypeOK, CommandEnds
<1>5. passed' \in BOOLEAN
  BY EnoughIsBoolean DEF IInv, TypeOK, CommandEnds
<1>6. /\ command' \in Numbers
      /\ phase' \in {"resetting", "ended"}
  BY DEF IInv, TypeOK, CommandEnds, Another, FirstPhase
<1>7. /\ expired' \in BOOLEAN /\ response' \in Seq(Pieces)
      /\ requests' \in Seq(Numbers) /\ answered' \in BOOLEAN
      /\ test' \in {"console", "integrity"} /\ owed' \subseteq Numbers
  BY NoPieces DEF IInv, TypeOK, CommandEnds, boardVars
<1>8. gaveUp' \subseteq Numbers
  BY DEF IInv, TypeOK
<1> QED
  BY <1>2, <1>4, <1>5, <1>6, <1>7, <1>8 DEF TypeOK

(* The next command begins with what is pending: the command that ends has *)
(* given up, or nothing of it is left.                                     *)
LEMMA NextCommand ==
  ASSUME IInv, phase \in AfterReset, NEW rs, NEW raised,
         CommandEnds(rs, raised), wire' \in Seq(Pieces),
         AnswersIn(wire') \subseteq AnswersIn(wire),
         PromptIn(wire') => PromptIn(wire),
         \/ gaveUp' = gaveUp \cup {command}
         \/ /\ gaveUp' = gaveUp
            /\ wire = <<>>
            /\ (\A e \in gaveUp : ~(e < command)) => requests = <<>>
  PROVE  OrderInv' /\ ResetInv' /\ LeftInv' /\ PromptInv'
<1>1. /\ command \in Numbers /\ gaveUp \subseteq Numbers /\ owed \subseteq Numbers
      /\ requests \in Seq(Numbers)
  BY DEF IInv, TypeOK
<1>2. /\ response' = <<>> /\ requests' = requests /\ owed' = owed
      /\ \/ phase' = "resetting" /\ command' = command + 1
         \/ phase' = "ended" /\ command' = command
  BY DEF CommandEnds, boardVars, FirstPhase
<1>3. Pending' \subseteq Pending
  BY <1>2, NoPieces DEF Pending
<1>4. \A d \in Pending' : d \in Nat /\ d <= command
  <2>1. Pending \subseteq Numbers
    BY <1>1, AnswersAreCommands, ElementOfSeq, LenProperties
       DEF Pending, Elements, IInv, TypeOK, Serial!SerialTypeOK
  <2> QED
    BY <1>3, <2>1 DEF IInv, OrderInv
<1>5. OrderInv'
  BY <1>1, <1>2, <1>4 DEF IInv, OrderInv, NotSent
<1>6. ResetInv'
  BY <1>1, <1>2 DEF IInv, ResetInv
<1>7. LeftInv'
  <2> SUFFICES ASSUME NEW d \in Pending', d < command'
               PROVE  \E e \in gaveUp' : e <= d
    BY DEF LeftInv
  <2>1. CASE d < command
    BY <1>3, <2>1 DEF IInv, LeftInv
  <2>2. CASE d = command /\ gaveUp' = gaveUp \cup {command}
    BY <1>1, <2>2
  <2>3. CASE d = command /\ gaveUp' = gaveUp
    <3>1. CASE requests = <<>> /\ wire = <<>>
      <4>1. Pending' = {}
        BY <1>2, <3>1, NoPieces DEF Pending, Elements
      <4> QED
        BY <4>1
    <3>2. CASE \E e \in gaveUp : e < command
      BY <1>1, <2>3, <3>2
    <3> QED
      BY <1>1, <2>3, <3>1, <3>2
  <2> QED
    BY <1>1, <1>4, <2>1, <2>2, <2>3
<1>8. PromptInv'
  <2> SUFFICES ASSUME \A e \in gaveUp' : ~(e < command')
               PROVE  /\ PromptIn(wire) => requests = <<>>
                      /\ phase' = "resetting" => requests = <<>> /\ ~PromptIn(wire)
    BY <1>2, Zenon DEF PromptInv, NotSent
  <2>1. \A e \in gaveUp : ~(e < command)
    BY <1>1, <1>2
  <2>2. PromptIn(wire) => requests = <<>>
    BY <2>1 DEF IInv, PromptInv
  <2>3. ASSUME phase' = "resetting"
        PROVE  requests = <<>> /\ ~PromptIn(wire)
    <3>1. command < command'
      BY <1>1, <1>2, <2>3
    <3>2. command \notin gaveUp'
      BY <3>1
    <3>3. gaveUp' # gaveUp \cup {command}
      BY <3>2
    <3> QED
      BY <2>1, <3>3, NoPieces
  <2> QED
    BY <2>2, <2>3
<1> QED
  BY <1>5, <1>6, <1>7, <1>8

-----------------------------------------------------------------------------
(* The steps of the board.                                                 *)

(* What a step of the board leaves alone.                                  *)
BoardStep ==
  UNCHANGED <<test, phase, command, expired, response, outcome, passed, history>>

(* IInv is kept when the shell writes an answer.                           *)
LEMMA AnswerKeeps ==
  ASSUME IInv, Answer
  PROVE  IInv'
<1> DEFINE p == [kind |-> "answer", of |-> Head(requests), ended |-> TRUE]
<1>1. /\ requests \in Seq(Numbers) /\ requests # <<>> /\ Ascending(requests)
      /\ wire \in Seq(Pieces)
  BY DEF Answer, IInv, TypeOK, OrderInv, Serial!SerialTypeOK
<1>2. Head(requests) \in Elements(requests) /\ Head(requests) \in Commands
  BY <1>1, TailRequests DEF Answer
<1>3. p \in Pieces /\ p.kind = "answer" /\ p.of = Head(requests)
  BY <1>2 DEF Pieces
<1>4. /\ wire' = Append(wire, p) /\ is_open
      /\ UNCHANGED <<is_open, line, peer, requests>> /\ answered' = TRUE
      /\ BoardStep
  BY DEF Answer, Writes, Serial!Arrives, BoardStep
<1> HIDE DEF p
<1>5. /\ wire' \in Seq(Pieces)
      /\ AnswersIn(wire') = AnswersIn(wire) \cup {Head(requests)}
      /\ PromptIn(wire') <=> PromptIn(wire)
  BY <1>1, <1>3, <1>4, AppendPieces
<1>6. Pending' = Pending
  BY <1>2, <1>4, <1>5 DEF Pending, BoardStep
<1>7. TypeOK'
  BY <1>4, <1>5 DEF IInv, TypeOK, Serial!SerialTypeOK, BoardStep, history
<1>8. OrderInv' /\ ResetInv' /\ LeftInv'
  BY <1>4, <1>6
     DEF IInv, OrderInv, ResetInv, LeftInv, BoardStep, history
<1>9. PromptInv'
  BY <1>4, <1>5 DEF IInv, PromptInv, BoardStep, history
<1>10. CleanStart' /\ ForeignAnswerExplained' /\ SuccessExplained'
       /\ MismatchExplained'
  BY <1>4, HistoryStays DEF BoardStep, history
<1> QED
  BY <1>7, <1>8, <1>9, <1>10 DEF IInv

(* IInv is kept when the shell is through with a command.                  *)
LEMMA PromptKeeps ==
  ASSUME IInv, Prompt
  PROVE  IInv'
<1> DEFINE p == [kind |-> "prompt", of |-> 0, ended |-> FALSE]
<1>1. /\ requests \in Seq(Numbers) /\ requests # <<>> /\ Ascending(requests)
      /\ wire \in Seq(Pieces)
  BY DEF Prompt, IInv, TypeOK, OrderInv, Serial!SerialTypeOK
<1>2. /\ Tail(requests) \in Seq(Numbers) /\ Ascending(Tail(requests))
      /\ Elements(Tail(requests)) \subseteq Elements(requests)
      /\ \A c : Elements(requests) \subseteq {c} => Tail(requests) = <<>>
  BY <1>1, TailRequests
<1>3. p \in Pieces
  BY DEF Pieces
<1>4. /\ wire' = Append(wire, p) /\ is_open
      /\ UNCHANGED <<is_open, line, peer>>
      /\ requests' = Tail(requests) /\ answered' = FALSE
      /\ BoardStep
  BY DEF Prompt, Writes, Serial!Arrives, BoardStep
<1>5. /\ wire' \in Seq(Pieces)
      /\ AnswersIn(wire') = AnswersIn(wire)
  BY <1>1, <1>3, <1>4, AppendPieces
<1>6. Pending' \subseteq Pending
  BY <1>2, <1>4, <1>5 DEF Pending, BoardStep
<1>7. TypeOK'
  BY <1>2, <1>4, <1>5 DEF IInv, TypeOK, Serial!SerialTypeOK, BoardStep, history
<1>8. OrderInv' /\ ResetInv' /\ LeftInv'
  <2>1. phase # "none"
    BY <1>4 DEF IInv, OrderInv
  <2>2. OrderInv'
    BY <1>2, <1>4, <1>6, <2>1 DEF IInv, OrderInv, BoardStep
  <2>3. ResetInv' /\ LeftInv'
    BY <1>4, <1>6 DEF IInv, ResetInv, LeftInv, BoardStep, history
  <2> QED
    BY <2>2, <2>3
<1>9. PromptInv'
  <2> SUFFICES ASSUME \A e \in gaveUp : ~(e < command)
               PROVE  requests' = <<>> /\ phase \notin NotSent
    BY <1>4 DEF PromptInv, BoardStep, history
  <2>1. phase \notin NotSent
    BY <1>1 DEF IInv, PromptInv
  <2>2. Elements(requests) \subseteq {command}
    <3> SUFFICES ASSUME NEW d \in Elements(requests), d # command
                 PROVE  FALSE
      OBVIOUS
    <3>1. d \in Nat /\ d <= command /\ command \in Nat /\ gaveUp \subseteq Nat
      BY ElementOfSeq, LenProperties
         DEF IInv, OrderInv, Pending, TypeOK, Elements
    <3>2. PICK e \in gaveUp : e <= d
      BY <3>1 DEF IInv, LeftInv, Pending
    <3> QED
      BY <3>1, <3>2
  <2> QED
    BY <1>2, <1>4, <2>1, <2>2
<1>10. CleanStart' /\ ForeignAnswerExplained' /\ SuccessExplained'
       /\ MismatchExplained'
  BY <1>4, HistoryStays DEF BoardStep, history
<1> QED
  BY <1>7, <1>8, <1>9, <1>10 DEF IInv

(* IInv is kept when a message of the kernel arrives.                      *)
LEMMA PrintkKeeps ==
  ASSUME IInv, Printk
  PROVE  IInv'
<1> DEFINE p == [kind |-> "printk", of |-> 0, ended |-> TRUE]
<1>1. p \in Pieces /\ wire \in Seq(Pieces)
  BY DEF Pieces, IInv, TypeOK, Serial!SerialTypeOK
<1>2. /\ wire' = Append(wire, p) /\ is_open
      /\ UNCHANGED <<is_open, line, peer, requests, answered>>
      /\ BoardStep
  BY DEF Printk, Writes, Serial!Arrives, BoardStep, boardVars
<1>3. /\ wire' \in Seq(Pieces)
      /\ AnswersIn(wire') = AnswersIn(wire)
      /\ PromptIn(wire') <=> PromptIn(wire)
  BY <1>1, <1>2, AppendPieces
<1>4. Pending' = Pending
  BY <1>2, <1>3 DEF Pending, BoardStep
<1>5. TypeOK'
  BY <1>2, <1>3 DEF IInv, TypeOK, Serial!SerialTypeOK, BoardStep, history
<1>6. OrderInv' /\ ResetInv' /\ LeftInv'
  BY <1>2, <1>4 DEF IInv, OrderInv, ResetInv, LeftInv, BoardStep, history
<1>7. PromptInv'
  BY <1>2, <1>3 DEF IInv, PromptInv, BoardStep, history
<1>8. CleanStart' /\ ForeignAnswerExplained' /\ SuccessExplained'
      /\ MismatchExplained'
  BY <1>2, HistoryStays DEF BoardStep, history
<1> QED
  BY <1>5, <1>6, <1>7, <1>8 DEF IInv

(* IInv is kept when the other end closes or resets the connection.        *)
LEMMA HangupKeeps ==
  ASSUME IInv, Hangup
  PROVE  IInv'
<1>1. /\ wire' \in {<<>>, wire} /\ is_open
      /\ UNCHANGED <<is_open, line, requests, answered>>
      /\ peer' \in {"closed", "reset"}
      /\ BoardStep
  BY DEF Hangup, Serial!PeerEnds, BoardStep, boardVars
<1>2. /\ wire' \in Seq(Pieces)
      /\ AnswersIn(wire') \subseteq AnswersIn(wire)
      /\ PromptIn(wire') => PromptIn(wire)
  BY <1>1, NoPieces DEF IInv, TypeOK, Serial!SerialTypeOK
<1>3. Pending' \subseteq Pending
  BY <1>1, <1>2 DEF Pending, BoardStep
<1>4. TypeOK'
  BY <1>1, <1>2 DEF IInv, TypeOK, Serial!SerialTypeOK, BoardStep, history
<1>5. OrderInv' /\ ResetInv' /\ LeftInv'
  BY <1>1, <1>3 DEF IInv, OrderInv, ResetInv, LeftInv, BoardStep, history
<1>6. PromptInv'
  BY <1>1, <1>2 DEF IInv, PromptInv, BoardStep, history
<1>7. CleanStart' /\ ForeignAnswerExplained' /\ SuccessExplained'
      /\ MismatchExplained'
  BY <1>1, HistoryStays DEF BoardStep, history
<1> QED
  BY <1>4, <1>5, <1>6, <1>7 DEF IInv

-----------------------------------------------------------------------------
(* The steps of the tests.                                                 *)

(* IInv is kept when a test opens the connection.                          *)
LEMMA EnterKeeps ==
  ASSUME IInv, Enter
  PROVE  IInv'
<1>1. /\ wire' = <<>> /\ line' = {} /\ peer' = "up" /\ is_open' = TRUE
      /\ phase' = "resetting" /\ command' \in {0, 1}
      /\ UNCHANGED <<requests, answered, test, expired, response, outcome,
                     passed, gaveUp, owed, heard>>
      /\ requests = <<>> /\ response = <<>> /\ owed = {}
  BY DEF Enter, Serial!Open, FirstPhase, boardVars, history, IInv, OrderInv,
         NotSent
<1>2. Pending' = {}
  BY <1>1, NoPieces DEF Pending, Elements
<1>3. TypeOK'
  BY <1>1, NoPieces DEF IInv, TypeOK, Serial!SerialTypeOK
<1>4. OrderInv' /\ ResetInv' /\ LeftInv'
  BY <1>1, <1>2 DEF OrderInv, ResetInv, LeftInv, Ascending, NotSent
<1>5. PromptInv'
  BY <1>1, NoPieces DEF PromptInv
<1>6. CleanStart' /\ ForeignAnswerExplained' /\ SuccessExplained'
      /\ MismatchExplained'
  BY <1>1, HistoryStays
<1> QED
  BY <1>3, <1>4, <1>5, <1>6 DEF IInv

(* IInv is kept by reset_input_buffer.                                     *)
LEMMA ResetKeeps ==
  ASSUME IInv, Reset
  PROVE  IInv'
<1>1. /\ phase = "resetting" /\ response' = response
      /\ UNCHANGED <<requests, answered, test, command, expired, outcome,
                     passed, gaveUp, heard, is_open, line>>
  BY DEF Reset, Stays, boardVars, Serial!Drain, Serial!Drained
<1>2. /\ wire' = <<>> /\ peer' \in {"up", "closed", "reset"}
      /\ \/ phase' = "resetting" /\ owed' = owed
         \/ /\ phase' = "sending"
            /\ owed' = IF requests = <<>> THEN owed ELSE owed \cup {command}
  BY <1>1 DEF Reset, Serial!Drain, Serial!Drained, Serial!Reported, IInv,
              TypeOK, Serial!SerialTypeOK
<1>3. /\ Pending' \subseteq Pending
      /\ Pending' = Elements(requests) \cup AnswersIn(response)
  BY <1>1, <1>2, NoPieces DEF Pending
<1>4. TypeOK'
  BY <1>1, <1>2, NoPieces DEF IInv, TypeOK, Serial!SerialTypeOK
<1>5. OrderInv' /\ LeftInv'
  BY <1>1, <1>2, <1>3 DEF IInv, OrderInv, LeftInv, NotSent
<1>6. ResetInv'
  <2>1. response = <<>>
    BY <1>1 DEF IInv, OrderInv, NotSent
  <2>2. requests = <<>> => Pending' = {}
    BY <1>3, <2>1, NoPieces DEF Elements
  <2>3. command \in Nat
    BY DEF IInv, TypeOK
  <2> QED
    BY <1>1, <1>2, <2>2, <2>3 DEF IInv, ResetInv
<1>7. PromptInv'
  BY <1>1, <1>2, NoPieces DEF IInv, PromptInv, NotSent
<1>8. CleanStart' /\ ForeignAnswerExplained' /\ SuccessExplained'
      /\ MismatchExplained'
  BY <1>1, <1>2, HistoryStays
<1> QED
  BY <1>4, <1>5, <1>6, <1>7, <1>8 DEF IInv

(* IInv is kept when a command is sent, whether it reaches the shell.      *)
LEMMA SendKeeps ==
  ASSUME IInv, Send
  PROVE  IInv'
<1>1. /\ phase = "sending" /\ phase' = "looping"
      /\ UNCHANGED <<is_open, wire, line, peer, answered, test, command,
                     expired, response, outcome, passed, gaveUp, owed, heard>>
      /\ requests' \in {requests, Append(requests, command)}
  BY DEF Send, consoleVars, history
<1>2. /\ command \in Numbers /\ requests \in Seq(Numbers) /\ Ascending(requests)
      /\ \A d \in Elements(requests) : d < command
      /\ response = <<>>
  BY <1>1 DEF IInv, TypeOK, OrderInv, NotSent, Pending
<1>3. /\ requests' \in Seq(Numbers) /\ Ascending(requests')
      /\ Elements(requests') \subseteq Elements(requests) \cup {command}
  BY <1>1, <1>2, AppendRequests
<1>4. Pending' \subseteq Pending \cup {command}
  BY <1>1, <1>3 DEF Pending
<1>5. TypeOK'
  BY <1>1, <1>3 DEF IInv, TypeOK, Serial!SerialTypeOK
<1>6. OrderInv' /\ ResetInv'
  BY <1>1, <1>2, <1>3, <1>4 DEF IInv, OrderInv, ResetInv, NotSent
<1>7. LeftInv'
  BY <1>1, <1>2, <1>4 DEF IInv, LeftInv
<1>8. PromptInv'
  BY <1>1 DEF IInv, PromptInv, NotSent
<1>9. CleanStart' /\ ForeignAnswerExplained' /\ SuccessExplained'
      /\ MismatchExplained'
  BY <1>1, HistoryStays
<1> QED
  BY <1>5, <1>6, <1>7, <1>8, <1>9 DEF IInv

(* IInv is kept when _send_command raises, or its time is up.              *)
LEMMA GivesUpKeeps ==
  ASSUME IInv, SendFails \/ TimeIsUp \/ ReadFails
  PROVE  IInv'
<1>1. PICK rs \in {<<>>, response}, raised \in BOOLEAN : CommandEnds(rs, raised)
  BY DEF SendFails, TimeIsUp, ReadFails
<1>2. /\ phase \in AfterReset /\ gaveUp' = gaveUp \cup {command}
      /\ UNCHANGED <<is_open, wire, line>>
      /\ peer' \in {"up", "closed", "reset"}
  BY DEF SendFails, TimeIsUp, ReadFails, AfterReset, consoleVars,
         Serial!ReadRaises, Serial!Reported, IInv, TypeOK, Serial!SerialTypeOK
<1>3. Serial!SerialTypeOK' /\ wire' \in Seq(Pieces)
  BY <1>2 DEF IInv, TypeOK, Serial!SerialTypeOK
<1>4. rs \in Seq(Pieces) /\ AnswersIn(rs) \subseteq Pending
  BY NoPieces DEF IInv, TypeOK, Pending
<1>5. TypeOK'
  BY <1>1, <1>2, <1>3, <1>4, CommandEndsTypes
<1>6. OrderInv' /\ ResetInv' /\ LeftInv' /\ PromptInv'
  BY <1>1, <1>2, <1>3, NextCommand
<1>7. CleanStart' /\ ForeignAnswerExplained' /\ SuccessExplained'
      /\ MismatchExplained'
  BY <1>1, <1>2, <1>4, VerdictExplained
<1> QED
  BY <1>5, <1>6, <1>7 DEF IInv

(* IInv is kept by a step that neither reads nor ends a command.           *)
LEMMA IdleKeeps ==
  ASSUME IInv, Expires \/ LoopSleeps \/ StartLine \/ UNCHANGED vars
  PROVE  IInv'
<1>1. /\ UNCHANGED <<is_open, wire, requests, answered, test, command,
                     response, outcome, passed, gaveUp, owed, heard>>
      /\ expired' \in BOOLEAN
      /\ peer' \in {"up", "closed", "reset"}
      /\ \/ phase' = phase /\ line' = line
         \/ phase = "looping" /\ phase' = "reading" /\ line' = {}
  BY DEF Expires, LoopSleeps, StartLine, Stays, vars, consoleVars, boardVars,
         history, Serial!SeesNothing, Serial!StartLine, Serial!Reported,
         IInv, TypeOK, Serial!SerialTypeOK
<1>2. Pending' = Pending
  BY <1>1 DEF Pending
<1>3. TypeOK'
  BY <1>1 DEF IInv, TypeOK, Serial!SerialTypeOK
<1>4. OrderInv' /\ ResetInv' /\ LeftInv'
  BY <1>1, <1>2 DEF IInv, OrderInv, ResetInv, LeftInv, NotSent
<1>5. PromptInv'
  BY <1>1 DEF IInv, PromptInv, NotSent
<1>6. CleanStart' /\ ForeignAnswerExplained' /\ SuccessExplained'
      /\ MismatchExplained'
  BY <1>1, HistoryStays
<1> QED
  BY <1>3, <1>4, <1>5, <1>6 DEF IInv

(* IInv is kept when a piece of a line is read.                            *)
LEMMA ReadPieceKeeps ==
  ASSUME IInv, ReadPiece
  PROVE  IInv'
<1> DEFINE p == Head(wire)
<1>1. /\ wire \in Seq(Pieces) /\ wire # <<>> /\ response \in Seq(Pieces)
      /\ phase = "reading" /\ wire' = Tail(wire)
      /\ response' = Adds(p) /\ line' = line \cup {p}
      /\ phase' = IF p.ended THEN "looping" ELSE "reading"
      /\ UNCHANGED <<is_open, peer, requests, answered, test, command, expired,
                     outcome, passed, gaveUp, owed, heard>>
  BY DEF ReadPiece, Serial!Take, Serial!LineEnded, Stays, boardVars, IInv,
         TypeOK, Serial!SerialTypeOK
<1>2. /\ p \in Pieces /\ wire' \in Seq(Pieces)
      /\ AnswersIn(wire') \subseteq AnswersIn(wire)
      /\ PromptIn(wire') => PromptIn(wire)
      /\ p.kind = "answer" => p.of \in AnswersIn(wire)
      /\ p.kind = "prompt" => PromptIn(wire)
  BY <1>1, TailPieces
<1>3. ~p.ended => p.kind = "prompt"
  BY <1>2, PieceFacts
<1> HIDE DEF p
<1>4. /\ response' \in Seq(Pieces)
      /\ AnswersIn(response') \subseteq AnswersIn(response) \cup AnswersIn(wire)
  BY <1>1, <1>2, AddsPieces
<1>5. Pending' \subseteq Pending
  BY <1>1, <1>2, <1>4 DEF Pending
<1>6. TypeOK'
  BY <1>1, <1>2, <1>4 DEF IInv, TypeOK, Serial!SerialTypeOK
<1>7. OrderInv' /\ ResetInv' /\ LeftInv'
  BY <1>1, <1>5 DEF IInv, OrderInv, ResetInv, LeftInv, NotSent
<1>8. PromptInv'
  BY <1>1, <1>2, <1>3 DEF IInv, PromptInv, NotSent
<1>9. CleanStart' /\ ForeignAnswerExplained' /\ SuccessExplained'
      /\ MismatchExplained'
  BY <1>1, HistoryStays
<1> QED
  BY <1>6, <1>7, <1>8, <1>9 DEF IInv

(* IInv is kept when a line that is none is taken for a prompt.            *)
LEMMA ReadPromptLikeKeeps ==
  ASSUME IInv, ReadPromptLike
  PROVE  IInv'
<1> DEFINE p == Head(wire)
           rs == Adds(p)
<1>1. /\ wire \in Seq(Pieces) /\ wire # <<>> /\ response \in Seq(Pieces)
      /\ phase \in AfterReset /\ wire' = Tail(wire) /\ line' = line \cup {p}
      /\ UNCHANGED <<is_open, peer>>
      /\ CommandEnds(rs, FALSE) /\ gaveUp' = gaveUp \cup {command}
  BY DEF ReadPromptLike, Serial!Take, AfterReset, IInv, TypeOK,
         Serial!SerialTypeOK
<1>2. /\ p \in Pieces /\ wire' \in Seq(Pieces)
      /\ AnswersIn(wire') \subseteq AnswersIn(wire)
      /\ PromptIn(wire') => PromptIn(wire)
      /\ p.kind = "answer" => p.of \in AnswersIn(wire)
  BY <1>1, TailPieces
<1> HIDE DEF p
<1>3. rs \in Seq(Pieces) /\ AnswersIn(rs) \subseteq Pending
  BY <1>1, <1>2, AddsPieces DEF Pending
<1> HIDE DEF rs
<1>4. Serial!SerialTypeOK'
  BY <1>1, <1>2 DEF IInv, TypeOK, Serial!SerialTypeOK
<1>5. TypeOK'
  BY <1>1, <1>3, <1>4, CommandEndsTypes
<1>6. OrderInv' /\ ResetInv' /\ LeftInv' /\ PromptInv'
  BY <1>1, <1>2, NextCommand
<1>7. CleanStart' /\ ForeignAnswerExplained' /\ SuccessExplained'
      /\ MismatchExplained'
  BY <1>1, <1>3, VerdictExplained
<1> QED
  BY <1>5, <1>6, <1>7 DEF IInv

(* IInv is kept when the line breaks off: after a prompt the command ends. *)
LEMMA ReadBreaksOffKeeps ==
  ASSUME IInv, ReadBreaksOff
  PROVE  IInv'
<1>1. /\ phase = "reading" /\ wire = <<>>
      /\ UNCHANGED <<is_open, wire, line, peer>>
  BY DEF ReadBreaksOff, Serial!LineBreaksOff, Serial!serialVars
<1>2. CASE line = {}
  <2>1. /\ phase' = "looping"
        /\ UNCHANGED <<requests, answered, test, command, expired, response,
                       outcome, passed, gaveUp, owed, heard>>
    BY <1>2 DEF ReadBreaksOff, Stays, boardVars
  <2>2. Pending' = Pending
    BY <1>1, <2>1 DEF Pending
  <2>3. TypeOK'
    BY <1>1, <2>1 DEF IInv, TypeOK, Serial!SerialTypeOK
  <2>4. OrderInv' /\ ResetInv' /\ LeftInv'
    BY <1>1, <2>1, <2>2 DEF IInv, OrderInv, ResetInv, LeftInv, NotSent
  <2>5. PromptInv'
    BY <1>1, <2>1 DEF IInv, PromptInv, NotSent
  <2>6. CleanStart' /\ ForeignAnswerExplained' /\ SuccessExplained'
        /\ MismatchExplained'
    BY <2>1, HistoryStays
  <2> QED
    BY <2>3, <2>4, <2>5, <2>6 DEF IInv
<1>3. CASE line # {}
  <2>1. CommandEnds(response, FALSE) /\ gaveUp' = gaveUp
    BY <1>3 DEF ReadBreaksOff
  <2>2. /\ phase \in AfterReset
        /\ (\A e \in gaveUp : ~(e < command)) => requests = <<>>
        /\ peer' \in {"up", "closed", "reset"}
    BY <1>1, <1>3
       DEF AfterReset, IInv, PromptInv, TypeOK, Serial!SerialTypeOK
  <2>3. /\ Serial!SerialTypeOK' /\ wire' \in Seq(Pieces)
        /\ response \in Seq(Pieces) /\ AnswersIn(response) \subseteq Pending
    BY <1>1 DEF IInv, TypeOK, Serial!SerialTypeOK, Pending
  <2>4. TypeOK'
    BY <2>1, <2>2, <2>3, CommandEndsTypes
  <2>5. OrderInv' /\ ResetInv' /\ LeftInv' /\ PromptInv'
    BY <1>1, <2>1, <2>2, <2>3, NextCommand
  <2>6. CleanStart' /\ ForeignAnswerExplained' /\ SuccessExplained'
        /\ MismatchExplained'
    BY <2>1, <2>2, <2>3, VerdictExplained
  <2> QED
    BY <2>4, <2>5, <2>6 DEF IInv
<1> QED
  BY <1>2, <1>3

-----------------------------------------------------------------------------
(* The theorems.                                                           *)

(* The invariant holds at the start.                                       *)
LEMMA InitHolds ==
  ASSUME Init
  PROVE  IInv
<1>1. TypeOK
  <2>1. Serial!SerialTypeOK
    BY NoPieces DEF Init, Serial!SerialInit, Serial!SerialTypeOK
  <2>2. <<>> \in Seq(Numbers) /\ 0 \in Numbers
    OBVIOUS
  <2>3. /\ outcome \in [Commands -> {"none", "success", "failure", "mismatch"}]
        /\ heard \in [Numbers -> SUBSET Commands]
    BY DEF Init
  <2> QED
    BY <2>1, <2>2, <2>3, NoPieces DEF Init, TypeOK
<1>2. Pending = {}
  BY NoPieces DEF Init, Serial!SerialInit, Pending, Elements
<1>3. OrderInv /\ ResetInv /\ LeftInv
  BY <1>2 DEF Init, Serial!SerialInit, OrderInv, ResetInv, LeftInv, Ascending,
              NotSent
<1>4. PromptInv
  BY NoPieces DEF Init, Serial!SerialInit, PromptInv
<1>5. CleanStart /\ ForeignAnswerExplained /\ SuccessExplained
      /\ MismatchExplained
  BY DEF Init, CleanStart, ForeignAnswerExplained, SuccessExplained,
         MismatchExplained
<1> QED
  BY <1>1, <1>3, <1>4, <1>5 DEF IInv

(* The shell answers in the order of the commands, and what an earlier     *)
(* command leaves to read goes back to one that gave up before a prompt.   *)
(* (_send_command)                                                         *)
THEOREM UartInvariant == Spec => []IInv
<1>1. Init => IInv
  BY InitHolds
<1>2. IInv /\ [Next]_vars => IInv'
  <2> SUFFICES ASSUME IInv, [Next]_vars
               PROVE  IInv'
    OBVIOUS
  <2>1. CASE Enter
    BY <2>1, EnterKeeps
  <2>2. CASE Board
    BY <2>2, AnswerKeeps, PromptKeeps, PrintkKeeps, HangupKeeps DEF Board
  <2>3. CASE Tester
    BY <2>3, ResetKeeps, SendKeeps, GivesUpKeeps, IdleKeeps, ReadPieceKeeps,
       ReadPromptLikeKeeps, ReadBreaksOffKeeps DEF Tester
  <2>4. CASE Expires \/ UNCHANGED vars
    BY <2>4, IdleKeeps
  <2> QED
    BY <2>1, <2>2, <2>3, <2>4 DEF Next
<1> QED
  BY <1>1, <1>2, PTL DEF Spec

(* A command whose reset found the shell idle reads its own answer only.   *)
(* (reset_input_buffer in _send_command)                                   *)
THEOREM CleanStartTheorem == Spec => []CleanStart
<1>1. IInv => CleanStart
  BY DEF IInv
<1> QED
  BY <1>1, UartInvariant, PTL

(* The answer of another command is that of an earlier one, and that one   *)
(* or one before it had ended without a prompt.  (_send_command)           *)
THEOREM ForeignAnswerTheorem == Spec => []ForeignAnswerExplained
<1>1. IInv => ForeignAnswerExplained
  BY DEF IInv
<1> QED
  BY <1>1, UartInvariant, PTL

(* A success of test_console_interaction rests on the command's own        *)
(* answer, an earlier command that gave up, or a pattern that matches a    *)
(* prompt or a message of the kernel.                                      *)
THEOREM SuccessTheorem == Spec => []SuccessExplained
<1>1. IInv => SuccessExplained
  BY DEF IInv
<1> QED
  BY <1>1, UartInvariant, PTL

(* A wrong checksum of test_data_integrity is a late answer: an earlier    *)
(* command had ended without a prompt.                                     *)
THEOREM MismatchTheorem == Spec => []MismatchExplained
<1>1. IInv => MismatchExplained
  BY DEF IInv
<1> QED
  BY <1>1, UartInvariant, PTL
=============================================================================

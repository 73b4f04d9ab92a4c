------------------------- MODULE BootValidatorProofs -------------------------
(***************************************************************************)
(* Proofs about BootValidator, for whatever the console may write, every   *)
(* timeout, and any number of tests and cycles: its inductive invariant    *)
(* IInv, and what a validation judges and what its results mean.           *)
(***************************************************************************)
EXTENDS BootValidator, SequenceTheorems, TLAPS

USE BootValidatorAssumption

-----------------------------------------------------------------------------
(* Numbers, texts and stages.                                              *)

LEMMA Products ==
  ASSUME NEW a \in Nat, NEW b \in Nat, NEW c \in Nat
  PROVE  /\ a * c \in Nat
         /\ (a + 1) * c = a * c + c
         /\ a <= b => a * c <= b * c
OBVIOUS

MaxBoots == MaxTests * MaxCycles

LEMMA MaxBootsIsNat == MaxBoots \in Nat
BY Products DEF MaxBoots

(* The stage of a line is one its text may match, if there is one.         *)
LEMMA StageFound ==
  ASSUME NEW ws \in SUBSET Written, DetectStage(ws) # "none"
  PROVE  /\ DetectStage(ws) \in Stages
         /\ \E w \in ws : DetectStage(ws) \in w.text.stages
<1> DEFINE found == UNION {w.text.stages : w \in ws}
           s == CHOOSE r \in found : \A t \in found : Rank[r] <= Rank[t]
<1>1. found \subseteq Stages
  <2> SUFFICES ASSUME NEW w \in ws
               PROVE  w.text.stages \subseteq Stages
    OBVIOUS
  <2>1. w.text \in Texts
    BY DEF Written
  <2> QED
    BY <2>1
<1>2. found # {} /\ DetectStage(ws) = s
  BY DEF DetectStage
<1>3. \E r \in found : \A t \in found : Rank[r] <= Rank[t]
  <2> HIDE DEF found
  <2> USE <1>1 DEF Stages, Rank
  <2>1. CASE "fsbl" \in found
    BY <2>1
  <2>2. CASE "fsbl" \notin found /\ "u_boot" \in found
    BY <2>2
  <2>3. CASE found \cap {"fsbl", "u_boot"} = {} /\ "kernel" \in found
    BY <2>3
  <2>4. CASE found \cap {"fsbl", "u_boot", "kernel"} = {} /\ "userspace" \in found
    BY <2>4
  <2>5. CASE found \subseteq {"login_ready"}
    <3>1. found = {"login_ready"}
      BY <1>2, <2>5
    <3> QED
      BY <3>1
  <2> QED
    BY <2>1, <2>2, <2>3, <2>4, <2>5
<1>4. s \in found
  BY <1>3, Zenon
<1> HIDE DEF s
<1> QED
  BY <1>1, <1>2, <1>4

(* TypeOK in three parts: the connection, the tests, the validator.        *)
TestTypes ==
  /\ boot \in 0..MaxBoots
  /\ test \in {"none", "validation", "reliability"}
  /\ phase \in {"none", "ready", "resetting", "looping", "reading", "done"}
  /\ tests \in 0..MaxTests
  /\ cycle \in 0..MaxCycles
  /\ successes \in 0..cycle
  /\ verdict \in {"none", "passed", "failed"}
  /\ criteria \in Criteria

Metrics == [found : SUBSET Messages, errors : Nat, elapsed : 0..Timeout,
            lines : 0..2, boots : SUBSET (0..MaxBoots)]

ValidatorTypes ==
  /\ current_stage \in Stages \cup {"pre_boot"}
  /\ clock \in 0..Late
  /\ metrics \in Metrics
  /\ result \in {"none", "passed", "timeout", "raised", "rejected"}
  /\ login \in {"unseen", "dropped", "masked", "read"}
  /\ loginBefore \in BOOLEAN

LEMMA TypeParts ==
  TypeOK <=> Serial!SerialTypeOK /\ TestTypes /\ ValidatorTypes
BY DEF TypeOK, TestTypes, ValidatorTypes, Metrics, MaxBoots

LEMMA TypePartsNext ==
  TypeOK' <=> Serial!SerialTypeOK' /\ TestTypes' /\ ValidatorTypes'
BY DEF TypeOK, TestTypes, ValidatorTypes, Metrics, MaxBoots

LEMMA NoMetricsType ==
  /\ NoMetrics \in Metrics
  /\ NoMetrics.boots = {} /\ NoMetrics.lines = 0
BY MaxBootsIsNat DEF NoMetrics, Metrics

(* What a line adds to the metrics.                                        *)
LEMMA AddMessageFacts ==
  ASSUME metrics \in Metrics, NEW ws \in SUBSET Written
  PROVE  /\ AddMessage(metrics, ws) \in Metrics
         /\ metrics.lines = 0 => AddMessage(metrics, ws).lines = 1
         /\ AddMessage(metrics, ws).boots = metrics.boots \cup {w.boot : w \in ws}
<1> DEFINE m == AddMessage(metrics, ws)
           says == IF MessageType(ws) = "info"
                   THEN UNION {w.text.says : w \in ws} ELSE {}
           e == IF MessageType(ws) = "error" /\ metrics.errors <= criteria.max_errors
                THEN metrics.errors + 1 ELSE metrics.errors
           l == IF metrics.lines < 2 THEN metrics.lines + 1 ELSE metrics.lines
           b == {w.boot : w \in ws}
<1>1. /\ metrics.found \subseteq Messages /\ metrics.errors \in Nat
      /\ metrics.elapsed \in 0..Timeout /\ metrics.lines \in 0..2
      /\ metrics.boots \subseteq 0..MaxBoots
      /\ metrics = [found |-> metrics.found, errors |-> metrics.errors,
                    elapsed |-> metrics.elapsed, lines |-> metrics.lines,
                    boots |-> metrics.boots]
  BY DEF Metrics
<1>2. \A w \in ws : w.text \in Texts /\ w.boot \in 0..MaxBoots
  BY DEF Written, MaxBoots
<1>3. says \subseteq Messages
  BY <1>2 DEF Messages
<1>4. e \in Nat
  BY <1>1
<1>5. l \in 0..2 /\ (metrics.lines = 0 => l = 1)
  BY <1>1
<1>6. b \subseteq 0..MaxBoots
  BY <1>2
<1>7. m = [metrics EXCEPT !.found = @ \cup says, !.errors = e, !.lines = l,
                          !.boots = @ \cup b]
  BY DEF AddMessage
<1> HIDE DEF m, says, e, l, b
<1>8. m = [found |-> metrics.found \cup says, errors |-> e,
           elapsed |-> metrics.elapsed, lines |-> l,
           boots |-> metrics.boots \cup b]
  BY <1>1, <1>7
<1>9. m \in Metrics
  BY <1>1, <1>3, <1>4, <1>5, <1>6, <1>8 DEF Metrics
<1> QED
  BY <1>5, <1>8, <1>9 DEF m, b

(* The pieces that wait are pieces, and so is what is left of them.        *)
LEMMA WirePieces ==
  ASSUME NEW s \in Seq(Written), NEW b, \A i \in DOMAIN s : s[i].boot = b
  PROVE  /\ \A p \in Written : p.boot = b =>
              /\ Append(s, p) \in Seq(Written)
              /\ \A i \in DOMAIN Append(s, p) : Append(s, p)[i].boot = b
         /\ s # <<>> =>
              /\ Head(s) \in Written /\ Head(s).boot = b
              /\ Tail(s) \in Seq(Written)
              /\ \A i \in DOMAIN Tail(s) : Tail(s)[i].boot = b
<1>1. ASSUME NEW p \in Written, p.boot = b
      PROVE  /\ Append(s, p) \in Seq(Written)
             /\ \A i \in DOMAIN Append(s, p) : Append(s, p)[i].boot = b
  BY <1>1, AppendProperties, LenProperties
<1>2. ASSUME s # <<>>
      PROVE  /\ Head(s) \in Written /\ Head(s).boot = b
             /\ Tail(s) \in Seq(Written)
             /\ \A i \in DOMAIN Tail(s) : Tail(s)[i].boot = b
  BY <1>2, HeadTailProperties, LenProperties
<1> QED
  BY <1>1, <1>2

(* The boots that the tests so far may have used up.                       *)
LEMMA BootBound ==
  ASSUME TestTypes, tests > 0
  PROVE  /\ (tests - 1) * MaxCycles \in Nat
         /\ tests * MaxCycles = (tests - 1) * MaxCycles + MaxCycles
         /\ tests * MaxCycles <= MaxBoots
<1>1. tests \in Nat /\ tests - 1 \in Nat /\ tests <= MaxTests
  BY DEF TestTypes
<1>2. ((tests - 1) + 1) * MaxCycles = (tests - 1) * MaxCycles + MaxCycles
  BY <1>1, Products
<1>3. (tests - 1) + 1 = tests
  BY <1>1
<1>4. tests * MaxCycles <= MaxTests * MaxCycles
  BY <1>1, Products
<1>5. (tests - 1) * MaxCycles \in Nat
  BY <1>1, Products
<1> QED
  BY <1>2, <1>3, <1>4, <1>5 DEF MaxBoots

-----------------------------------------------------------------------------
(* The connection and the console.                                         *)

LEMMA EmptyWire == <<>> \in Seq(Written)
OBVIOUS

USE DEF Serial!SerialTypeOK

LEMMA ConsoleKeeps ==
  ASSUME IInv, Console
  PROVE  IInv'
<1> USE DEF IInv
<1>1. PICK t \in Texts :
        Serial!Arrives([text |-> t, boot |-> boot, ended |-> t.ended])
  BY DEF Console
<1> DEFINE p == [text |-> t, boot |-> boot, ended |-> t.ended]
<1>2. p \in Written /\ p.boot = boot
  BY TypeParts DEF Written, TestTypes, MaxBoots
<1>3. /\ wire' = Append(wire, p)
      /\ UNCHANGED <<is_open, line, peer>>
      /\ UNCHANGED <<boot, testVars, phase, current_stage, clock, metrics, result,
                     login, loginBefore>>
  BY <1>1 DEF Console, Serial!Arrives
<1>4. wire \in Seq(Written) /\ wire' \in Seq(Written)
  BY <1>2, <1>3, TypeParts, AppendProperties
<1>5. phase \in {"looping", "reading"} =>
        \A i \in DOMAIN wire' : wire'[i].boot = boot
  BY <1>2, <1>3, <1>4, WirePieces DEF OwnInv
<1> HIDE DEF p
<1>6. Serial!SerialTypeOK' /\ TestTypes' /\ ValidatorTypes'
  BY <1>3, <1>4, TypeParts DEF TestTypes, ValidatorTypes, testVars
<1>7. BootInv' /\ StageInv' /\ JudgesOwnBoot' /\ StalePassExplained'
        /\ LoginNotMissed'
  BY <1>3 DEF BootInv, StageInv, JudgesOwnBoot, StalePassExplained,
              LoginNotMissed, Validating, testVars
<1>8. OwnInv'
  BY <1>3, <1>5 DEF OwnInv, Validating
<1> QED
  BY <1>6, <1>7, <1>8, TypePartsNext

LEMMA HangupKeeps ==
  ASSUME IInv, Hangup
  PROVE  IInv'
<1> USE DEF IInv
<1>1. /\ peer' \in {"closed", "reset"}
      /\ wire' = wire \/ wire' = <<>>
      /\ UNCHANGED <<is_open, line>>
      /\ UNCHANGED <<boot, testVars, phase, current_stage, clock, metrics, result,
                     login, loginBefore>>
  BY DEF Hangup, Serial!PeerEnds
<1>2. Serial!SerialTypeOK' /\ TestTypes' /\ ValidatorTypes'
  <2>1. wire' \in Seq(Written)
    BY <1>1, TypeParts, EmptyWire
  <2>2. Serial!SerialTypeOK'
    BY <1>1, <2>1, TypeParts
  <2>3. TestTypes' /\ ValidatorTypes'
    BY <1>1, TypeParts DEF TestTypes, ValidatorTypes, testVars
  <2> QED
    BY <2>2, <2>3
<1>3. BootInv' /\ StageInv' /\ JudgesOwnBoot' /\ StalePassExplained'
        /\ LoginNotMissed'
  BY <1>1 DEF BootInv, StageInv, JudgesOwnBoot, StalePassExplained,
              LoginNotMissed, Validating, testVars
<1>4. OwnInv'
  BY <1>1 DEF OwnInv, Validating
<1> QED
  BY <1>2, <1>3, <1>4, TypePartsNext

-----------------------------------------------------------------------------
(* The tests.                                                              *)

LEMMA EnterKeeps ==
  ASSUME IInv, NEW t \in {"validation", "reliability"}, Enter(t)
  PROVE  IInv'
<1> USE DEF IInv
<1>1. /\ phase = "none" /\ tests < MaxTests /\ tests' = tests + 1
      /\ phase' \in {"none", "ready"}
      /\ current_stage' = "pre_boot"
      /\ cycle' = 0 /\ successes' = 0
      /\ metrics' = NoMetrics /\ result' = "none" /\ login' = "unseen"
      /\ loginBefore' = FALSE
      /\ UNCHANGED <<boot, criteria, clock>>
  BY DEF Enter, NewValidator
<1>2. test' \in {test, t} /\ verdict' \in {verdict, "failed"}
  BY DEF Enter
<1>3. Serial!SerialTypeOK'
  BY TypeParts, EmptyWire
     DEF Enter, Serial!Open, Serial!OpenFails, Serial!serialVars
<1>4. TestTypes'
  BY <1>1, <1>2, TypeParts DEF TestTypes
<1>5. ValidatorTypes'
  BY <1>1, TypeParts, NoMetricsType DEF ValidatorTypes
<1>6. BootInv'
  <2>1. tests \in Nat /\ boot \in Nat /\ MaxCycles \in Nat /\ boot <= tests * MaxCycles
    BY <1>1, TypeParts, MaxBootsIsNat DEF TestTypes, BootInv
  <2>2. /\ tests * MaxCycles \in Nat
        /\ (tests + 1) * MaxCycles = tests * MaxCycles + MaxCycles
    BY <2>1, Products
  <2>3. tests' - 1 = tests
    BY <1>1, <2>1
  <2>4. (tests' - 1) * MaxCycles = tests * MaxCycles
    BY <2>3
  <2>5. boot' <= tests' * MaxCycles
    BY <1>1, <2>1, <2>2
  <2>6. boot' <= (tests' - 1) * MaxCycles + cycle'
    BY <1>1, <2>1, <2>2, <2>4
  <2>7. ~Validating' /\ tests' > 0
    BY <1>1, <2>1 DEF Validating
  <2> QED
    BY <2>5, <2>6, <2>7, <1>1, <2>1, <2>2, <2>4 DEF BootInv
<1>7. OwnInv' /\ StageInv' /\ JudgesOwnBoot' /\ StalePassExplained'
        /\ LoginNotMissed'
  BY <1>1 DEF OwnInv, StageInv, JudgesOwnBoot, StalePassExplained,
              LoginNotMissed, Validating
<1> QED
  BY <1>3, <1>4, <1>5, <1>6, <1>7, TypePartsNext

(* A validation begins: of the boot under way, or of the next one.         *)
LEMMA StartsKeep ==
  ASSUME IInv, phase = "ready", StartValidation, TestTypes', BootInv',
         UNCHANGED <<consoleVars, testVars, current_stage, loginBefore>>
  PROVE  IInv'
<1> USE DEF IInv
<1>1. /\ phase' = "resetting" /\ clock' = 0 /\ metrics' = NoMetrics
      /\ result' = "none" /\ login' = "unseen"
      /\ UNCHANGED <<is_open, wire, line, peer, current_stage, loginBefore>>
  BY DEF StartValidation, consoleVars
<1>2. Serial!SerialTypeOK'
  BY <1>1, TypeParts
<1>3. ValidatorTypes'
  BY <1>1, TypeParts, NoMetricsType DEF ValidatorTypes, Late
<1>4. OwnInv'
  BY <1>1 DEF OwnInv
<1>5. StageInv' /\ JudgesOwnBoot' /\ StalePassExplained' /\ LoginNotMissed'
  BY <1>1, NoMetricsType DEF StageInv, JudgesOwnBoot, StalePassExplained,
                             LoginNotMissed
<1> QED
  BY <1>2, <1>3, <1>4, <1>5, TypePartsNext

LEMMA ValidateKeeps ==
  ASSUME IInv, Validate
  PROVE  IInv'
<1> USE DEF IInv
<1>1. /\ phase = "ready" /\ test = "validation" /\ phase' = "resetting"
      /\ StartValidation
      /\ UNCHANGED <<consoleVars, testVars, current_stage, loginBefore>>
      /\ UNCHANGED <<boot, test, tests, cycle, successes, verdict, criteria>>
  BY DEF Validate, StartValidation, testVars
<1>2. TestTypes'
  BY <1>1, TypeParts DEF TestTypes
<1>3. BootInv'
  BY <1>1 DEF BootInv, Validating
<1> QED
  BY <1>1, <1>2, <1>3, StartsKeep

LEMMA CycleAndValidateKeeps ==
  ASSUME IInv, CycleAndValidate
  PROVE  IInv'
<1> USE DEF IInv
<1>1. /\ phase = "ready" /\ test = "reliability" /\ phase' = "resetting"
      /\ cycle < MaxCycles /\ boot' = boot + 1
      /\ StartValidation
      /\ UNCHANGED <<consoleVars, testVars, current_stage, loginBefore>>
      /\ UNCHANGED <<test, tests, cycle, successes, verdict, criteria>>
  BY DEF CycleAndValidate, StartValidation, testVars
<1>2. tests > 0 /\ boot <= (tests - 1) * MaxCycles + cycle
  BY <1>1, TypeParts, BootBound DEF BootInv, Validating, TestTypes
<1>3. /\ boot \in Nat /\ cycle \in Nat /\ MaxBoots \in Nat
      /\ (tests - 1) * MaxCycles \in Nat
      /\ tests * MaxCycles = (tests - 1) * MaxCycles + MaxCycles
      /\ tests * MaxCycles <= MaxBoots
  BY <1>2, TypeParts, BootBound, MaxBootsIsNat DEF TestTypes
<1>4. boot + 1 \in 0..MaxBoots
  <2> DEFINE P == (tests - 1) * MaxCycles
             Q == tests * MaxCycles
  <2>1. P \in Nat /\ Q = P + MaxCycles /\ Q <= MaxBoots /\ boot <= P + cycle
    BY <1>2, <1>3
  <2> HIDE DEF P, Q
  <2> QED
    BY <1>1, <1>3, <2>1
<1>5. TestTypes'
  BY <1>1, <1>4, TypeParts DEF TestTypes
<1>6. boot' <= (tests' - 1) * MaxCycles + cycle' + 1
  BY <1>1, <1>2, <1>3
<1>7. BootInv'
  BY <1>1, <1>2, <1>6 DEF BootInv, Validating
<1> QED
  BY <1>1, <1>5, <1>7, StartsKeep

LEMMA CycleFailsKeeps ==
  ASSUME IInv, CycleFails
  PROVE  IInv'
<1> USE DEF IInv
<1>1. /\ phase = "ready" /\ phase' = "ready" /\ test = "reliability"
      /\ cycle < MaxCycles /\ boot' \in {boot, boot + 1}
      /\ cycle' = cycle + 1 /\ result' = "none"
      /\ UNCHANGED <<is_open, wire, line, peer, test, tests, successes, verdict,
                     criteria, current_stage, clock, metrics, login,
                     loginBefore>>
  BY DEF CycleFails, consoleVars
<1>2. tests > 0 /\ boot <= (tests - 1) * MaxCycles + cycle
  BY <1>1, TypeParts, BootBound DEF BootInv, Validating, TestTypes
<1>3. /\ boot \in Nat /\ cycle \in Nat /\ MaxBoots \in Nat
      /\ (tests - 1) * MaxCycles \in Nat
      /\ tests * MaxCycles = (tests - 1) * MaxCycles + MaxCycles
      /\ tests * MaxCycles <= MaxBoots
  BY <1>2, TypeParts, BootBound, MaxBootsIsNat DEF TestTypes
<1>4. boot' \in 0..MaxBoots /\ boot' <= (tests - 1) * MaxCycles + cycle + 1
  <2> DEFINE P == (tests - 1) * MaxCycles
             Q == tests * MaxCycles
  <2>1. P \in Nat /\ Q = P + MaxCycles /\ Q <= MaxBoots /\ boot <= P + cycle
    BY <1>2, <1>3
  <2> HIDE DEF P, Q
  <2>2. boot' \in 0..MaxBoots /\ boot' <= P + cycle + 1
    BY <1>1, <1>3, <2>1
  <2> QED
    BY <2>2 DEF P
<1>5. TestTypes'
  BY <1>1, <1>4, TypeParts DEF TestTypes
<1>6. Serial!SerialTypeOK' /\ ValidatorTypes'
  BY <1>1, TypeParts DEF ValidatorTypes
<1>7. boot' <= (tests' - 1) * MaxCycles + cycle'
  BY <1>1, <1>3, <1>4
<1>8. BootInv'
  BY <1>1, <1>2, <1>3, <1>7 DEF BootInv, Validating
<1>9. OwnInv' /\ StageInv' /\ JudgesOwnBoot' /\ StalePassExplained'
        /\ LoginNotMissed'
  BY <1>1 DEF OwnInv, StageInv, JudgesOwnBoot, StalePassExplained,
              LoginNotMissed, Validating
<1> QED
  BY <1>5, <1>6, <1>8, <1>9, TypePartsNext

LEMMA LeaveKeeps ==
  ASSUME IInv, Leave
  PROVE  IInv'
<1> USE DEF IInv
<1>1. /\ phase \in {"ready", "done"} /\ phase' = "none" /\ test' = "none"
      /\ verdict' \in {"passed", "failed"}
      /\ is_open' = FALSE /\ wire' = <<>> /\ line' = {}
      /\ UNCHANGED <<peer, boot, tests, cycle, successes, criteria,
                     current_stage, clock, metrics, result, login, loginBefore>>
  BY DEF Leave, Serial!Close
<1>2. Serial!SerialTypeOK' /\ TestTypes' /\ ValidatorTypes'
  BY <1>1, TypeParts, EmptyWire DEF TestTypes, ValidatorTypes
<1>3. tests > 0 /\ boot <= (tests - 1) * MaxCycles + cycle
  BY <1>1, TypeParts, BootBound DEF BootInv, Validating, TestTypes
<1>4. boot <= tests * MaxCycles
  <2>1. /\ (tests - 1) * MaxCycles \in Nat
        /\ tests * MaxCycles = (tests - 1) * MaxCycles + MaxCycles
        /\ cycle \in Nat /\ cycle <= MaxCycles /\ boot \in Nat
    BY <1>3, TypeParts, BootBound, MaxBootsIsNat DEF TestTypes
  <2> QED
    BY <1>3, <2>1
<1>5. BootInv'
  BY <1>1, <1>4 DEF BootInv, Validating
<1>6. OwnInv' /\ StageInv' /\ JudgesOwnBoot' /\ StalePassExplained'
        /\ LoginNotMissed'
  BY <1>1 DEF OwnInv, StageInv, JudgesOwnBoot, StalePassExplained,
              LoginNotMissed, Validating
<1> QED
  BY <1>2, <1>5, <1>6, TypePartsNext

-----------------------------------------------------------------------------
(* The validation.                                                         *)

(* What the end of a validation leaves of the tests.                       *)
LEMMA EndsKeepsTests ==
  ASSUME IInv, phase \in {"looping", "reading"}, NEW r, Ends(r), boot' = boot
  PROVE  /\ TestTypes' /\ BootInv'
         /\ ~Validating' /\ phase' \in {"ready", "done"}
         /\ result' = r /\ loginBefore' = (loginBefore \/ login' = "read")
<1> USE DEF IInv
<1>1. /\ result' = r /\ loginBefore' = (loginBefore \/ login' = "read")
      /\ UNCHANGED <<test, tests, verdict, criteria>>
      /\ phase' \in {"ready", "done"}
  BY DEF Ends
<1>2. ~Validating'
  BY <1>1 DEF Validating
<1>3. /\ boot \in Nat /\ tests > 0 /\ cycle \in Nat
      /\ (tests - 1) * MaxCycles \in Nat
      /\ test = "reliability" => cycle < MaxCycles
      /\ boot <= (tests - 1) * MaxCycles + cycle
                   + (IF test = "reliability" THEN 1 ELSE 0)
  BY TypeParts, BootBound, MaxBootsIsNat DEF BootInv, Validating, TestTypes
<1>4. CASE test = "reliability"
  <2>1. /\ cycle' = cycle + 1
        /\ successes' \in {successes, successes + 1}
    <3>1. successes' = successes + IF r = "passed" THEN 1 ELSE 0
      BY <1>4 DEF Ends
    <3>2. successes \in Nat
      BY TypeParts DEF TestTypes
    <3>3. cycle' = cycle + 1
      BY <1>4 DEF Ends
    <3> QED
      BY <3>1, <3>2, <3>3
  <2>2. TestTypes'
    BY <1>1, <1>3, <1>4, <2>1, TypeParts DEF TestTypes
  <2>3. boot' <= (tests' - 1) * MaxCycles + cycle'
    BY <1>1, <1>3, <1>4, <2>1
  <2>4. boot' <= (tests' - 1) * MaxCycles + cycle' + 0
    BY <1>1, <1>3, <2>1, <2>3
  <2>5. BootInv'
    BY <1>1, <1>2, <1>3, <2>4, Zenon DEF BootInv
  <2> QED
    BY <1>1, <1>2, <2>2, <2>5
<1>5. CASE test # "reliability"
  <2>1. UNCHANGED <<cycle, successes>>
    BY <1>5 DEF Ends
  <2>2. TestTypes'
    BY <1>1, <2>1, TypeParts DEF TestTypes
  <2>3. boot' <= (tests' - 1) * MaxCycles + cycle'
    BY <1>1, <1>3, <1>5, <2>1
  <2>4. boot' <= (tests' - 1) * MaxCycles + cycle' + 0
    BY <1>1, <1>3, <2>1, <2>3
  <2>5. BootInv'
    BY <1>1, <1>2, <1>3, <2>4, Zenon DEF BootInv
  <2> QED
    BY <1>1, <1>2, <2>2, <2>5
<1> QED
  BY <1>4, <1>5

(* A step of the validation that goes on leaves the tests alone.           *)
LEMMA GoesKeepsTests ==
  ASSUME IInv, Validating, NEW p \in {"resetting", "looping", "reading"},
         Goes(p), boot' = boot
  PROVE  /\ TestTypes' /\ BootInv' /\ Validating'
         /\ phase' = p /\ UNCHANGED <<result, loginBefore>>
<1> USE DEF IInv
<1>1. /\ phase' = p /\ UNCHANGED <<result, loginBefore>>
      /\ UNCHANGED <<test, tests, cycle, successes, verdict, criteria>>
  BY DEF Goes, testVars
<1>2. TestTypes'
  BY <1>1, TypeParts DEF TestTypes
<1>3. Validating' /\ phase # "none"
  BY <1>1 DEF Validating
<1>4. BootInv'
  BY <1>1, <1>3 DEF BootInv
<1> QED
  BY <1>1, <1>2, <1>3, <1>4

LEMMA ResetKeeps ==
  ASSUME IInv, Reset
  PROVE  IInv'
<1> USE DEF IInv
<1>1. /\ phase = "resetting" /\ Validating /\ wire' = <<>> /\ line' = line
      /\ is_open' = is_open
      /\ UNCHANGED <<boot, current_stage, clock, metrics>>
      /\ peer' \in {peer, "closed"}
  BY DEF Reset, Validating, Serial!Drain, Serial!Drained, Serial!Reported
<1>2. login' \in {login, "dropped"}
  BY DEF Reset
<1>3. PICK p \in {"resetting", "looping"} : Goes(p)
  BY DEF Reset
<1>4. /\ TestTypes' /\ BootInv' /\ Validating'
      /\ phase' = p /\ UNCHANGED <<result, loginBefore>>
  BY <1>1, <1>3, GoesKeepsTests
<1>5. Serial!SerialTypeOK' /\ ValidatorTypes'
  BY <1>1, <1>2, <1>4, TypeParts, EmptyWire DEF ValidatorTypes
<1>6. OwnInv'
  BY <1>1, <1>2, <1>4 DEF OwnInv
<1>7. StageInv' /\ JudgesOwnBoot' /\ StalePassExplained' /\ LoginNotMissed'
  BY <1>1, <1>2, <1>4
     DEF OwnInv, StageInv, JudgesOwnBoot, StalePassExplained, LoginNotMissed
<1> QED
  BY <1>4, <1>5, <1>6, <1>7, TypePartsNext

LEMMA CheckDeadlineKeeps ==
  ASSUME IInv, CheckDeadline
  PROVE  IInv'
<1> USE DEF IInv
<1>1. /\ phase = "looping" /\ Validating
      /\ UNCHANGED <<boot, current_stage, clock>>
  BY DEF CheckDeadline, Validating
<1>2. result = "none" /\ login # "read" /\ metrics.boots \subseteq {boot}
  BY <1>1 DEF OwnInv, JudgesOwnBoot
<1>3. CASE clock > Timeout
  <2>1. Ends("timeout") /\ UNCHANGED <<consoleVars, metrics, login>>
    BY <1>3 DEF CheckDeadline
  <2>2. /\ TestTypes' /\ BootInv' /\ ~Validating' /\ phase' \in {"ready", "done"}
        /\ result' = "timeout"
        /\ loginBefore' = (loginBefore \/ login' = "read")
    BY <1>1, <2>1, EndsKeepsTests
  <2>3. Serial!SerialTypeOK'
    BY <2>1, TypeParts DEF consoleVars
  <2>4. ValidatorTypes'
    <3>1. loginBefore' \in BOOLEAN
      BY <2>2, Zenon
    <3> QED
      BY <1>1, <2>1, <2>2, <3>1, TypeParts DEF ValidatorTypes
  <2>5. OwnInv' /\ StageInv' /\ JudgesOwnBoot' /\ StalePassExplained'
          /\ LoginNotMissed'
    BY <1>1, <1>2, <2>1, <2>2
       DEF OwnInv, StageInv, JudgesOwnBoot, StalePassExplained, LoginNotMissed
  <2> QED
    BY <2>2, <2>3, <2>4, <2>5, TypePartsNext
<1>4. CASE ~(clock > Timeout)
  <2>1. /\ metrics' = [metrics EXCEPT !.elapsed = clock]
        /\ line' = {} /\ UNCHANGED <<is_open, wire, peer, login>>
        /\ Goes("reading")
    BY <1>4 DEF CheckDeadline, Serial!StartLine
  <2>2. /\ TestTypes' /\ BootInv' /\ Validating'
        /\ phase' = "reading" /\ UNCHANGED <<result, loginBefore>>
    BY <1>1, <2>1, GoesKeepsTests
  <2>3. metrics \in Metrics /\ clock \in 0..Timeout
    BY <1>4, TypeParts DEF ValidatorTypes, Late
  <2>4. /\ metrics' \in Metrics
        /\ metrics'.boots = metrics.boots /\ metrics'.lines = metrics.lines
    BY <2>1, <2>3 DEF Metrics
  <2>5. Serial!SerialTypeOK'
    BY <2>1, TypeParts
  <2>6. ValidatorTypes'
    BY <1>1, <2>1, <2>2, <2>4, TypeParts DEF ValidatorTypes
  <2>7. OwnInv'
    BY <1>1, <1>2, <2>1, <2>2 DEF OwnInv
  <2>8. StageInv' /\ JudgesOwnBoot' /\ StalePassExplained' /\ LoginNotMissed'
    BY <1>1, <1>2, <2>1, <2>2, <2>4
       DEF StageInv, JudgesOwnBoot, StalePassExplained, LoginNotMissed
  <2> QED
    BY <2>2, <2>5, <2>6, <2>7, <2>8, TypePartsNext
<1> QED
  BY <1>3, <1>4

(* A line of the boot is judged: if it ends the validation as a pass       *)
(* without a login line, the stage of an earlier boot did it.              *)
LEMMA JudgeKeeps ==
  ASSUME IInv, phase = "reading", NEW ws \in SUBSET Written,
         \A w \in ws : w.boot = boot,
         metrics' = AddMessage(metrics, ws),
         TransitionToStage(DetectStage(ws)),
         login' = Fate(ws, DetectStage(ws)),
         IF current_stage' = "login_ready"
         THEN Ends(IF Acceptable(AddMessage(metrics, ws)) THEN "passed"
                   ELSE "rejected")
         ELSE Goes("looping"),
         Serial!SerialTypeOK', \A i \in DOMAIN wire' : wire'[i].boot = boot,
         UNCHANGED <<boot, clock>>
  PROVE  IInv'
<1> USE DEF IInv
<1> DEFINE s == DetectStage(ws)
<1>1. Validating /\ result = "none" /\ login # "read"
        /\ metrics.boots \subseteq {boot}
  BY DEF OwnInv, JudgesOwnBoot, Validating
<1>2. /\ metrics' \in Metrics
      /\ metrics.lines = 0 => metrics'.lines = 1
      /\ metrics'.boots \subseteq {boot}
  <2>1. metrics \in Metrics
    BY TypeParts DEF ValidatorTypes
  <2>2. {w.boot : w \in ws} \subseteq {boot}
    OBVIOUS
  <2> QED
    BY <1>1, <2>1, <2>2, AddMessageFacts
<1>3. current_stage' \in Stages \cup {"pre_boot"}
        /\ (s # "none" => current_stage' = s)
        /\ (s = "none" => current_stage' = current_stage)
  <2>1. current_stage \in Stages \cup {"pre_boot"}
    BY TypeParts DEF ValidatorTypes
  <2>2. s # "none" => s \in Stages
    BY StageFound
  <2>3. current_stage' = IF s = "none" THEN current_stage ELSE s
    BY DEF TransitionToStage
  <2> HIDE DEF s
  <2> QED
    BY <2>1, <2>2, <2>3
(* A line whose stage is login_ready is a login line of this boot, and it  *)
(* is read as one; no other line is.                                       *)
<1>4. /\ login' \in {"unseen", "dropped", "masked", "read"}
      /\ s = "login_ready" <=> login' = "read"
  <2>1. login' = IF ~OwnLogin(ws) THEN login
                 ELSE IF s = "login_ready" THEN "read" ELSE "masked"
    BY DEF Fate
  <2>2. s = "login_ready" => OwnLogin(ws)
    <3>1. s = "login_ready" => \E w \in ws : s \in w.text.stages
      BY StageFound
    <3> QED
      BY <3>1 DEF OwnLogin
  <2>3. login \in {"unseen", "dropped", "masked", "read"}
    BY TypeParts DEF ValidatorTypes
  <2> HIDE DEF s
  <2> QED
    BY <1>1, <2>1, <2>2, <2>3
<1> HIDE DEF s
<1>5. CASE current_stage' = "login_ready"
  <2>1. PICK r \in {"passed", "rejected"} : Ends(r)
    BY <1>5
  <2>2. /\ TestTypes' /\ BootInv' /\ ~Validating' /\ phase' \in {"ready", "done"}
        /\ result' = r
        /\ loginBefore' = (loginBefore \/ login' = "read")
    BY <2>1, EndsKeepsTests
  <2>3. ValidatorTypes'
    <3>1. loginBefore' \in BOOLEAN
      BY <2>2, Zenon
    <3> QED
      BY <1>2, <1>3, <1>4, <2>2, <3>1, TypeParts DEF ValidatorTypes
  <2>4. login' # "read" => loginBefore /\ metrics'.lines = 1
    <3> SUFFICES ASSUME login' # "read"
                 PROVE  loginBefore /\ metrics'.lines = 1
      OBVIOUS
    <3>1. current_stage = "login_ready"
      BY <1>3, <1>4, <1>5
    <3> QED
      BY <1>1, <1>2, <3>1 DEF StageInv
  <2>5. OwnInv' /\ JudgesOwnBoot' /\ LoginNotMissed'
    BY <1>2, <2>2 DEF OwnInv, JudgesOwnBoot, LoginNotMissed
  <2>6. StageInv' /\ StalePassExplained'
    BY <2>2, <2>4 DEF StageInv, StalePassExplained
  <2> QED
    BY <2>2, <2>3, <2>5, <2>6, TypePartsNext
<1>6. CASE current_stage' # "login_ready"
  <2>1. Goes("looping")
    BY <1>6
  <2>2. /\ TestTypes' /\ BootInv' /\ Validating'
        /\ phase' = "looping" /\ UNCHANGED <<result, loginBefore>>
    BY <1>1, <2>1, GoesKeepsTests
  <2>3. ValidatorTypes'
    BY <1>2, <1>3, <1>4, <2>2, TypeParts DEF ValidatorTypes
  <2>4. login' # "read"
    BY <1>3, <1>4, <1>6
  <2>5. OwnInv'
    BY <1>1, <2>2, <2>4 DEF OwnInv
  <2>6. StageInv' /\ JudgesOwnBoot' /\ StalePassExplained' /\ LoginNotMissed'
    BY <1>1, <1>2, <1>6, <2>2, <2>4
       DEF StageInv, JudgesOwnBoot, StalePassExplained, LoginNotMissed
  <2> QED
    BY <2>2, <2>3, <2>5, <2>6, TypePartsNext
<1> QED
  BY <1>5, <1>6

(* A piece or the end of the line that leaves the line unjudged.           *)
LEMMA ReadsOnKeeps ==
  ASSUME IInv, phase = "reading", NEW p \in {"looping", "reading"}, Goes(p),
         Serial!SerialTypeOK', \A i \in DOMAIN wire' : wire'[i].boot = boot,
         \A w \in line' : w.boot = boot,
         UNCHANGED <<boot, clock, current_stage, metrics, login>>
  PROVE  IInv'
<1> USE DEF IInv
<1>1. Validating
  BY DEF Validating
<1>2. /\ TestTypes' /\ BootInv' /\ Validating'
      /\ phase' = p /\ UNCHANGED <<result, loginBefore>>
  BY <1>1, GoesKeepsTests
<1>3. ValidatorTypes'
  BY <1>2, TypeParts DEF ValidatorTypes
<1>4. OwnInv'
  BY <1>1, <1>2 DEF OwnInv
<1>5. StageInv' /\ JudgesOwnBoot' /\ StalePassExplained' /\ LoginNotMissed'
  BY <1>1, <1>2 DEF StageInv, JudgesOwnBoot, StalePassExplained, LoginNotMissed
<1> QED
  BY <1>2, <1>3, <1>4, <1>5, TypePartsNext

LEMMA ReadPieceKeeps ==
  ASSUME IInv, ReadPiece
  PROVE  IInv'
<1> USE DEF IInv
<1>1. /\ phase = "reading" /\ wire # <<>>
      /\ line' = line \cup {Head(wire)} /\ wire' = Tail(wire)
      /\ UNCHANGED <<is_open, peer, boot, clock>>
  BY DEF ReadPiece, Serial!Take
<1>2. wire \in Seq(Written) /\ line \in SUBSET Written
        /\ \A i \in DOMAIN wire : wire[i].boot = boot
        /\ \A w \in line : w.boot = boot
  BY <1>1, TypeParts DEF OwnInv
<1>3. /\ Head(wire) \in Written /\ Head(wire).boot = boot
      /\ wire' \in Seq(Written)
      /\ \A i \in DOMAIN wire' : wire'[i].boot = boot
  BY <1>1, <1>2, WirePieces
<1>4. /\ line' \in SUBSET Written
      /\ \A w \in line' : w.boot = boot
  BY <1>1, <1>2, <1>3
<1>5. Serial!SerialTypeOK'
  BY <1>1, <1>3, <1>4, TypeParts
<1>6. CASE Serial!LineEnded
  <2> DEFINE ws == line'
  <2>1. /\ metrics' = AddMessage(metrics, ws)
        /\ TransitionToStage(DetectStage(ws))
        /\ login' = Fate(ws, DetectStage(ws))
        /\ IF current_stage' = "login_ready"
           THEN Ends(IF Acceptable(AddMessage(metrics, ws)) THEN "passed"
                     ELSE "rejected")
           ELSE Goes("looping")
    BY <1>6 DEF ReadPiece, Judge
  <2>2. ws \in SUBSET Written /\ \A w \in ws : w.boot = boot
    BY <1>4
  <2> HIDE DEF ws
  <2> QED
    BY <1>1, <1>3, <1>5, <2>1, <2>2, JudgeKeeps
<1>7. CASE ~Serial!LineEnded
  <2>1. Goes("reading") /\ UNCHANGED <<current_stage, metrics, login>>
    BY <1>7 DEF ReadPiece
  <2> QED
    BY <1>1, <1>3, <1>4, <1>5, <2>1, ReadsOnKeeps
<1> QED
  BY <1>6, <1>7

LEMMA ReadTimesOutKeeps ==
  ASSUME IInv, ReadTimesOut
  PROVE  IInv'
<1> USE DEF IInv
<1>1. /\ phase = "reading" /\ wire = <<>>
      /\ UNCHANGED <<is_open, wire, line, peer, boot, clock>>
  BY DEF ReadTimesOut, Serial!LineBreaksOff, Serial!serialVars
<1>2. /\ line \in SUBSET Written /\ \A w \in line : w.boot = boot
      /\ \A i \in DOMAIN wire' : wire'[i].boot = boot
      /\ \A w \in line' : w.boot = boot
  BY <1>1, TypeParts DEF OwnInv
<1>3. Serial!SerialTypeOK'
  BY <1>1, TypeParts
<1>4. CASE line # {}
  <2>1. /\ metrics' = AddMessage(metrics, line)
        /\ TransitionToStage(DetectStage(line))
        /\ login' = Fate(line, DetectStage(line))
        /\ IF current_stage' = "login_ready"
           THEN Ends(IF Acceptable(AddMessage(metrics, line)) THEN "passed"
                     ELSE "rejected")
           ELSE Goes("looping")
    BY <1>4 DEF ReadTimesOut, Judge
  <2> QED
    BY <1>1, <1>2, <1>3, <2>1, JudgeKeeps
<1>5. CASE line = {}
  <2>1. Goes("looping") /\ UNCHANGED <<current_stage, metrics, login>>
    BY <1>5 DEF ReadTimesOut
  <2> QED
    BY <1>1, <1>2, <1>3, <2>1, ReadsOnKeeps
<1> QED
  BY <1>4, <1>5

LEMMA ReadFailsKeeps ==
  ASSUME IInv, ReadFails
  PROVE  IInv'
<1> USE DEF IInv
<1>1. /\ phase = "reading" /\ peer' \in {peer, "closed"} /\ Ends("raised")
      /\ UNCHANGED <<is_open, wire, line, boot, current_stage, clock, metrics,
                     login>>
  BY DEF ReadFails, Serial!ReadRaises, Serial!Reported
<1>2. /\ Validating /\ login # "read" /\ metrics.boots \subseteq {boot}
  BY <1>1 DEF OwnInv, JudgesOwnBoot, Validating
<1>3. /\ TestTypes' /\ BootInv' /\ ~Validating' /\ phase' \in {"ready", "done"}
      /\ result' = "raised"
      /\ loginBefore' = (loginBefore \/ login' = "read")
  BY <1>1, EndsKeepsTests
<1>4. Serial!SerialTypeOK'
  BY <1>1, TypeParts
<1>5. ValidatorTypes'
  <2>1. loginBefore' \in BOOLEAN
    BY <1>3, Zenon
  <2> QED
    BY <1>1, <1>3, <2>1, TypeParts DEF ValidatorTypes
<1>6. OwnInv' /\ StageInv' /\ JudgesOwnBoot' /\ StalePassExplained'
        /\ LoginNotMissed'
  BY <1>1, <1>2, <1>3
     DEF OwnInv, StageInv, JudgesOwnBoot, StalePassExplained, LoginNotMissed
<1> QED
  BY <1>3, <1>4, <1>5, <1>6, TypePartsNext

LEMMA TickKeeps ==
  ASSUME IInv, Tick
  PROVE  IInv'
<1> USE DEF IInv
<1>1. /\ clock < Late /\ clock' = clock + 1
      /\ UNCHANGED <<is_open, wire, line, peer, boot, test, tests, cycle,
                     successes, verdict, criteria, phase, current_stage,
                     metrics, result, login, loginBefore>>
  BY DEF Tick, consoleVars, testVars
<1>2. clock' \in 0..Late
  BY <1>1, TypeParts DEF ValidatorTypes, Late
<1>3. Serial!SerialTypeOK' /\ TestTypes' /\ ValidatorTypes'
  BY <1>1, <1>2, TypeParts DEF TestTypes, ValidatorTypes
<1>4. BootInv' /\ OwnInv' /\ StageInv' /\ JudgesOwnBoot' /\ StalePassExplained'
        /\ LoginNotMissed'
  BY <1>1 DEF BootInv, OwnInv, StageInv, JudgesOwnBoot, StalePassExplained,
              LoginNotMissed, Validating
<1> QED
  BY <1>3, <1>4, TypePartsNext

LEMMA StutterKeeps ==
  ASSUME IInv, UNCHANGED vars
  PROVE  IInv'
<1> USE DEF IInv, vars, consoleVars, testVars
<1>1. Serial!SerialTypeOK' /\ TestTypes' /\ ValidatorTypes'
  BY TypeParts DEF TestTypes, ValidatorTypes
<1>2. BootInv' /\ OwnInv' /\ StageInv' /\ JudgesOwnBoot' /\ StalePassExplained'
        /\ LoginNotMissed'
  BY DEF BootInv, OwnInv, StageInv, JudgesOwnBoot, StalePassExplained,
         LoginNotMissed, Validating
<1> QED
  BY <1>1, <1>2, TypePartsNext

LEMMA InitHolds == Init => IInv
<1> SUFFICES ASSUME Init PROVE IInv
  OBVIOUS
<1> USE DEF Init, Serial!SerialInit
<1>1. Serial!SerialTypeOK
  BY EmptyWire
<1>2. TestTypes
  BY MaxBootsIsNat DEF TestTypes
<1>3. ValidatorTypes
  <2>1. clock \in 0..Late
    BY DEF Late
  <2>2. metrics \in Metrics
    BY NoMetricsType
  <2> QED
    BY <2>1, <2>2 DEF ValidatorTypes
<1>4. BootInv
  <2>1. 0 * MaxCycles \in Nat
    BY Products
  <2> QED
    BY <2>1 DEF BootInv, Validating
<1>5. OwnInv /\ StageInv /\ JudgesOwnBoot /\ StalePassExplained /\ LoginNotMissed
  BY DEF OwnInv, StageInv, JudgesOwnBoot, StalePassExplained, LoginNotMissed,
         Validating
<1> QED
  BY <1>1, <1>2, <1>3, <1>4, <1>5, TypeParts DEF IInv

-----------------------------------------------------------------------------
(* The theorems.                                                           *)

(* Every variable keeps its type, the boots of the session are bounded by  *)
(* its cycles, after the reset of the input buffer there is nothing of an  *)
(* earlier boot to read, and a stage that was left behind is that of a     *)
(* login line and does not survive the next line.  (validate_boot_sequence)*)
THEOREM BootInvariant == Spec => []IInv
<1>1. IInv /\ [Next]_vars => IInv'
  <2> SUFFICES ASSUME IInv, [Next]_vars PROVE IInv'
    OBVIOUS
  <2>1. CASE \E t \in {"validation", "reliability"} : Enter(t)
    BY <2>1, EnterKeeps
  <2>2. CASE Validator
    BY <2>2, ResetKeeps, CheckDeadlineKeeps, ReadPieceKeeps, ReadTimesOutKeeps,
       ReadFailsKeeps DEF Validator
  <2>3. CASE Console \/ Hangup \/ Validate \/ CycleAndValidate \/ CycleFails
               \/ Leave \/ Tick \/ UNCHANGED vars
    BY <2>3, ConsoleKeeps, HangupKeeps, ValidateKeeps, CycleAndValidateKeeps,
       CycleFailsKeeps, LeaveKeeps, TickKeeps, StutterKeeps
  <2> QED
    BY <2>1, <2>2, <2>3 DEF Next
<1> QED
  BY InitHolds, <1>1, PTL DEF Spec

(* Whatever waits in the socket when a validation begins, the lines it     *)
(* judges were written by the boot it validates.  (reset_input_buffer)     *)
THEOREM JudgesOwnBootTheorem == Spec => []JudgesOwnBoot
<1>1. IInv => JudgesOwnBoot
  BY DEF IInv
<1> QED
  BY BootInvariant, <1>1, PTL

(* A pass without a login line of its boot is due to the stage that an     *)
(* earlier validation of the same validator left behind, at the first line *)
(* that was read.  (current_stage of BootValidator, line 136)              *)
THEOREM StalePassTheorem == Spec => []StalePassExplained
<1>1. IInv => StalePassExplained
  BY DEF IInv
<1> QED
  BY BootInvariant, <1>1, PTL

(* A boot whose login line was read as one is never reported as timed out. *)
(* (validate_boot_sequence)                                                *)
THEOREM LoginTheorem == Spec => []LoginNotMissed
<1>1. IInv => LoginNotMissed
  BY DEF IInv
<1> QED
  BY BootInvariant, <1>1, PTL
=============================================================================

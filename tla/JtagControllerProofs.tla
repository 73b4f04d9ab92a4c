------------------------- MODULE JtagControllerProofs -------------------------
(***************************************************************************)
(* Proofs about JtagController, for every set of image files and any       *)
(* number of operations and of tools that outlive them: its inductive      *)
(* invariant IInv, and what a success says of the device.                  *)
(***************************************************************************)
EXTENDS JtagController, SequenceTheorems, TLAPS

USE JtagAssumption

-----------------------------------------------------------------------------
(* Scripts.                                                                *)

LEMMA MethodNames == Methods = {"detect", "bitstream", "boot", "reset"}
BY DEF Methods, Script

(* Taking the first step off a script.                                     *)
LEMMA TailOfOne ==
  ASSUME NEW S, NEW a \in S
  PROVE  Head(<<a>>) = a /\ Tail(<<a>>) = <<>>
<1>1. <<a>> \in Seq(S) /\ <<a>> # <<>> /\ Len(<<a>>) = 1
  OBVIOUS
<1>2. Len(Tail(<<a>>)) = 0 /\ Tail(<<a>>) \in Seq(S)
  BY <1>1, HeadTailProperties
<1> QED
  BY <1>1, <1>2, EmptySeq

LEMMA TailOfTwo ==
  ASSUME NEW S, NEW a \in S, NEW b \in S
  PROVE  Head(<<a, b>>) = a /\ Tail(<<a, b>>) = <<b>>
<1> DEFINE t == Tail(<<a, b>>)
<1>1. /\ <<a, b>> \in Seq(S) /\ <<a, b>> # <<>> /\ Len(<<a, b>>) = 2
      /\ <<b>> \in Seq(S) /\ Len(<<b>>) = 1 /\ <<b>>[1] = b
  OBVIOUS
<1>2. Len(t) = 1 /\ t \in Seq(S) /\ t[1] = b
  BY <1>1, HeadTailProperties
<1> HIDE DEF t
<1>3. \A i \in 1..Len(t) : t[i] = <<b>>[i]
  BY <1>1, <1>2
<1>4. t = <<b>>
  BY <1>1, <1>2, <1>3, SeqEqual
<1> QED
  BY <1>4 DEF t

LEMMA TailOfThree ==
  ASSUME NEW S, NEW a \in S, NEW b \in S, NEW c \in S
  PROVE  Head(<<a, b, c>>) = a /\ Tail(<<a, b, c>>) = <<b, c>>
<1> DEFINE t == Tail(<<a, b, c>>)
           u == <<b, c>>
<1>1. /\ <<a, b, c>> \in Seq(S) /\ <<a, b, c>> # <<>> /\ Len(<<a, b, c>>) = 3
      /\ u \in Seq(S) /\ Len(u) = 2 /\ u[1] = b /\ u[2] = c
  OBVIOUS
<1>2. Len(t) = 2 /\ t \in Seq(S) /\ t[1] = b /\ t[2] = c
  BY <1>1, HeadTailProperties
<1> HIDE DEF t, u
<1>3. \A i \in 1..Len(t) : t[i] = u[i]
  BY <1>1, <1>2
<1>4. t = u
  BY <1>1, <1>2, <1>3, SeqEqual
<1> QED
  BY <1>4 DEF t, u

LEMMA TailsOfScripts ==
  /\ Head(<<"list">>) = "list" /\ Tail(<<"list">>) = <<>>
  /\ Head(<<"verify">>) = "verify" /\ Tail(<<"verify">>) = <<>>
  /\ Head(<<"mark">>) = "mark" /\ Tail(<<"mark">>) = <<>>
  /\ Head(<<"program", "verify">>) = "program"
  /\ Tail(<<"program", "verify">>) = <<"verify">>
  /\ Head(<<"reset", "mark">>) = "reset"
  /\ Tail(<<"reset", "mark">>) = <<"mark">>
  /\ Head(<<"program", "reset", "mark">>) = "program"
  /\ Tail(<<"program", "reset", "mark">>) = <<"reset", "mark">>
<1> DEFINE S == Steps
<1>1. /\ "list" \in S /\ "verify" \in S /\ "mark" \in S
      /\ "program" \in S /\ "reset" \in S
  BY DEF Steps
<1> HIDE DEF S
<1> QED
  BY <1>1, TailOfOne, TailOfTwo, TailOfThree

LEMMA DifferentRests ==
  /\ <<"verify">> # <<>>
  /\ <<"mark">> # <<>>
  /\ <<"reset", "mark">> # <<>> /\ <<"reset", "mark">> # <<"mark">>
  /\ <<"program", "verify">> # <<"verify">>
  /\ <<"program", "reset", "mark">> # <<"mark">>
OBVIOUS

LEMMA RemainingOf ==
  /\ Remaining["detect"] = {<<"list">>, <<>>}
  /\ Remaining["bitstream"] = {<<"program", "verify">>, <<"verify">>, <<>>}
  /\ Remaining["boot"] = {<<"program", "reset", "mark">>, <<"reset", "mark">>,
                          <<"mark">>, <<>>}
  /\ Remaining["reset"] = {<<"reset", "mark">>, <<"mark">>, <<>>}
BY DEF Remaining

(* The tool works through a script from its first step to its last.        *)
LEMMA ScriptIsRemaining ==
  ASSUME NEW m \in Methods
  PROVE  /\ Script[m] \in Remaining[m]
         /\ Script[m] # <<"verify">> /\ Script[m] # <<"mark">>
         /\ Script[m] # <<>>
BY MethodNames, RemainingOf, DifferentRests DEF Script

LEMMA RemainingSteps ==
  ASSUME NEW m \in Methods, NEW s \in Remaining[m]
  PROVE  /\ s \in Seq(Steps)
         /\ s # <<>> => Head(s) \in Steps /\ Tail(s) \in Remaining[m]
<1>1. /\ "list" \in Steps /\ "verify" \in Steps /\ "mark" \in Steps
      /\ "program" \in Steps /\ "reset" \in Steps
  BY DEF Steps
<1>2. \/ s = <<>> \/ s = <<"list">> \/ s = <<"verify">> \/ s = <<"mark">>
      \/ s = <<"program", "verify">> \/ s = <<"reset", "mark">>
      \/ s = <<"program", "reset", "mark">>
  BY MethodNames, RemainingOf
<1>3. s \in Seq(Steps)
  <2>1. /\ <<>> \in Seq(Steps) /\ <<"list">> \in Seq(Steps)
        /\ <<"verify">> \in Seq(Steps) /\ <<"mark">> \in Seq(Steps)
        /\ <<"program", "verify">> \in Seq(Steps)
    BY <1>1
  <2>2. <<"reset", "mark">> \in Seq(Steps)
    BY <1>1
  <2>3. <<"program", "reset", "mark">> \in Seq(Steps)
    BY <1>1
  <2> QED
    BY <1>2, <2>1, <2>2, <2>3
<1>4. s # <<>> => Head(s) \in Steps
  BY <1>1, <1>2, TailsOfScripts
<1>5. ASSUME s # <<>> PROVE Tail(s) \in Remaining[m]
  <2>1. CASE m = "detect"
    BY <1>5, <2>1, RemainingOf, TailsOfScripts
  <2>2. CASE m = "bitstream"
    BY <1>5, <2>2, RemainingOf, TailsOfScripts
  <2>3. CASE m = "boot"
    BY <1>5, <2>3, RemainingOf, TailsOfScripts
  <2>4. CASE m = "reset"
    BY <1>5, <2>4, RemainingOf, TailsOfScripts
  <2> QED
    BY <2>1, <2>2, <2>3, <2>4, MethodNames
<1> QED
  BY <1>3, <1>4, <1>5

LEMMA BitstreamScript ==
  ASSUME NEW s \in Remaining["bitstream"], s # <<>>
  PROVE  \/ Head(s) = "program" /\ Tail(s) = <<"verify">>
         \/ s = <<"verify">> /\ Head(s) = "verify" /\ Tail(s) = <<>>
BY RemainingOf, TailsOfScripts

LEMMA BootScript ==
  ASSUME NEW s \in Remaining["boot"], s # <<>>
  PROVE  \/ Head(s) = "program" /\ Tail(s) = <<"reset", "mark">>
         \/ Head(s) = "reset" /\ Tail(s) = <<"mark">>
         \/ s = <<"mark">> /\ Head(s) = "mark" /\ Tail(s) = <<>>
BY RemainingOf, TailsOfScripts

-----------------------------------------------------------------------------
(* The steps.                                                              *)

LEMMA RequestFacts ==
  ASSUME TypeOK
  PROVE  /\ op.busy \in BOOLEAN /\ op.req \in Requests
         /\ op.req.method \in Methods
         /\ op.req.image \in Images \cup {NoImage}
         /\ op.req.target \in Targets
         /\ op = [busy |-> op.busy, req |-> op.req]
BY DEF TypeOK, Requests

(* What a caller may ask for.                                              *)
Sensible(req) ==
  /\ req \in Requests
  /\ req.target = "boot" =>
       \/ req.method = "bitstream" /\ Suffix[req.image] \in {".bit", ".bin"}
       \/ req.method = "boot"

(* IInv is kept when an operation starts, or its script cannot be written. *)
LEMMA StartKeeps ==
  ASSUME IInv, NEW req, Sensible(req), Start(req)
  PROVE  IInv'
<1>1. /\ ~op.busy /\ calls \in Nat /\ calls < MaxCalls /\ calls' = calls + 1
      /\ scripts' = scripts + 1 /\ scripts = unwritten
      /\ unwritten \in Nat /\ unwritten <= calls
      /\ UNCHANGED <<device, restarted, writer, strays>>
  BY DEF Start, deviceVars, IInv, TypeOK, ScriptInv
<1>2. CASE /\ op' = [busy |-> TRUE, req |-> req]
           /\ steps' = Script[req.method]
           /\ marker' = FALSE
           /\ UNCHANGED <<unwritten, result>>
  <2>1. req.method \in Methods /\ op'.busy /\ op'.req = req
    BY <1>2 DEF Sensible, Requests
  <2>2. /\ steps' \in Remaining[req.method] /\ steps' \in Seq(Steps)
        /\ steps' # <<"verify">> /\ steps' # <<"mark">>
    BY <1>2, <2>1, ScriptIsRemaining, RemainingSteps
  <2>3. TypeOK'
    <3>1. /\ op' \in [busy : BOOLEAN, req : Requests]
          /\ scripts' = unwritten' + 1 /\ calls' \in 0..MaxCalls
      BY <1>1, <1>2 DEF IInv, TypeOK, Sensible
    <3> QED
      BY <1>1, <1>2, <2>1, <2>2, <3>1 DEF IInv, TypeOK
  <2>4. ScriptInv'
    BY <1>1, <1>2, <2>1, <2>2 DEF IInv, ScriptInv, Sensible
  <2>5. DeviceInv'
    BY <1>2, <2>1, <2>2 DEF DeviceInv
  <2>6. FlashedImageLoaded' /\ BootWithoutReset'
    BY <2>1 DEF FlashedImageLoaded, BootWithoutReset, Succeeded
  <2> QED
    BY <2>3, <2>4, <2>5, <2>6 DEF IInv
<1>3. CASE /\ unwritten' = unwritten + 1
           /\ result' = [ok |-> FALSE, req |-> req]
           /\ UNCHANGED <<op, steps, marker>>
  <2>1. TypeOK'
    BY <1>1, <1>3 DEF IInv, TypeOK, Sensible
  <2>2. ScriptInv' /\ DeviceInv'
    BY <1>1, <1>3 DEF IInv, ScriptInv, DeviceInv
  <2>3. FlashedImageLoaded' /\ BootWithoutReset'
    BY <1>3 DEF FlashedImageLoaded, BootWithoutReset, Succeeded
  <2> QED
    BY <2>1, <2>2, <2>3 DEF IInv
<1> QED
  BY <1>2, <1>3 DEF Start

LEMMA FlashImageKeeps ==
  ASSUME IInv, NEW i \in Images, NEW t \in {"fpga", "boot"}, FlashImage(i, t)
  PROVE  IInv'
<1>1. PICK m \in Method(i, t) : Start([method |-> m, image |-> i, target |-> t])
  BY DEF FlashImage
<1>2. m \in Methods
  BY MethodNames DEF Method
<1>3. Sensible([method |-> m, image |-> i, target |-> t])
  BY <1>2 DEF Sensible, Requests, Targets, Method
<1> QED
  BY <1>1, <1>3, StartKeeps

LEMMA DetectOrResetKeeps ==
  ASSUME IInv, DetectDevices \/ ResetDevice
  PROVE  IInv'
<1>1. /\ Sensible([Idle EXCEPT !.method = "detect"])
      /\ Sensible([Idle EXCEPT !.method = "reset"])
  BY MethodNames DEF Sensible, Requests, Idle, Targets
<1> QED
  BY <1>1, StartKeeps DEF DetectDevices, ResetDevice

LEMMA FlashRefusedKeeps ==
  ASSUME IInv, NEW i \in Images, NEW t \in {"fpga", "boot"}, FlashRefused(i, t)
  PROVE  IInv'
<1>1. /\ ~op.busy /\ calls \in Nat /\ calls < MaxCalls /\ calls' = calls + 1
      /\ UNCHANGED <<device, restarted, writer, op, steps, marker, strays,
                     scripts, unwritten>>
      /\ result'.ok = FALSE
  BY DEF FlashRefused, deviceVars, IInv, TypeOK
<1>2. result' \in [ok : BOOLEAN, req : Requests]
  BY MethodNames DEF FlashRefused, Idle, Requests, Targets
<1>3. TypeOK'
  BY <1>1, <1>2 DEF IInv, TypeOK
<1>4. ScriptInv' /\ DeviceInv'
  BY <1>1 DEF IInv, TypeOK, ScriptInv, DeviceInv
<1>5. FlashedImageLoaded' /\ BootWithoutReset'
  BY <1>1 DEF FlashedImageLoaded, BootWithoutReset, Succeeded
<1> QED
  BY <1>3, <1>4, <1>5 DEF IInv

(* IInv is kept when the tool of the operation takes a step.               *)
LEMMA ToolStepsKeeps ==
  ASSUME IInv, ToolSteps
  PROVE  IInv'
<1> DEFINE m == op.req.method
<1>1. /\ op.busy /\ steps # <<>> /\ steps' = Tail(steps)
      /\ UNCHANGED <<op, strays, scripts, unwritten, result, calls>>
  BY DEF ToolSteps
<1>2. m \in Methods /\ steps \in Remaining[m]
  BY <1>1, RequestFacts DEF IInv, ScriptInv
<1>3. /\ Head(steps) \in Steps /\ steps' \in Remaining[m]
      /\ steps' \in Seq(Steps)
  BY <1>1, <1>2, RemainingSteps
<1>4. \/ /\ Head(steps) = "program" /\ device' \in {op.req.image, NoImage}
         /\ restarted' = FALSE /\ writer' = "tool" /\ marker' = marker
      \/ /\ Head(steps) = "reset" /\ device' = device
         /\ restarted' = TRUE /\ writer' = "tool" /\ marker' = marker
      \/ /\ Head(steps) \in {"list", "verify", "mark"}
         /\ UNCHANGED <<device, restarted, writer>>
         /\ Head(steps) = "list" => marker' \in BOOLEAN
         /\ Head(steps) = "verify" => marker' = (device # NoImage)
         /\ Head(steps) = "mark" => marker' = TRUE
  BY <1>3 DEF ToolSteps, Touch, deviceVars
<1>5. TypeOK'
  BY <1>1, <1>3, <1>4, RequestFacts DEF IInv, TypeOK
<1>6. ScriptInv'
  BY <1>1, <1>3 DEF IInv, ScriptInv
<1>7. DeviceInv'
  <2>1. CASE m = "bitstream"
    <3>1. marker = FALSE
      BY <1>1, <2>1 DEF IInv, DeviceInv, TypeOK
    <3>2. CASE Head(steps) = "program" /\ Tail(steps) = <<"verify">>
      BY <1>1, <1>4, <2>1, <3>1, <3>2, DifferentRests DEF DeviceInv
    <3>3. CASE steps = <<"verify">> /\ Head(steps) = "verify" /\ Tail(steps) = <<>>
      BY <1>1, <1>4, <2>1, <3>3, DifferentRests DEF IInv, DeviceInv
    <3> QED
      BY <1>1, <1>2, <2>1, <3>2, <3>3, BitstreamScript
  <2>2. CASE m = "boot"
    <3>1. marker = FALSE
      BY <1>1, <2>2 DEF IInv, DeviceInv, TypeOK
    <3>2. CASE Head(steps) = "program" /\ Tail(steps) = <<"reset", "mark">>
      BY <1>1, <1>4, <2>2, <3>1, <3>2, DifferentRests DEF DeviceInv
    <3>3. CASE Head(steps) = "reset" /\ Tail(steps) = <<"mark">>
      BY <1>1, <1>4, <2>2, <3>1, <3>3, DifferentRests DEF DeviceInv
    <3>4. CASE steps = <<"mark">> /\ Head(steps) = "mark" /\ Tail(steps) = <<>>
      BY <1>1, <1>4, <2>2, <3>4, DifferentRests DEF IInv, DeviceInv
    <3> QED
      BY <1>1, <1>2, <2>2, <3>2, <3>3, <3>4, BootScript
  <2>3. CASE m \notin {"bitstream", "boot"}
    BY <1>1, <2>3 DEF DeviceInv
  <2> QED
    BY <2>1, <2>2, <2>3
<1>8. FlashedImageLoaded' /\ BootWithoutReset'
  BY <1>1 DEF FlashedImageLoaded, BootWithoutReset, Succeeded
<1> QED
  BY <1>5, <1>6, <1>7, <1>8 DEF IInv

(* IInv is kept when a tool that outlived its operation takes a step.      *)
LEMMA StrayStepsKeeps ==
  ASSUME IInv, NEW s \in strays, StraySteps(s)
  PROVE  IInv'
<1>1. /\ s \in [image : Images \cup {NoImage}, steps : Seq(Steps)]
      /\ s.steps \in Seq(Steps) /\ s.steps # <<>>
      /\ s.image \in Images \cup {NoImage}
  BY DEF IInv, TypeOK, ScriptInv
<1>2. Head(s.steps) \in Steps /\ Tail(s.steps) \in Seq(Steps)
  BY <1>1, HeadTailProperties
<1>3. /\ UNCHANGED <<op, steps, marker, scripts, unwritten, result, calls>>
      /\ \/ UNCHANGED <<device, restarted, writer>>
         \/ /\ device' \in Images \cup {NoImage} /\ restarted' \in BOOLEAN
            /\ writer' = "stray"
  BY <1>1, <1>2 DEF StraySteps, Touch, deviceVars, IInv, TypeOK
<1>4. /\ strays' \in SUBSET [image : Images \cup {NoImage}, steps : Seq(Steps)]
      /\ \A r \in strays' : r.steps # <<>>
  <2>1. [s EXCEPT !.steps = Tail(@)] \in
          [image : Images \cup {NoImage}, steps : Seq(Steps)]
    BY <1>1, <1>2
  <2>2. [s EXCEPT !.steps = Tail(@)].steps = Tail(s.steps)
    BY <1>1
  <2> QED
    BY <2>1, <2>2 DEF StraySteps, IInv, TypeOK, ScriptInv
<1>5. TypeOK'
  BY <1>3, <1>4 DEF IInv, TypeOK
<1>6. ScriptInv'
  BY <1>3, <1>4 DEF IInv, ScriptInv
<1>7. DeviceInv'
  BY <1>3 DEF IInv, DeviceInv
<1>8. FlashedImageLoaded' /\ BootWithoutReset'
  BY <1>3 DEF IInv, FlashedImageLoaded, BootWithoutReset, Succeeded
<1> QED
  BY <1>5, <1>6, <1>7, <1>8 DEF IInv

LEMMA StrayDiesKeeps ==
  ASSUME IInv, NEW s \in strays, StrayDies(s)
  PROVE  IInv'
<1>1. /\ UNCHANGED <<device, restarted, writer, op, steps, marker, scripts,
                     unwritten, result, calls>>
      /\ strays' \subseteq strays
  BY DEF StrayDies, deviceVars
<1>2. TypeOK' /\ ScriptInv'
  BY <1>1 DEF IInv, TypeOK, ScriptInv
<1>3. DeviceInv' /\ FlashedImageLoaded' /\ BootWithoutReset'
  BY <1>1 DEF IInv, DeviceInv, FlashedImageLoaded, BootWithoutReset, Succeeded
<1> QED
  BY <1>2, <1>3 DEF IInv

(* IInv is kept when an operation ends, with what its tool left running.   *)
LEMMA FinishKeeps ==
  ASSUME IInv, NEW ok \in BOOLEAN, Finish(ok),
         ok => marker,
         \/ strays' = strays
         \/ /\ steps # <<>>
            /\ strays' = strays \cup {[image |-> op.req.image, steps |-> steps]}
  PROVE  IInv'
<1>1. /\ op.busy /\ ~op'.busy /\ op'.req = op.req
      /\ op' = [busy |-> FALSE, req |-> op.req]
      /\ op.req \in Requests /\ op.req.image \in Images \cup {NoImage}
      /\ op.req.method \in Methods
  BY RequestFacts DEF Finish, IInv
<1>2. /\ result' = [ok |-> ok, req |-> op.req]
      /\ result'.ok = ok /\ result'.req = op.req
      /\ scripts' = scripts - 1 /\ scripts = unwritten + 1
      /\ unwritten \in Nat
      /\ UNCHANGED <<device, restarted, writer, steps, marker, unwritten, calls>>
  BY <1>1 DEF Finish, deviceVars, IInv, TypeOK
<1>3. /\ strays' \in SUBSET [image : Images \cup {NoImage}, steps : Seq(Steps)]
      /\ \A r \in strays' : r.steps # <<>>
  BY <1>1 DEF IInv, TypeOK, ScriptInv
<1>4. TypeOK'
  BY <1>1, <1>2, <1>3 DEF IInv, TypeOK
<1>5. ScriptInv' /\ DeviceInv'
  BY <1>1, <1>2, <1>3 DEF IInv, ScriptInv, DeviceInv
<1>6. FlashedImageLoaded'
  BY <1>1, <1>2 DEF IInv, DeviceInv, FlashedImageLoaded, Succeeded
<1>7. BootWithoutReset'
  BY <1>1, <1>2 DEF IInv, ScriptInv, DeviceInv, BootWithoutReset
<1> QED
  BY <1>4, <1>5, <1>6, <1>7 DEF IInv

LEMMA EndKeeps ==
  ASSUME IInv, ToolExits \/ ToolFails \/ CommandTimesOut
  PROVE  IInv'
<1>1. CASE ToolExits
  <2>1. marker \in BOOLEAN
    BY DEF IInv, TypeOK
  <2> QED
    BY <1>1, <2>1, FinishKeeps DEF ToolExits
<1>2. CASE ToolFails
  BY <1>2, FinishKeeps DEF ToolFails
<1>3. CASE CommandTimesOut
  BY <1>3, FinishKeeps DEF CommandTimesOut
<1> QED
  BY <1>1, <1>2, <1>3

-----------------------------------------------------------------------------
(* The theorems.                                                           *)

(* The invariant holds at the start.                                       *)
LEMMA InitHolds ==
  ASSUME Init
  PROVE  IInv
<1> USE DEF Init
<1>1. Idle \in Requests
  BY MethodNames DEF Idle, Requests, Targets
<1>2. TypeOK
  <2>1. /\ op \in [busy : BOOLEAN, req : Requests] /\ ~op.busy
        /\ result \in [ok : BOOLEAN, req : Requests]
    BY <1>1
  <2>2. steps \in Seq(Steps) /\ device \in Images \cup {NoImage}
    OBVIOUS
  <2>3. scripts = (IF op.busy THEN unwritten + 1 ELSE unwritten)
    BY <2>1
  <2>4. unwritten \in 0..MaxCalls /\ calls \in 0..MaxCalls
    OBVIOUS
  <2>5. strays \in SUBSET [image : Images \cup {NoImage}, steps : Seq(Steps)]
    OBVIOUS
  <2>6. /\ restarted \in BOOLEAN /\ marker \in BOOLEAN
        /\ writer \in {"nobody", "tool", "stray"}
    BY Zenon
  <2> HIDE DEF Init
  <2> QED
    BY <2>1, <2>2, <2>3, <2>4, <2>5, <2>6 DEF TypeOK
<1>3. ScriptInv
  BY DEF ScriptInv, Idle
<1>4. DeviceInv /\ FlashedImageLoaded /\ BootWithoutReset
  BY DEF DeviceInv, FlashedImageLoaded, BootWithoutReset, Succeeded
<1> QED
  BY <1>2, <1>3, <1>4 DEF IInv

(* Between operations the temporary directory holds only the scripts that  *)
(* could not be written, and until a stray touches the device it shows how *)
(* far the tool of the operation has come.  (_execute_tcl_script)          *)
THEOREM JtagInvariant == Spec => []IInv
<1>1. Init => IInv
  BY InitHolds
<1>2. IInv /\ [Next]_vars => IInv'
  <2> SUFFICES ASSUME IInv, [Next]_vars
               PROVE  IInv'
    OBVIOUS
  <2>1. CASE Next
    BY <2>1, DetectOrResetKeeps, FlashImageKeeps, FlashRefusedKeeps,
       ToolStepsKeeps, StrayStepsKeeps, StrayDiesKeeps, EndKeeps DEF Next
  <2>2. CASE UNCHANGED vars
    <3>1. TypeOK' /\ ScriptInv'
      BY <2>2 DEF IInv, TypeOK, ScriptInv, vars, deviceVars
    <3>2. DeviceInv' /\ FlashedImageLoaded' /\ BootWithoutReset'
      BY <2>2 DEF IInv, DeviceInv, FlashedImageLoaded, BootWithoutReset,
                  Succeeded, vars, deviceVars
    <3> QED
      BY <3>1, <3>2 DEF IInv
  <2> QED
    BY <2>1, <2>2
<1> QED
  BY <1>1, <1>2, PTL DEF Spec

(* After a bitstream was flashed with success the device holds it, unless  *)
(* a tool that outlived an earlier operation touched the device last.      *)
(* (_flash_fpga_bitstream)                                                 *)
THEOREM FlashedImageTheorem == Spec => []FlashedImageLoaded
<1>1. IInv => FlashedImageLoaded
  BY DEF IInv
<1> QED
  BY <1>1, JtagInvariant, PTL

(* A boot image that was flashed with success and without a reset was      *)
(* taken for a bitstream by its suffix.  (flash_image)                     *)
THEOREM BootWithoutResetTheorem == Spec => []BootWithoutReset
<1>1. IInv => BootWithoutReset
  BY DEF IInv
<1> QED
  BY <1>1, JtagInvariant, PTL
=============================================================================

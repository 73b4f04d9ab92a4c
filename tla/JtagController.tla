---------------------------- MODULE JtagController ----------------------------
(***************************************************************************)
(* VivadoJTAGController of hardware_control/jtag_controller.py: every      *)
(* operation writes a Tcl script, runs Vivado on it with a timeout, and    *)
(* believes the exit code and a marker in the output.  The tool works on   *)
(* the device step by step; when its wrapper is killed at the timeout, the *)
(* tool behind it may live on and finish its script beside the next one.   *)
(***************************************************************************)
EXTENDS Naturals, Sequences

CONSTANTS
  Images,     \* image files, with the suffix of each: see Suffix
  Suffix,     \* ".bit", ".bin", ".elf", ".mcs" or another one
  MaxCalls    \* bound: the operations a caller asks for

NoImage == "none"

ASSUME JtagAssumption ==
  /\ Suffix \in [Images -> STRING]
  /\ NoImage \notin Images
  /\ MaxCalls \in Nat

VARIABLES
  device,     \* the image the device is configured with
  restarted,  \* it was reset since it was last programmed
  op,         \* the operation in progress
  steps,      \* what its tool has yet to do
  marker,     \* the tool has printed the words of success
  strays,     \* what tools that outlived their operation have yet to do
  writer,     \* history: who programmed or reset the device last
  scripts,    \* Tcl files in the temporary directory
  unwritten,  \* history: how many of them could not be written
  result,     \* of the last operation
  calls

deviceVars == <<device, restarted, writer>>
vars == <<deviceVars, op, steps, marker, strays, scripts, unwritten, result,
          calls>>

(* Mutant: the device is reset before it is programmed.                    *)
ScriptResetFirst ==
  [detect |-> <<"list">>, bitstream |-> <<"program", "verify">>,
   boot |-> <<"reset", "program", "mark">>, reset |-> <<"reset", "mark">>]

(* The scripts, as far as they touch the device.  The bitstream's verifies *)
(* the state of the device, the boot image's resets it.                    *)
Script == [detect |-> <<"list">>, bitstream |-> <<"program", "verify">>,
           boot |-> <<"program", "reset", "mark">>, reset |-> <<"reset", "mark">>]

Methods == DOMAIN Script
Targets == {"fpga", "boot", "none"}
Requests == [method : Methods, image : Images \cup {NoImage}, target : Targets]
Idle == [method |-> "detect", image |-> NoImage, target |-> "none"]
Steps == {"list", "program", "verify", "reset", "mark"}

(* Between operations the temporary directory holds the scripts that could *)
(* not be written, and no others.                                          *)
TypeOK ==
  /\ device \in Images \cup {NoImage}
  /\ restarted \in BOOLEAN
  /\ op \in [busy : BOOLEAN, req : Requests]
  /\ steps \in Seq(Steps)
  /\ marker \in BOOLEAN
  /\ strays \in SUBSET [image : Images \cup {NoImage}, steps : Seq(Steps)]
  /\ writer \in {"nobody", "tool", "stray"}
  /\ scripts = IF op.busy THEN unwritten + 1 ELSE unwritten
  /\ unwritten \in 0..MaxCalls
  /\ result \in [ok : BOOLEAN, req : Requests]
  /\ calls \in 0..MaxCalls

Init ==
  /\ device = NoImage
  /\ restarted = FALSE
  /\ op = [busy |-> FALSE, req |-> Idle]
  /\ steps = <<>>
  /\ marker = FALSE
  /\ strays = {}
  /\ writer = "nobody"
  /\ scripts = 0
  /\ unwritten = 0
  /\ result = [ok |-> FALSE, req |-> Idle]
  /\ calls = 0

-----------------------------------------------------------------------------
(* An operation begins.                                                    *)

(* flash_image: which script, by target and suffix; none for others.       *)
Method(i, target) ==
  IF target = "fpga" \/ Suffix[i] \in {".bit", ".bin"} THEN {"bitstream"}
  ELSE IF target = "boot" \/ Suffix[i] \in {".elf", ".mcs"} THEN {"boot"}
  ELSE {}

(* The script is written and Vivado started.  A script that cannot be      *)
(* written stays behind: its path was not noted yet.                       *)
Start(req) ==
  /\ ~op.busy
  /\ calls < MaxCalls
  /\ calls' = calls + 1
  /\ \/ /\ op' = [busy |-> TRUE, req |-> req]
        /\ steps' = Script[req.method]
        /\ marker' = FALSE
        /\ scripts' = scripts + 1
        /\ UNCHANGED <<unwritten, result>>
     \/ /\ scripts' = scripts + 1
        /\ unwritten' = unwritten + 1
        /\ result' = [ok |-> FALSE, req |-> req]
        /\ UNCHANGED <<op, steps, marker>>
  /\ UNCHANGED <<deviceVars, strays>>

DetectDevices == Start([Idle EXCEPT !.method = "detect"])
ResetDevice == Start([Idle EXCEPT !.method = "reset"])

FlashImage(i, target) ==
  \E m \in Method(i, target) :
    Start([method |-> m, image |-> i, target |-> target])

(* There is no such file, or no method for it.                             *)
FlashRefused(i, target) ==
  /\ ~op.busy
  /\ calls < MaxCalls
  /\ calls' = calls + 1
  /\ result' = [ok |-> FALSE,
                req |-> [Idle EXCEPT !.image = i, !.target = target]]
  /\ UNCHANGED <<deviceVars, op, steps, marker, strays, scripts, unwritten>>

-----------------------------------------------------------------------------
(* A tool at work.  Programming may fail without an error, which only a    *)
(* look at the state of the device tells.                                  *)
Touch(step, i, who) ==
  \/ /\ step = "program"
     /\ device' \in {i, NoImage}
     /\ restarted' = FALSE
     /\ writer' = who
  \/ /\ step = "reset"
     /\ restarted' = TRUE
     /\ writer' = who
     /\ UNCHANGED device
  \/ /\ step \in {"list", "verify", "mark"}
     /\ UNCHANGED deviceVars

(* Mutant: the words of success are printed once the tool has programmed.  *)
StepUnverified ==
  /\ op.busy
  /\ steps # <<>>
  /\ Touch(Head(steps), op.req.image, "tool")
  /\ steps' = Tail(steps)
  /\ marker' = (marker \/ Head(steps) # "list")
  /\ UNCHANGED <<op, strays, scripts, unwritten, result, calls>>

(* The chain may be empty; a device that is configured passes for verified,*)
(* whatever it is configured with.                                         *)
ToolSteps ==
  /\ op.busy
  /\ steps # <<>>
  /\ Touch(Head(steps), op.req.image, "tool")
  /\ steps' = Tail(steps)
  /\ \/ Head(steps) \in {"program", "reset"} /\ UNCHANGED marker
     \/ Head(steps) = "list" /\ marker' \in BOOLEAN
     \/ Head(steps) = "verify" /\ marker' = (device # NoImage)
     \/ Head(steps) = "mark" /\ marker' = TRUE
  /\ UNCHANGED <<op, strays, scripts, unwritten, result, calls>>

StraySteps(s) ==
  /\ \E image \in {s.image} : Touch(Head(s.steps), image, "stray")
  /\ strays' = (strays \ {s}) \cup
       IF Tail(s.steps) = <<>> THEN {} ELSE {[s EXCEPT !.steps = Tail(@)]}
  /\ UNCHANGED <<op, steps, marker, scripts, unwritten, result, calls>>

StrayDies(s) ==
  /\ strays' = strays \ {s}
  /\ UNCHANGED <<deviceVars, op, steps, marker, scripts, unwritten, result, calls>>

-----------------------------------------------------------------------------
(* The operation ends, and its script is removed.                          *)
Finish(ok) ==
  /\ op.busy
  /\ op' = [op EXCEPT !.busy = FALSE]
  /\ result' = [ok |-> ok, req |-> op.req]
  /\ scripts' = scripts - 1
  /\ UNCHANGED <<deviceVars, steps, marker, unwritten, calls>>

ToolExits ==
  /\ steps = <<>>
  /\ Finish(marker)
  /\ UNCHANGED strays

(* It could not be started, or a command of the script failed, the closing *)
(* of the connections after the marker included.                           *)
ToolFails ==
  /\ Finish(FALSE)
  /\ UNCHANGED strays

(* Mutant: the tool is waited for without end.                             *)
NoTimeout == FALSE

(* Mutant: the timeout is raised past the removal of the script.           *)
TimeoutLeavesScript ==
  /\ op.busy
  /\ op' = [op EXCEPT !.busy = FALSE]
  /\ result' = [ok |-> FALSE, req |-> op.req]
  /\ UNCHANGED <<deviceVars, steps, marker, strays, scripts, unwritten, calls>>

(* The timeout kills the wrapper, and with it the tool or not.             *)
CommandTimesOut ==
  /\ Finish(FALSE)
  /\ strays' \in {strays,
                  strays \cup IF steps = <<>> THEN {}
                              ELSE {[image |-> op.req.image, steps |-> steps]}}

Next ==
  \/ DetectDevices
  \/ ResetDevice
  \/ \E i \in Images, t \in {"fpga", "boot"} : FlashImage(i, t)
  \/ \E i \in Images, t \in {"fpga", "boot"} : FlashRefused(i, t)
  \/ ToolSteps
  \/ \E s \in strays : StraySteps(s)
  \/ \E s \in strays : StrayDies(s)
  \/ ToolExits
  \/ ToolFails
  \/ CommandTimesOut

Spec == Init /\ [][Next]_vars

(* Every command has a timeout.                                            *)
FairSpec == Spec /\ WF_vars(CommandTimesOut)

-----------------------------------------------------------------------------
Succeeded(m) == ~op.busy /\ result.ok /\ result.req.method = m

(* After a bitstream was flashed with success the device holds it, unless  *)
(* a tool that outlived the timeout of an earlier operation has programmed *)
(* the device, or programs it still.  (_flash_fpga_bitstream)              *)
FlashedImageLoaded ==
  Succeeded("bitstream") => device = result.req.image \/ writer = "stray"

(* An operation asked for as a boot image that succeeded without a reset   *)
(* was a .bit or .bin file, BOOT.BIN included, which flash_image takes for *)
(* a bitstream whatever the target.  (flash_image, line 333)               *)
BootWithoutReset ==
  ~op.busy /\ result.ok /\ result.req.target = "boot" /\ ~restarted
    => writer = "stray" \/ Suffix[result.req.image] \in {".bit", ".bin"}

(* Every operation returns, also when the tool hangs.  (_execute_command)  *)
OperationEnds == op.busy ~> ~op.busy

-----------------------------------------------------------------------------
(* The inductive invariant: what makes the properties above hold.          *)

(* The tool is somewhere in the script of its operation.                   *)
Remaining ==
  [detect |-> {<<"list">>, <<>>},
   bitstream |-> {<<"program", "verify">>, <<"verify">>, <<>>},
   boot |-> {<<"program", "reset", "mark">>, <<"reset", "mark">>, <<"mark">>, <<>>},
   reset |-> {<<"reset", "mark">>, <<"mark">>, <<>>}]

ScriptInv ==
  /\ op.busy => steps \in Remaining[op.req.method]
  /\ op.req.target = "boot" =>
       \/ op.req.method = "bitstream" /\ Suffix[op.req.image] \in {".bit", ".bin"}
       \/ op.req.method = "boot"
       \/ ~op.busy
  /\ \A s \in strays : s.steps # <<>>
  /\ unwritten <= calls

(* What the tool has done so far shows in the device, until a stray has    *)
(* touched it; the words of success come last.                             *)
DeviceInv ==
  /\ op.busy /\ op.req.method = "bitstream" =>
       /\ marker => steps = <<>>
       /\ steps = <<"verify">> =>
            writer = "stray" \/ device \in {op.req.image, NoImage}
       /\ marker => writer = "stray" \/ device = op.req.image
  /\ op.busy /\ op.req.method = "boot" =>
       /\ marker => steps = <<>>
       /\ steps = <<"mark">> \/ marker => writer = "stray" \/ restarted

IInv ==
  /\ TypeOK
  /\ ScriptInv
  /\ DeviceInv
  /\ FlashedImageLoaded
  /\ BootWithoutReset
=============================================================================

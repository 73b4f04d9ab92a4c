------------------------------- MODULE TestRun -------------------------------
(***************************************************************************)
(* One run of the test orchestrator, run_tests.py: main parses the         *)
(* deployment manifest, provisions the board (power cycle, firmware over   *)
(* JTAG, waiting), runs pytest in a child process, and cleans up.  The     *)
(* child (tests/conftest.py, tests/test_system_validation.py) has a power  *)
(* controller of its own for the same outlet.                              *)
(*                                                                         *)
(* Power calls are those of PowerOutlet, which PowerControl implements:    *)
(* this module composes the run with that contract, so a call can fail     *)
(* half way, take effect late, or be cut short by the end of its process.  *)
(* What is loaded over JTAG is in the device's volatile configuration, and *)
(* gone with the power.                                                    *)
(***************************************************************************)
EXTENDS Naturals

CONSTANTS
  Configs,  \* the configurations and command lines a run may have
  Faults    \* what may go wrong around the run

Artifacts == {"bootloader", "fpga_bitstream"}

FaultKinds == {"power_fails",  \* power calls are answered False or raise
               "flash_fails",  \* a download or a JTAG operation fails
               "tests_fail",   \* a test fails
               "child_dies"}   \* pytest crashes, or hangs until its timeout

Config ==
  [board_type : BOOLEAN,   \* at the root of config.yaml
   prometheus : BOOLEAN,   \* the Prometheus reporter is enabled
   power : BOOLEAN,        \* a power controller could be created
   jtag : BOOLEAN,         \* a JTAG controller could be created
   manifest : {"none", "unreadable", "bsp", "legacy"},
   artifacts : SUBSET Artifacts,  \* what a legacy manifest's spec lists
   session_cycle : BOOLEAN,       \* --pytest-args --power-cycle
   cycles : Nat \ {0}]            \* cycle_count of the reliability test

ASSUME TestRunAssumption ==
  /\ Configs \subseteq Config
  /\ Faults \subseteq FaultKinds

VARIABLES
  config,                            \* this run's configuration
  outlet, target, call, cut, answer, \* as in PowerOutlet
  loaded,                            \* artifacts in the powered device
  pc,                                \* where main is
  board_type,                        \* config has a 'board_type' by now
  hardware_provisioned,              \* the attribute of the orchestrator
  test_success, exit_code,           \* results
  child,                             \* where pytest is
  child_ok,                          \* no test, setup or teardown failed yet
  cycle, failed_cycles,              \* of test_boot_reliability_cycles
  trouble,      \* ghost: a device failed, a test failed, or pytest died
  wrong_image   \* ghost: a test passed on firmware that is not the manifest's

power == <<outlet, target, call, cut, answer>>
main == <<pc, board_type, hardware_provisioned, test_success, exit_code>>
session == <<child, child_ok, cycle, failed_cycles>>

vars == <<config, power, loaded, main, session, trouble, wrong_image>>

Outlet == INSTANCE PowerOutlet

MainSteps == {"parse", "provision", "cycling", "flash", "flash_fpga", "ready",
              "polling", "provisioned", "suite", "waiting", "report", "cleanup",
              "checking", "restoring", "exited"}
ChildSteps == {"none", "setup", "session_cycling", "first_tests",
               "reliability", "cycling", "more_tests", "teardown", "checking",
               "restoring", "done"}

TypeOK ==
  /\ config \in Configs
  /\ Outlet!TypeOK
  /\ loaded \subseteq Artifacts
  /\ pc \in MainSteps
  /\ board_type \in BOOLEAN /\ hardware_provisioned \in BOOLEAN
  /\ test_success \in BOOLEAN /\ exit_code \in {0, 1}
  /\ child \in ChildSteps /\ child_ok \in BOOLEAN
  /\ trouble \in BOOLEAN /\ wrong_image \in BOOLEAN
  /\ cycle \in 0..config.cycles
  /\ failed_cycles \in 0..cycle

Init ==
  /\ config \in Configs
  /\ Outlet!Init
  /\ loaded = {}
  /\ pc = "parse"
  /\ board_type = config.board_type
  /\ hardware_provisioned = FALSE
  /\ test_success = FALSE
  /\ exit_code = 1
  /\ child = "none"
  /\ child_ok = TRUE
  /\ cycle = 0
  /\ failed_cycles = 0
  /\ trouble = FALSE
  /\ wrong_image = FALSE

-----------------------------------------------------------------------------
(* The power controller and the board.                                     *)

(* Without power the device loses its configuration.                       *)
DeviceKeeps == loaded' = IF outlet' = "off" THEN {} ELSE loaded

PowerMoves ==
  /\ Outlet!Switch \/ \E t \in Outlet!Positions : Outlet!Obey(t)
  /\ DeviceKeeps
  /\ UNCHANGED <<config, main, session, trouble, wrong_image>>

BadReplies == {"false", "raised", "unknown"}

PowerAnswers ==
  /\ \E r \in Outlet!Replies :
       /\ r \in BadReplies => "power_fails" \in Faults
       /\ Outlet!Respond(r)
       /\ trouble' = (trouble \/ r \in BadReplies)
  /\ DeviceKeeps
  /\ UNCHANGED <<config, main, session, wrong_image>>

Ask(c) == Outlet!Invoke(c) /\ UNCHANGED loaded

Answered(c) == call = "none" /\ answer.call = c
Said(c, r) == Answered(c) /\ answer.reply = r
Refused(c) == Answered(c) /\ answer.reply # "true"

-----------------------------------------------------------------------------
(* main, and the methods of TestOrchestrator.                              *)

Goto(step) == pc' = step
Kept == UNCHANGED <<config, power, loaded, session, trouble, wrong_image>>

(* return 1, or an exception on its way to main: the finally comes next.   *)
Abort ==
  /\ Goto("cleanup")
  /\ exit_code' = 1
  /\ UNCHANGED <<board_type, hardware_provisioned, test_success>>

ParseManifest ==
  /\ pc = "parse"
  /\ Kept
  /\ IF config.manifest = "unreadable"
     THEN Abort
     ELSE /\ Goto("provision")
          /\ board_type' = (board_type \/ config.manifest # "none")
          /\ UNCHANGED <<hardware_provisioned, test_success, exit_code>>

(* The handler of provision_hardware: with the ELK reporter it looks up    *)
(* config['board_type'] and may raise itself; either way main ends.        *)
ProvisionFails == Abort /\ Kept

StartProvisioning ==
  /\ pc = "provision"
  /\ IF ~config.power
     THEN ProvisionFails
     ELSE /\ Goto("cycling")
          /\ Ask("cycle")
          /\ UNCHANGED <<config, board_type, hardware_provisioned,
                         test_success, exit_code, session, trouble,
                         wrong_image>>

Proceed(step) ==
  /\ Goto(step)
  /\ Kept
  /\ UNCHANGED <<board_type, hardware_provisioned, test_success, exit_code>>

(* Mutant: the result of power_cycle is not looked at.                     *)
CycledUnchecked ==
  /\ pc = "cycling"
  /\ Answered("cycle")
  /\ Proceed(IF config.manifest = "none" THEN "ready" ELSE "flash")

Cycled ==
  /\ pc = "cycling"
  /\ Answered("cycle")
  /\ IF answer.reply = "true"
     THEN Proceed(IF config.manifest = "none" THEN "ready" ELSE "flash")
     ELSE ProvisionFails

(* Mutant: without a JTAG controller the flash has failed.                 *)
SkipFlashFails ==
  /\ pc = "flash"
  /\ ~config.jtag
  /\ ProvisionFails

(* _flash_firmware without a JTAG controller lets the run go on; a BSP     *)
(* manifest has no 'spec', and the KeyError is a failed flash.             *)
SkipFlash ==
  /\ pc = "flash"
  /\ ~config.jtag
  /\ Proceed("ready")

FlashLacksSpec ==
  /\ pc = "flash"
  /\ config.jtag
  /\ config.manifest = "bsp"
  /\ ProvisionFails

(* One artifact is downloaded and programmed; a board without power cannot *)
(* be.                                                                     *)
Program(a, next) ==
  /\ outlet = "on"
  /\ loaded' = loaded \cup {a}
  /\ Goto(next)
  /\ UNCHANGED <<config, power, board_type, hardware_provisioned,
                 test_success, exit_code, session, trouble, wrong_image>>

FlashBootloader ==
  /\ pc = "flash"
  /\ config.jtag
  /\ config.manifest = "legacy"
  /\ IF "bootloader" \in config.artifacts
     THEN Program("bootloader", "flash_fpga")
     ELSE Proceed("flash_fpga")

FlashBitstream ==
  /\ pc = "flash_fpga"
  /\ IF "fpga_bitstream" \in config.artifacts
     THEN Program("fpga_bitstream", "ready")
     ELSE Proceed("ready")

Programming == IF pc = "flash" THEN "bootloader" ELSE "fpga_bitstream"

(* Mutant: a failed artifact is logged and skipped.                        *)
FlashFailsQuietly ==
  /\ pc \in {"flash", "flash_fpga"}
  /\ config.jtag /\ config.manifest = "legacy" /\ Programming \in config.artifacts
  /\ "flash_fails" \in Faults
  /\ trouble' = TRUE
  /\ Goto("ready")
  /\ UNCHANGED <<config, power, loaded, board_type, hardware_provisioned,
                 test_success, exit_code, session, wrong_image>>

FlashFails ==
  /\ pc \in {"flash", "flash_fpga"}
  /\ config.jtag /\ config.manifest = "legacy" /\ Programming \in config.artifacts
  /\ "flash_fails" \in Faults
  /\ trouble' = TRUE
  /\ Abort
  /\ UNCHANGED <<config, power, loaded, session, wrong_image>>

(* _wait_for_system_ready only reads the power state, for two minutes, and *)
(* returns True whatever it read; what get_state raises ends the           *)
(* provisioning.  Reading changes nothing: one poll stands for all.        *)
WaitForSystemReady ==
  /\ pc = "ready"
  /\ Goto("polling")
  /\ Ask("state")
  /\ UNCHANGED <<config, board_type, hardware_provisioned, test_success,
                 exit_code, session, trouble, wrong_image>>

Polled ==
  /\ pc = "polling"
  /\ Answered("state")
  /\ IF answer.reply = "raised" THEN ProvisionFails ELSE Proceed("provisioned")

(* The flag is set before record_hardware_control_metrics is given         *)
(* config['board_type'].                                                   *)
Provisioned ==
  /\ pc = "provisioned"
  /\ hardware_provisioned' = TRUE
  /\ IF config.prometheus /\ ~board_type
     THEN Goto("cleanup") /\ exit_code' = 1
     ELSE Goto("suite") /\ UNCHANGED exit_code
  /\ Kept
  /\ UNCHANGED <<board_type, test_success>>

(* The command line of pytest names the board type.                        *)
ExecuteTestSuite ==
  /\ pc = "suite"
  /\ IF ~board_type
     THEN Abort /\ Kept
     ELSE /\ Goto("waiting")
          /\ child' = "setup"
          /\ UNCHANGED <<config, power, loaded, board_type,
                         hardware_provisioned, test_success, exit_code,
                         child_ok, cycle, failed_cycles, trouble, wrong_image>>

SuiteCompleted ==
  /\ pc = "waiting"
  /\ child = "done"
  /\ test_success' = child_ok
  /\ Goto("report")
  /\ Kept
  /\ UNCHANGED <<board_type, hardware_provisioned, exit_code>>

(* Mutant: subprocess.run without a timeout.                               *)
SuiteNeverTimesOut == FALSE

(* The timeout kills pytest wherever it is and no fixture is torn down; so *)
(* for a crash.                                                            *)
PytestKilled ==
  /\ pc = "waiting"
  /\ child # "done"
  /\ "child_dies" \in Faults
  /\ call' = "none"
  /\ child' = "none"
  /\ test_success' = FALSE
  /\ trouble' = TRUE
  /\ Goto("report")
  /\ UNCHANGED <<config, outlet, cut, answer, loaded, board_type,
                 hardware_provisioned, exit_code, child_ok, cycle,
                 failed_cycles, wrong_image>>

(* A power command it has sent is still on its way.                        *)
SuiteDies ==
  /\ PytestKilled
  /\ target' \in {target} \cup Outlet!Commands(call)

(* Mutant: main returns 0 once the report is made.                         *)
ReportSucceeds ==
  /\ pc = "report"
  /\ exit_code' = 0
  /\ Goto("cleanup")
  /\ Kept
  /\ UNCHANGED <<board_type, hardware_provisioned, test_success>>

Report ==
  /\ pc = "report"
  /\ exit_code' = IF test_success THEN 0 ELSE 1
  /\ Goto("cleanup")
  /\ Kept
  /\ UNCHANGED <<board_type, hardware_provisioned, test_success>>

Exit(code) ==
  /\ Goto("exited")
  /\ exit_code' = code
  /\ Kept
  /\ UNCHANGED <<board_type, hardware_provisioned, test_success>>

(* cleanup pushes the metrics, with config['board_type'], before it looks  *)
(* at the power; what it raises makes main return 1.                       *)
Cleanup ==
  /\ pc = "cleanup"
  /\ IF config.prometheus /\ ~board_type
     THEN Exit(1)
     ELSE IF ~config.power
     THEN Exit(exit_code)
     ELSE /\ Goto("checking")
          /\ Ask("state")
          /\ UNCHANGED <<config, board_type, hardware_provisioned,
                         test_success, exit_code, session, trouble,
                         wrong_image>>

(* Mutant: a state that could not be read counts as on.                    *)
CheckedTrusting ==
  /\ pc = "checking"
  /\ Answered("state")
  /\ \/ Said("state", "raised") /\ Exit(1)
     \/ answer.reply \in {"on", "unknown"} /\ Exit(exit_code)
     \/ /\ answer.reply = "off"
        /\ Goto("restoring")
        /\ Ask("on")
        /\ UNCHANGED <<config, board_type, hardware_provisioned, test_success,
                       exit_code, session, trouble, wrong_image>>

Checked ==
  /\ pc = "checking"
  /\ Answered("state")
  /\ \/ Said("state", "raised") /\ Exit(1)
     \/ Said("state", "on") /\ Exit(exit_code)
     \/ /\ answer.reply \in {"off", "unknown"}
        /\ Goto("restoring")
        /\ Ask("on")
        /\ UNCHANGED <<config, board_type, hardware_provisioned, test_success,
                       exit_code, session, trouble, wrong_image>>

Restored ==
  /\ pc = "restoring"
  /\ Answered("on")
  /\ Exit(IF answer.reply = "raised" THEN 1 ELSE exit_code)

-----------------------------------------------------------------------------
(* pytest.                                                                 *)

ChildGoto(step) == child' = step /\ UNCHANGED main
ChildKept == UNCHANGED <<config, power, loaded>>
Counters == UNCHANGED <<cycle, failed_cycles>>
Ghosts == UNCHANGED <<trouble, wrong_image>>

(* session_setup_teardown.                                                 *)
SessionSetup ==
  /\ child = "setup"
  /\ IF config.session_cycle
     THEN ChildGoto("session_cycling") /\ Ask("cycle") /\ UNCHANGED config
     ELSE ChildGoto("first_tests") /\ ChildKept
  /\ UNCHANGED child_ok
  /\ Counters /\ Ghosts

(* pytest.exit after a failed cycle: the session ends, not with 0.         *)
SessionCycled ==
  /\ child = "session_cycling"
  /\ Answered("cycle")
  /\ child_ok' = (answer.reply = "true")
  /\ ChildGoto(IF answer.reply = "true" THEN "first_tests" ELSE "teardown")
  /\ ChildKept /\ Counters /\ Ghosts

(* The firmware the manifest asks for is in the device.                    *)
RightImage ==
  /\ config.manifest = "legacy" => loaded = config.artifacts
  /\ config.manifest # "bsp"

(* Tests pass or fail; none passes on a board without power.               *)
TestsPass(next) ==
  /\ outlet = "on"
  /\ wrong_image' = (wrong_image \/ ~RightImage)
  /\ ChildGoto(next)
  /\ ChildKept /\ Counters
  /\ UNCHANGED <<child_ok, trouble>>

TestsFail(next) ==
  /\ "tests_fail" \in Faults \/ outlet = "off"
  /\ child_ok' = FALSE
  /\ trouble' = TRUE
  /\ ChildGoto(next)
  /\ ChildKept /\ Counters
  /\ UNCHANGED wrong_image

FirstTests ==
  /\ child = "first_tests"
  /\ TestsPass("reliability") \/ TestsFail("reliability")

(* Mutant: one cycle too many.                                             *)
StartCycleAgain ==
  /\ child = "reliability"
  /\ cycle <= config.cycles
  /\ ChildGoto("cycling")
  /\ Ask("cycle")
  /\ UNCHANGED <<config, child_ok>>
  /\ Counters /\ Ghosts

(* test_boot_reliability_cycles: the selection hook of the test module is  *)
(* not a conftest's, so every suite runs it.                               *)
StartCycle ==
  /\ child = "reliability"
  /\ cycle < config.cycles
  /\ ChildGoto("cycling")
  /\ Ask("cycle")
  /\ UNCHANGED <<config, child_ok>>
  /\ Counters /\ Ghosts

(* A failed power cycle or boot is counted, and the next cycle follows.    *)
CycleEnds ==
  /\ child = "cycling"
  /\ Answered("cycle")
  /\ \E ok \in BOOLEAN :
       /\ ok => answer.reply = "true" /\ outlet = "on"
       /\ ~ok => answer.reply # "true" \/ "tests_fail" \in Faults
       /\ cycle' = cycle + 1
       /\ failed_cycles' = failed_cycles + (IF ok THEN 0 ELSE 1)
       /\ trouble' = (trouble \/ ~ok)
       /\ wrong_image' = (wrong_image \/ (ok /\ ~RightImage))
  /\ ChildGoto("reliability")
  /\ ChildKept
  /\ UNCHANGED child_ok

(* min_reliability_rate is 0.9 of the cycles.                              *)
Reliable == 10 * (config.cycles - failed_cycles) >= 9 * config.cycles

ReliabilityEnds ==
  /\ child = "reliability"
  /\ cycle = config.cycles
  /\ child_ok' = (child_ok /\ Reliable)
  /\ ChildGoto("more_tests")
  /\ ChildKept /\ Counters /\ Ghosts

MoreTests ==
  /\ child = "more_tests"
  /\ TestsPass("teardown") \/ TestsFail("teardown")

(* The finally of the power_controller fixture.                            *)
Teardown ==
  /\ child = "teardown"
  /\ ChildGoto("checking")
  /\ Ask("state")
  /\ UNCHANGED <<config, child_ok>>
  /\ Counters /\ Ghosts

ChildChecked ==
  /\ child = "checking"
  /\ Answered("state")
  /\ IF answer.reply \in {"on", "raised"}
     THEN ChildGoto("done") /\ ChildKept
     ELSE ChildGoto("restoring") /\ Ask("on") /\ UNCHANGED config
  /\ child_ok' = (child_ok /\ answer.reply # "raised")
  /\ Counters /\ Ghosts

ChildRestored ==
  /\ child = "restoring"
  /\ Answered("on")
  /\ child_ok' = (child_ok /\ answer.reply # "raised")
  /\ ChildGoto("done")
  /\ ChildKept /\ Counters /\ Ghosts

-----------------------------------------------------------------------------
Main ==
  \/ ParseManifest \/ StartProvisioning \/ Cycled
  \/ SkipFlash \/ FlashLacksSpec \/ FlashBootloader \/ FlashBitstream
  \/ FlashFails \/ WaitForSystemReady \/ Polled \/ Provisioned
  \/ ExecuteTestSuite \/ SuiteCompleted \/ Report
  \/ Cleanup \/ Checked \/ Restored

Child ==
  \/ SessionSetup \/ SessionCycled \/ FirstTests
  \/ StartCycle \/ CycleEnds \/ ReliabilityEnds \/ MoreTests
  \/ Teardown \/ ChildChecked \/ ChildRestored

Next == Main \/ Child \/ SuiteDies \/ PowerMoves \/ PowerAnswers

Spec == Init /\ [][Next]_vars

-----------------------------------------------------------------------------
Exited == pc = "exited"

(* Exit code 0 means that the hardware was provisioned, that no test or    *)
(* fixture failed, and that the board is powered and stays so; only a      *)
(* cycle the reliability test tolerated may leave a late command behind.   *)
(* (main, execute_test_suite, test_boot_reliability_cycles)                *)
GreenRun ==
  Exited /\ exit_code = 0 =>
    /\ hardware_provisioned
    /\ child = "done" /\ child_ok
    /\ target = "on" \/ failed_cycles > 0

(* The last call failed, or it read a switch that is about to move.        *)
PowerFailed ==
  \/ answer.call = "on" /\ answer.reply # "true"
  \/ answer.call = "state" /\ answer.reply \in {"raised", "on"}

(* "Ensure board is left in powered-on state" (cleanup, line 547): however *)
(* the run ended, and wherever pytest was killed, the board gets its power *)
(* back unless the power controller fails at that very moment.             *)
BoardLeftOn == Exited /\ config.power => target = "on" \/ PowerFailed

(* ... which cleanup sees to only if it gets that far.                     *)
BoardLeftOnByCleanup == board_type \/ ~config.prometheus => BoardLeftOn

(* provision_hardware says True only of a board that is powered and stays  *)
(* so until pytest touches it.  (provision_hardware, power_cycle)          *)
ProvisionedIsPowered ==
  pc \in {"suite", "waiting"} /\ child \in {"none", "setup"}
    => outlet = "on" /\ target = "on"

(* "Links test results back to exact build" (README.md, Full              *)
(* Traceability): a run that ends well and reports under the manifest's    *)
(* build_version rests on no test that passed on other firmware.           *)
(* (main, generate_test_report, test_boot_reliability_cycles)              *)
ResultsTraceToBuild == Exited /\ exit_code = 0 => ~wrong_image

(* If a test passes on other firmware, then the run had no JTAG            *)
(* controller, or the board lost its power after the flash: a flash that   *)
(* fails never leads to tests.                                             *)
(* (_flash_firmware, provision_hardware)                                   *)
WrongImageExplained ==
  wrong_image => ~config.jtag \/ config.session_cycle \/ cycle > 0

(* A manifest that can be read, devices that work and tests that pass make *)
(* the run succeed.  (parse_deployment_manifest, _flash_firmware)          *)
FailureHasCause ==
  Exited /\ exit_code = 1 =>
    \/ trouble
    \/ ~config.power
    \/ config.manifest = "unreadable"
    \/ ~board_type

(* ... but for the manifests _flash_firmware cannot read.                  *)
FailureExplained == FailureHasCause \/ (config.manifest = "bsp" /\ config.jtag)

(* Every run comes to an end.  (execute_test_suite's timeout, main)        *)
Terminates == <>Exited

-----------------------------------------------------------------------------
(* The inductive invariant: what makes the properties above hold.          *)

Provisioning == {"parse", "provision", "cycling", "flash", "flash_fpga",
                 "ready", "polling", "provisioned"}
Closing == {"cleanup", "checking", "restoring", "exited"}

(* The power call main or pytest is waiting for.                           *)
Awaits(c) ==
  \/ pc = "cycling" /\ c = "cycle"
  \/ pc \in {"polling", "checking"} /\ c = "state"
  \/ pc = "restoring" /\ c = "on"
  \/ child \in {"session_cycling", "cycling"} /\ c = "cycle"
  \/ child = "checking" /\ c = "state"
  \/ child = "restoring" /\ c = "on"

(* At most one of the two processes is in a call, and what it finds when   *)
(* the call is over is the answer to that call.                            *)
CallInv ==
  /\ call # "none" => Awaits(call)
  /\ \A c \in Outlet!Calls : Awaits(c) => call = c \/ Answered(c)
  /\ answer.call = "cycle" => answer.reply \in {"true", "false"}
  /\ answer.call = "on" => answer.reply \in {"true", "false", "raised"}
  /\ answer.call = "state" => answer.reply \notin {"true", "false"}

(* pytest exists while main waits for it, and how far both are bounds what *)
(* the results can be.                                                     *)
ProgressInv ==
  /\ pc \in Provisioning \cup {"suite"} => child = "none"
  /\ pc = "waiting" => child # "none"
  /\ pc \in Closing \cup {"report"} => child \in {"none", "done"}
  /\ pc \in Provisioning \cup {"suite", "waiting"}
       /\ child \in {"none", "setup", "session_cycling", "first_tests"}
     => child_ok /\ cycle = 0 /\ failed_cycles = 0
  /\ child = "session_cycling" => config.session_cycle
  /\ child = "cycling" => cycle < config.cycles
  /\ child = "more_tests" => cycle = config.cycles
  /\ pc \in {"suite", "waiting", "report"} \/ child # "none"
       => hardware_provisioned
  /\ test_success => child = "done" /\ child_ok
                     /\ pc \in Closing \cup {"report"}
  /\ exit_code = 0 => test_success /\ pc \in Closing

(* Once a cycle has succeeded the board is powered and no command is on    *)
(* its way to it, until a cycle fails or pytest is killed.                 *)
Settled == outlet = "on" /\ target = "on"

InCycle == pc = "cycling" \/ child \in {"session_cycling", "cycling"}

PowerInv ==
  /\ InCycle /\ call = "none" /\ answer.reply = "true" => Settled
  /\ /\ pc \in {"flash", "flash_fpga", "ready", "polling", "provisioned", "suite"}
        \/ child # "none"
     /\ ~InCycle /\ child_ok /\ failed_cycles = 0
     => Settled
  /\ pc = "restoring" /\ Said("on", "true") => target = "on"

(* What main has loaded, until the first power cycle pytest does.          *)
ImageInv ==
  /\ pc \in {"parse", "provision", "cycling", "flash"} => loaded = {}
  /\ pc = "flash" => config.manifest \in {"bsp", "legacy"}
  /\ pc \in {"provision", "cycling"} => config.manifest # "unreadable"
  /\ pc = "flash_fpga" =>
       config.manifest = "legacy" /\ loaded = config.artifacts \ {"fpga_bitstream"}
  /\ /\ pc \in {"ready", "polling", "provisioned", "suite", "waiting"}
     /\ child \in {"none", "setup", "first_tests"}
     /\ config.jtag /\ ~config.session_cycle
     => RightImage
  /\ pc \in Provisioning \cup {"suite"} => ~wrong_image

(* While nothing has gone wrong everything succeeds.                       *)
Excused ==
  \/ trouble
  \/ ~config.power
  \/ config.manifest = "unreadable"
  \/ ~board_type
  \/ config.manifest = "bsp" /\ config.jtag

CauseInv ==
  /\ ~trouble => /\ child_ok /\ failed_cycles = 0
                 /\ answer.reply \in BadReplies => answer.call = "none"
  /\ ~trouble /\ pc = "report" => test_success
  /\ ~Excused /\ pc \in Closing => exit_code = 0

IInv ==
  /\ TypeOK
  /\ CallInv
  /\ ProgressInv
  /\ PowerInv
  /\ ImageInv
  /\ CauseInv
  /\ WrongImageExplained
  /\ BoardLeftOnByCleanup
=============================================================================

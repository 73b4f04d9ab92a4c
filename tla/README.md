# A specification of the MPSoC test infrastructure

TLA+ modules, TLC configurations and TLAPS proofs for the continuous-integration
infrastructure in this repository: Jenkins builds an MPSoC board support package
(BSP), publishes artifacts and a manifest to an NFS share, a monitor turns new
manifests into test builds, and a test host provisions a board, runs a pytest
suite on it and reports.

`tlc -workers 2 -config X.cfg M` checks a run, `tlapm M.tla` a module of proofs.

## 1. Inventory

Two copies of the test host are in the repository. `test_host/` cannot be
imported (`hardware_control/power_controller.py:17` does not import the `List`
it uses, `reporters/prometheus_reporter.py:23` imports a name that does not
exist), so everything here is about the copy in
`QA-lab/embedded-ci-lab-simulator-manual/host_controller/test_host/`, which is
the same program with those mistakes repaired. "Lab" below is that directory.

| Component | State it keeps | Operations | What makes it correct |
|---|---|---|---|
| NFS artifact monitor (`scripts/nfs_artifact_monitor.sh`, `docker/scripts/`) | watermark in `STATE_FILE`, the list of a pass | scan, parse, trigger, mark, sleep; restart by systemd | every published manifest is built; a build is repeated only after an interrupted pass |
| NFS artifact management (`scripts/manage_nfs_artifacts.sh`) | the share's directories | list, cleanup, verify, sync | removes only what is old, and all of it; says "verified" only of what it verified |
| NFS publisher (`scripts/publish_artifacts_to_nfs.sh`) | a build directory | publish | none: bash rejects the file |
| Hardware validation script (`scripts/run_hw_tests.sh`) | downloaded artifacts | download, verify, run, report | no test on unverified artifacts, exit code of the tests |
| Test orchestrator (Lab `run_tests.py`) | configuration, `hardware_provisioned`, exit code | parse manifest, provision, flash, run suite, report, cleanup | exit code 0 means a provisioned board that was tested; the board is left powered |
| pytest session (Lab `tests/`) | fixtures, test results, cycle counters | set up, tests, reliability cycles, teardown | failures are counted, the board is left powered |
| Power controllers (Lab `hardware_control/power_controller.py`) | `current_state`, `event_history` | `turn_on`, `turn_off`, `get_state`, `power_cycle`, `wait_for_state` | answers agree with the outlet and with the history; every call returns |
| JTAG controller (Lab `hardware_control/jtag_controller.py`) | a temporary Tcl script, a child process | find tool, detect, program, reset | success only of a programmed device; every operation returns |
| Boot validator (Lab `framework/boot_validator.py`) | `current_stage`, boot log, metrics | validate a boot, check criteria | "booted" only of a board that booted in this validation |
| UART tester (Lab `framework/uart_test.py`) | metrics | send command, three tests | a response belongs to its command; a test ends |
| Serial adapter (Lab `framework/tcp_serial_adapter.py`) | a socket, what waits in it | open, write, read line, reset, close | a line is read whole, or broken off in time |
| Ethernet tester (Lab `framework/ethernet_test.py`) | ssh connection, remote iperf3 | connect, run, measure | no call waits forever; nothing left running on the board |
| ELK reporter (Lab `reporters/elk_reporter.py`) | two connections, a buffer | log, flush, close | an entry answered True is delivered |
| Prometheus reporter (Lab `reporters/prometheus_reporter.py`) | a registry, groups at the gateway | record, push, clear, custom metrics | measurements fit their metrics; what a reporter brought under a key stays there |
| Pipelines (`Jenkinsfile`, `jenkins/`, `QA-lab/.../project_repo/`) | workspace, results | detect, stage, test, upload | each manifest tested once, under its own name |
| Lab set-up, containers, monitoring | — | one-shot scripts and configuration of third-party services | — |

How they interact. The publisher and the monitor share files and clocks: what
is on the share and the seconds of its mtimes are all the monitor sees. Monitor
and Jenkins exchange one HTTP request per manifest, whose reply may be lost.
Jenkins starts the orchestrator; the orchestrator calls JTAG and power
controllers and starts pytest as a child process with a timeout; the child
builds a power controller of its own for the same outlet. The outlet, the
device's volatile configuration and the serial line are shared by both.
Reporters are called synchronously and answer True or False.

What is hard: a publisher writing while the monitor lists; a script that ends
at its first failure (`set -e`) and is restarted; a file truncated before it is
written; lost replies of Jenkins and of the plug; commands that take effect
after their call failed, or after their process was killed; a child killed at
its timeout in the middle of a power cycle, and two processes looking at the
same outlet; provisioning that is undone by the tests; verdicts computed from
state left over from an earlier validation or command; a console without message
boundaries, on which a prompt has no newline and an answer no name. `hazards` in
`PROJECT.json` has every one at its line.

## 2. Modules

    NfsMonitor      --- MCNfsMonitor     NfsMonitorProofs

    PowerOutlet     the contract of a power controller
      ^ implemented by
    PowerControl    --- MCPowerControl   PowerControlProofs
      (PowerOutlet)
      ^ used by
    TestRun         --- MCTestRun        TestRunProofs
      ^ implemented by
    PoweredRun      --- MCPoweredRun     PoweredRunProofs
      (TestRun, PowerControl)

    TcpSerial       the console line as the adapter reads it
      ^ instantiated by
    BootValidator   --- MCBootValidator  BootValidatorProofs
    UartTester      --- MCUartTester     UartTesterProofs

    LogFeed         what a log may be expected to keep
      ^ implemented by
    ElkReporter
    PrometheusReporter
      ^ composed in
    Reporters       --- MCReporters      ReporterProofs

    JtagController  --- MCJtagController JtagControllerProofs

Left, the models; then the module TLC runs, and the proofs. `IInv` (`ElkIInv`
and `PromIInv` in the reporters), at the end of a model, is the inductive
invariant its proofs are about; the runs check it too.

### NfsMonitor

The monitor (`Start` ... `Wake`, and `Exit` for every way the script ends),
Jenkins' replies (`Accepted`, `Refused`, `ReplyLost`) and the environment
(publishers, cleanup, the mount, the clock). One action is one step of the
script that something else can come between: listing (`Scan`,
`find_new_artifacts`), reading one manifest (`Extract`, `ExtractFails`), the
answer of curl, truncating `STATE_FILE` and writing it (`Truncate`, `Store`: a
redirection empties the file before `echo` runs). `set -e` makes a manifest
that fails the end of the script (`process_new_artifact` returns 1 to line 265),
so `ExtractFails`, `Refused`, `ReplyLost` and `Crash` all end in `Exit`.

`state_file = 0` stands for a missing file and for an empty one: the script
reads both as older than everything. A list is worked off in an arbitrary
order, since `find` gives none. `manifest[f].gen` counts the writes of a
manifest and is a ghost: what Jenkins has built (`built`) is about writes, not
names. One clock stamps mtimes and watermark.

`Faults` says what the environment may do, so that one specification serves the
safety runs (everything), the liveness run (what the monitor recovers from) and
the violations (one fault each).

### PowerOutlet and PowerControl

`PowerOutlet` is what callers may rely on. An outlet is at a position and has a
`target`, the position it was last told to take, which it may take later. A call
(`on`, `off`, `cycle`, `state`, `wait_on`, `wait_off`) may give commands while it
lasts, and ends with a reply. `Truthful` is the promise: a switching call that
answers True leaves the outlet where it says with nothing on its way, a cycle
that answers True has cut the power (`cut` remembers whether the board was dark
at some time in the call), a reading is the outlet's position, and False, an
exception or "unknown" promise nothing.

`PowerControl` is the code: the base class's `turn_on`, `turn_off`,
`power_cycle`, `wait_for_state` and event history over the four controllers of
`create_power_controller`. The smart plug reads the state, POSTs, waits two
seconds and reads again, and any of these can fail, the POST also after the
plug has got it, and the plug may switch late; the manual controller depends on
an operator, who may say no or not be there (`EOFError`); the mock controller
fails at random; the relay controller does not talk to a relay. `Promise` is
PowerOutlet's specification under the identity mapping of `outlet`, `target`,
`call`, `cut` and `answer`, with the plug's late switching as `Switch`.

The operator is taken at his word: what he confirms is so. He is asked to press Enter when
he is done and then whether it worked; the input may end at either prompt, so the
power may have been switched or not (`NobodyAtPrompt`).

### TestRun

`main` of `run_tests.py`, `TestOrchestrator`, and the pytest process as its
concurrent child (`child`), over the power controller **by its contract**: a
power call is `Outlet!Invoke`, any number of `Obey` and `Switch` steps, and
`Outlet!Respond`. `loaded` is what JTAG has put into the powered device;
`DeviceKeeps` empties it whenever the outlet goes off. `SuiteDies` is
`subprocess.run`'s timeout and any other death of pytest (`PytestKilled`), at any
moment: a command it has sent stays on its way (`target'`).

`config` is chosen in `Init` from `Configs`: which controllers and reporters
the configuration yields, the manifest (none, unreadable, BSP, legacy),
the command line's `--power-cycle`, the number of reliability cycles. `trouble` and `wrong_image` are
ghosts that remember whether anything failed and whether a test passed on
firmware other than the manifest's.

### PoweredRun

The same run over the controllers themselves: PowerControl in the place of the
contract. `Controls` and `Switches` are steps of `PowerControl`; where main or
pytest begins a call in TestRun, the controller of that process begins it here
(`CallBegins`). main and pytest each create one, so that `current_state` and
`power_events` are those of the process: pytest begins with a new controller
(`PytestStarts`), and main goes on with its own (`main_controller`) when pytest
is gone (`PytestGone`). When pytest is killed (`PytestDies`) its call vanishes
between any two steps of the controller, except for a request on the wire or a
person asked to go to the switch. `ImplementsRun` is TestRun's specification
under the identity mapping.

Which controllers: the smart plug and the operator. The relay template breaks
the contract: its `_control_relay` is a comment and `return True`, so it answers
True and switches nothing, and every property of PowerControl that speaks of the
outlet exempts it by name. The mock keeps the contract, but each process has a
mock of its own, that is to say an outlet of its own, so it cannot stand in a
run of both. That an operator's prompt raises under pytest, which captures
stdin, is one of the outcomes of the fault `eof`. `wait_for_state` is called by
neither process, hence no polls in this instance.

### TcpSerial, BootValidator, UartTester

`TcpSerial` is `TCPSerialAdapter` without a user: `wire` is what waits in the
socket, `line` what the `readline` in progress has read. The unit is a *piece*
of text, which ends its line or leaves it open, as a login or shell prompt
does; `readline` takes pieces up to one that ends the line and gives what it
has when the line pauses (`LineBreaksOff`). The other end may close the
connection or reset it, and a reset is reported once. `reset_input_buffer`
reads until the line is quiet, without a deadline (`Drain`, `Drained`).

`BootValidator` is `validate_boot_sequence` with its acceptance criteria under
the two boot tests: one validation of the boot that is under way, or cycles of
a power cycle and a validation with one validator. The fixture makes a new
validator for each test and not for each cycle, so `current_stage`, set in
`__init__` only, outlives a validation. A text of the console is what the code
can tell of it: which stages' patterns match, whether it is an error or a
warning, which messages of the criteria it holds, whether it ends its line.
`clock` ticks at any time; the code looks at it at the head of its loop only,
and so does the model. `login` and `loginBefore` are ghosts. A boot belongs to
what is written in it, so that a line of the boot before can be told from one
of this boot.

`UartTester` is `_send_command` under `test_console_interaction` and
`test_data_integrity`. The shell completes requests in order: an answer, then a
prompt without a newline; the kernel writes between them; the time of a command
may be up at any moment (`Expires`) and is looked at between lines. A command ends at a line that closes in
`#`, `$` or `>`: a prompt, which has no newline and is known by its pause
(`ReadPiece`, `ReadBreaksOff`), or a whole line of output that happens to
(`ReadPromptLike`), after which the command has given up what is still to come. An answer is
the number of its command, which the code cannot see: it sees whether the
command's pattern matches (`Matches`, and `PromptMatches`, `PrintkMatches` for
what is no answer), or the first checksum. The echo of the terminal is left
out: it ends its line and matches none of the patterns.

### LogFeed, ElkReporter, PrometheusReporter

`LogFeed` says what the test host may expect of its log: a message answered
True was handed over, perhaps to a connection that broke, or is kept; what is kept is
tried again where it stands, so that the order of the rest stays; what is no longer kept is not handed over again; the
end loses what is kept. `ElkReporter` implements it under `accepted <- logged`,
`pending <- Held`, where `Held` is the buffer and, in the middle of a flush, the
entries that failed so far followed by those not yet tried. Elasticsearch may
store an entry and time out, be down and come back; the process may be
killed between two entries of a flush. Nobody looks at what `send` to Logstash
returns, so a message can be answered True and not be there: `SentInVain` says in which
states of the socket that happens and what they become. A line broken off in the middle
(`torn`) spoils the next one, and a peer that has closed takes one more send (`stale`)
before the connection is known to be dead. `lost` names the messages concerned.

`PrometheusReporter` has the metrics with their declared labels (`Declared`), the
operations that record to them (an operation is the sequence of its writes, and
`Measured` its choice of the optional measurements that are not None), and the
groups of the Pushgateway, which a push replaces, a custom metric joins and a clear
empties. A group is the labels a call goes to the gateway with: those of the reporter,
updated with the caller's key (`GatewayLabels`). The test host and the pytest session it
starts have a reporter each (`Instances`), under one job; the host pushes with its
session as the key, pytest with "unknown". A call that answers False has changed
its group or not. `shown` is what a caller has brought under its key, and `sure` the callers
and keys of which that is known; both are ghosts.

`Reporters` is a session with both, called in any order; they share no state.

### JtagController

Every operation of `VivadoJTAGController`: the choice of a script by target and
suffix (`Method`), the temporary file, the tool that does the script's steps on
the device one at a time (`ToolSteps`), the verdict from exit code and marker,
and the timeout. `subprocess` kills the wrapper script of Vivado; the tool
behind it may live on (`strays`) and finish its script beside the next
operation. That the marker is in the output only if the script printed it is
an assumption: a Vivado that echoes its script would satisfy the search always.

## 3. Runs

Bounds are constants in the cfg: they cap clocks, writes, calls and polls, and appear
as guards (`clock < MaxClock`, `gen < MaxWrites`, `calls < MaxCalls`) or
as quantifier ranges.

| Run | Module, cfg | Shows |
|---|---|---|
| monitor_safety | MCNfsMonitor_safety | All faults. A manifest drops out of sight only if written in or after the second of the find, or if the find saw an unmounted share (`MissedOnlyInWindow`); Jenkins gets the same write twice only after a pass was cut short (`NoUnexplainedReplay`); the inductive invariant of the proofs (`IInv`). |
| monitor_live | MCNfsMonitor_live | With publishers that keep clear of the pass and whole manifests, each is built after any finite number of refusals, lost replies, crashes and removals (`PublishedIsBuilt`, `KeepsPolling`). |
| monitor_window | MCNfsMonitor_window | Violation: a manifest written during a pass is never built. |
| monitor_poison | MCNfsMonitor_poison | Violation: a manifest that never parses keeps others from being built. |
| power_all | MCPowerControl_all | All controllers, all faults. Smart plug, manual and mock controller implement PowerOutlet (`Promise`), the history agrees with the answer (`HistoryTellsAnswer`), every call returns but one to a plug that never answers (`CallsReturnOrHang`); the inductive invariant of the proofs (`IInv`). |
| run_all | MCPoweredRun | 129 configurations over a smart plug or an operator, all faults: a lost reply, a late switch, nobody at the prompt, devices and tests that fail, a pytest that dies or hangs. The run implements the run over the contract (`ImplementsRun`), so what follows holds of the code and not of the contract only: what exit code 0 means (`GreenRun`), that the board is left powered (`BoardLeftOnByCleanup`), that provisioning answers for a powered board (`ProvisionedIsPowered`), how a test can pass on the wrong firmware (`WrongImageExplained`), what a failure comes from (`FailureExplained`), and that every run ends (`Terminates`); the inductive invariant of the proofs (`PoweredIInv`, TestRun's `IInv` and the controllers'). |
| run_firmware | MCTestRun | Violation of "Links test results back to exact build" (`ResultsTraceToBuild`). Without any fault: the first tests pass on the manifest's firmware, the reliability test power-cycles what JTAG loaded away, its cycles are counted and the tests after it pass on what the board starts by itself, and the run exits with 0 and reports the manifest's build. |
| boot_all | MCBootValidator_all | Two tests of two cycles on a console that may write, pause, close or reset at any time. A validation that passes without having read a login line of its boot took it from a stage left by the validation before, at the first line it read (`StalePassExplained`); it judges lines of its own boot only (`JudgesOwnBoot`); a login line read in time is not reported as a timeout unless another stage's words stand before it on the line (`LoginNotMissed`); it ends once the console pauses (`ValidationEnds`); `IInv`. |
| boot_stale | MCBootValidator_stale | Violation of "until completion or timeout" (`CompletionAwaited`), under the criteria of the shipped `config.yaml`. The first cycle reads U-Boot, Linux and the login prompt and is counted; the validation of the next boot is over at its first line, one that belongs to no stage, and rejects a boot that is under way. |
| uart | MCUartTester | A command reads nothing that was read away before it (`CleanStart`) and another command's answer only if that is an earlier one and some command up to it had ended without a prompt (`ForeignAnswerExplained`); what a success and a wrong checksum mean then (`SuccessExplained`, `MismatchExplained`); a test ends once the kernel is quiet (`TestEnds`); `IInv`. |
| reporters | MCReporters | The ELK reporter implements LogFeed (`ImplementsFeed`); what it answered True for has arrived, is held, or was sent in vain: in part, behind a part, or on a connection the peer had closed (`AcceptedIsAccounted`); duplicates come from requests that were stored and not answered (`DuplicatesExplained`); what is held is in order, also in the middle of a flush (`HeldInOrder`). Of all measurements only the error rate of the UART is refused by its metric (`RecordsFit`); what a reporter brought to the gateway under a key stays there, whatever it does with another key and another reporter with the same one (`PushedStays`); the inductive invariants of both (`IInv`). |
| jtag | MCJtagController | A bitstream that was flashed with success is in the device unless a tool that outlived its timeout interferes (`FlashedImageLoaded`); a boot image answered with success and not started is one whose suffix made it a bitstream (`BootWithoutReset`); every operation returns (`OperationEnds`); `IInv`. |

Why the bounds are enough. Two manifests are the least for which one can stand
behind the other on a list and be left out when it fails; two writes each, for one
written again while it is being processed; three seconds, so that a find, a
write and a mark fall into all orders and a later pass sees the result. Three power calls let a call that failed meet the late
command of the one before and a third tell the result; two polls let
`wait_for_state` miss and hit. A run makes its own calls and needs no such bounds, and the
histories of its two controllers are kept whole. Two reliability cycles let
a failure come first or last, but none is tolerated (the rate is 0.9); ten are
checked in one configuration, where one is; a third failed cycle (`MaxFailed`) would change
nothing that the second has not. For the validator, two cycles give a
validation one to inherit from and two tests a new validator; one tick of
timeout separates before and after; one piece in the socket is enough for a
line that arrives at any moment, since what is read is gone at once and what
is joined is joined in `line`. For the UART tester, an answer of the first of three
commands can be late for the second and for the third, and one piece in the
socket suffices for the same reason (two commands and two pieces give the same results). Three log entries
make a flush with one before, one at and one after the entry that fails; two
copies are a duplicate; as the two reporters share nothing, a behaviour of that run exercises
one of them. Two instances of the Prometheus reporter with the keys "session", "unknown" and none
make groups that differ in the instance only and in the key only; one record tells a
registry from an empty one, and after it only the gateway is called. Three JTAG operations are one that leaves a tool behind, one
it interferes with, and one after it.

`CHECK_DEADLOCK FALSE` where the program stops: a run of TestRun or PoweredRun exits, and the
client of PowerControl makes no more than `MaxCalls` calls; JtagController, BootValidator
and UartTester end with their last operation, test or command, ElkReporter when it is
closed. The monitor never
stops and is checked for deadlock.

## 4. Fairness

- NfsMonitor: weak fairness of the script's steps, of Jenkins' reply and of the
  remount. The script blocks on curl only; systemd restarts the unit for ever
  (`Restart=always`, `nfs-monitor.service`). curl has no `--max-time`, so that it
  returns is an assumption. No fairness on publishers, clock
  or faults. `PublishedIsBuilt` and `KeepsPolling` are conditional on `Settles`: from some
  moment on Jenkins accepts and nobody kills the monitor. Without it nothing can be promised,
  since `set -e` makes every refusal an exit.
- PowerControl: weak fairness of the controller's own steps: sleeps end,
  the HTTP library returns or raises (except with the fault `hang`), the
  operator answers or the prompt ends; and of the plug's switching, which matters only for a plug
  without the fault `slow`, since any other is verified whether it has switched or not.
- PoweredRun: weak fairness of main, of a controller's steps (so of a plug that answers: `hang`
  is not among the faults of this run, since a plug that never answers main keeps it for good, as
  `CallsReturnOrHang` says), and of the timeout of `subprocess.run`. None for pytest, which may
  hang anywhere, and none for the plug's switching.
- BootValidator, UartTester: weak fairness of the test's own steps and of time. Neither
  gives up on a console that talks without pause (`reset_input_buffer` has no
  deadline, a line no length), so both liveness properties begin with
  `<>[][~Console]_vars` or `<>[][~Printk]_vars`: from some moment on the console, or the
  kernel, is quiet. The shell and the peer owe nothing.
- JtagController: weak fairness of the timeout only; the tool may hang anywhere.
- The reporters have no liveness property: what is not delivered at the end is lost.

## 5. Where code and documents disagree

Shown by runs that expect a violation, and quoted in `findings`: a manifest that is
published during a pass is never built (monitor_window); one that does not parse stops
the others (monitor_poison); a run reports a build as tested although the reliability
test has power-cycled its firmware away (run_firmware); and a validation after a
successful one does not wait for the boot (boot_stale).

The stage a validator keeps needs some care to state. A first line that matches the
pattern of an earlier stage moves `current_stage` back, and nothing is wrong then; a first
line that matches none ends the validation. What that means depends on the criteria: both
shipped configurations require messages (`required_boot_messages`), so the validation
is rejected, and with two or three cycles and a rate of 0.9 the reliability test fails
on a board that boots; without required messages it would be passed, which is what
`StalePassExplained` is about.

Met while modelling, and written into a property as an exception:

- the relay template answers True for a switch it does not make
  (`kind # "relay_board"` in `Promise`);
- `session.timeout = 10` of the smart plug has no effect in requests
  (`CallsReturnOrHang`);
- cleanup looks up `config['board_type']`, which the shipped configuration lacks,
  before it looks at the power (`BoardLeftOnByCleanup`);
- a BSP manifest, which `parse_deployment_manifest` accepts, has no `spec` for
  `_flash_firmware` (`FailureExplained`);
- `record_uart_metrics` gives the error rate a label its metric does not have
  (`RecordsFit`);
- `flash_image` takes a boot image called .bin for a bitstream (`BootWithoutReset`);
- forbidden messages are looked for among lines of type info, so one that matches an
  error pattern counts as an error only (`AddMessage` of BootValidator);
- `send` to Logstash may take part of a line, and its answer is not looked at
  (`lost` in `AcceptedIsAccounted`);
- a whole line of output that closes in `#`, `$` or `>` is taken for the prompt
  (`gaveUp` in `ForeignAnswerExplained` and `SuccessExplained`);
- the pattern of `whoami` matches every prompt of root, that of `date` any time stamp
  (`SuccessExplained`).

## 6. Proofs

Every theorem is for every value of the constants: any number of manifests, writes,
seconds, calls, polls, cycles, tests, commands, operations and log entries, any set of
faults, patterns, texts and messages. Each module proves `Spec => []IInv` from
`Init => IInv` and one lemma per action, and draws the properties from it.

- `NfsMonitorProofs`: `TypeCorrect`, `Invariance` (`IInv`), `ReplayExplained`
  (`NoUnexplainedReplay`) and `WindowOnly` (`MissedOnlyInWindow`). `IInv` is
  needed because the action property speaks of the moment a manifest is lost
  (the mark), and what makes it true was decided at the find: `PassInv` says
  that through a pass, every unbuilt manifest newer than the watermark the pass
  started from is on its list, or was written in the window, or the find was
  blind. `ReplayInv` says that a build already made is found again only if the manifest
  is in `replay`.
- `PowerControlProofs`: `TypeCorrect`, `Invariance` (`IInv`), `HistoryCorrect`, `Implements`
  (`Spec => Promise`, but for the relay template), `ContractStaysPut` and `StaysPutAlways`.
  `ControlInv` ties every step of a
  controller to what it has already made the outlet do: the step belongs to this
  kind of controller and turns a way this call may turn; a plug about to be
  verified was last told what it is verified for; a call that has seen the outlet
  off, or is in the second half of a cycle, has `cut`. Each action is then shown to be a step
  of PowerOutlet or to leave its variables alone. `IInv` adds the history, which `ControlInv`
  does not need: a controller's invariant is so kept also by a process that takes it up with
  another history, as PoweredRun's do. `ContractStaysPut` says what the contract is worth, whoever keeps it: once a
  switching call has answered True, no late command of an earlier call moves the outlet.
- `TestRunProofs`: `RunInvariant` (`IInv`), `GreenRunTheorem`, `BoardLeftOnTheorem`,
  `ProvisionedIsPoweredTheorem`, `WrongImageTheorem`, `FailureTheorem`. All five speak of
  the end of a run, or of a moment long after the call that decided it. `CallInv` says
  which call of the power controller may be under way where, which is what lets a reply be
  read as that of the call made there; `ProgressInv` what each stage of main and of pytest
  has achieved; `PowerInv` that from the power cycle of provisioning on the outlet is on and
  told to stay so, until a call of pytest fails; `ImageInv` what JTAG has loaded by which
  stage; `CauseInv` that without a fault nothing has failed. The controller enters through
  PowerOutlet's `Truthful` only.
- `PoweredRunProofs`: `PoweredInvariance` (`PoweredIInv`), `PoweredImplements`
  (`PoweredSpec => ImplementsRun`) and `PoweredCorrect`, which draws TestRun's five properties
  for the run over the controllers. Nothing is proved twice: the module instantiates
  PowerControlProofs for the controllers of the run (`P`) and cites its lemmas on how a step keeps
  `ControlInv` and what it refines; what is left to show is the seams. A controller taken into use between
  calls keeps its invariant (`TakesKeeps`); main starts pytest and sees it end between calls only
  (`NoCallOutside`, from TestRun's `CallInv`); what a killed controller has told the outlet is a
  command of its call (`PytestDiesRefines`); and a step of a controller is one of TestRun's
  `PowerMoves` or `PowerAnswers`, or nothing its caller or the board can tell
  (`ControllersRefine`), for which a board without power must have nothing loaded.
- `BootValidatorProofs`: `BootInvariant` (`IInv`), `JudgesOwnBootTheorem`, `StalePassTheorem`,
  `LoginTheorem`. `OwnInv` says that between the reset of the buffer and the verdict
  nothing of another boot is in the socket or in the line being read; `StageInv` that
  a stage left at `login_ready` came from a login line of before, and that no line has been
  read yet; `BootInv` bounds the boots of a session by its cycles. All of it holds for any
  set of texts and stages, and with TcpSerial's closed and reset connections.
- `UartTesterProofs`: `UartInvariant` (`IInv`), `CleanStartTheorem`, `ForeignAnswerTheorem`,
  `SuccessTheorem`, `MismatchTheorem`. `OrderInv` says that the answers under way are in the
  order of their commands, none of a later one; `ResetInv` that a command whose reset ended
  with nothing owed finds nothing of an earlier one; `LeftInv` that an answer is left
  behind only by a command that gave up; `PromptInv`, the one not seen in the code, that as
  long as no earlier command gave up, a prompt that can be read means that the shell owes
  nothing. The last needs the least command that gave up; `LeastNumber` has it
  from the well-foundedness of the numbers, without induction.
- `JtagControllerProofs`: `JtagInvariant` (`IInv`), `FlashedImageTheorem`,
  `BootWithoutResetTheorem`. `ScriptInv` says that what is left of a script is a suffix of
  it; `DeviceInv` what the device holds when that suffix is all that is left, or when the
  marker is printed, unless a tool of an earlier operation wrote last. How many
  tools live on, and what they still do, is arbitrary.
- `ReporterProofs`. For ElkReporter: `ElkInvariant` (`ElkIInv`), `AccountedTheorem`, `DuplicatesTheorem`,
  `OrderTheorem`, and `FeedTheorem` (`ElkSpec => ImplementsFeed`). `FreshInv` says that
  nothing has happened to a message before it is logged, and `FlushInv` that a flush leaves no
  remainder. The refinement rests on two lemmas on sequences: an entry that fails again
  leaves `Held` as it is, though it moves from the untried to the failed (`EntryStays`), and one
  that is handed over is `RemoveAt` of the place behind those that failed (`EntryGoes`). Every step of
  the reporter is then an accepted message, a retry, the end, or leaves LogFeed's variables alone.
  For PrometheusReporter: `PrometheusInvariant` (`PromIInv`), `RecordsFitTheorem`,
  `PushedStaysTheorem`. The last rests on the labels of a call telling its reporter and
  its key (`LabelsTellCaller`): the reporter's are found at `instance`, which no key may
  contain, and the key is what remains; so a call changes its own group (`CallKeeps`) and no
  other caller's, and what its group holds is what it brought or nothing one is sure
  of (`ReplaceKeeps`, `PushCustomKeeps`). `Sound`, shown of each operation, says that its writes fit
  their metrics but for `uart_error_rate`, and that this one, if there, is the last: the
  others are made before the exception. For both: `ReportersCompose`
  (`Spec => ElkSpec /\ PromSpec`), and with it `ReportersInvariant` (`IInv`).

Three things came out of the proofs. A flush takes an entry out by its place, not by its
value, and LogFeed's `Retry` now says so; as no entry is pending twice the steps are the
same. And TestRun's `ProgressInv` needs
`child = "session_cycling" => config.session_cycle`, without which a power cycle
of the session, and so a device without its firmware, would be explained by nothing. And the
composition of run and controllers does not hold with the mock, which had been taken for
granted as it implements the contract: two processes with a mock each have two outlets.

The assumptions are those in the modules (`NfsMonitorAssumption` and its like):
bounds are naturals, faults are among the kinds named, and a text or an image has the attributes the
code looks at, and no grouping key has the label `job` or `instance` (no caller in the
repository passes one). TLC evaluates them in every run.

Only model-checked: everything under fairness (`PublishedIsBuilt`, `KeepsPolling`,
`CallsReturnOrHang`, `Terminates`, `ValidationEnds`, `TestEnds`, `OperationEnds`), which
is out of the prover's reach, as `ENABLED` and induction over data are. Every invariant and
every action property of a passing run is a theorem. The violations are
counterexamples and need no proof.

## 7. What is not modelled

- Components with status `not_modelled` in `PROJECT.json`, with the reason there.
- In NfsMonitor: a share clock that differs from the host's; a curl that
  never returns; the parameters of a build.
- In PowerControl: the wording of events, HTTP status codes (any but a good
  JSON answer is a failed call), the lengths of sleeps. A sleep is the time in which the plug may
  or may not have switched.
- In TestRun and PoweredRun: mock-hardware mode; a keyboard interrupt; reporters, beyond
  where looking up `config['board_type']` for them raises;
  artifacts the manifest does not list (a legacy manifest without
  `spec.artifacts` fails like a BSP one). The child reads its own
  `config.yaml`; it is taken to control the same outlet. Tests other than the reliability cycles
  pass or fail, and pass only on a powered board.
- In BootValidator: the pyserial connection, the report and the durations of stages.
  Power cycles of its tests succeed or fail; PowerControl says what that means.
- In UartTester: the performance test, whose throughput is computed from a duration
  that is set after it and is always 0; characters that are lost or garbled on the line,
  for which `MismatchExplained` is the baseline; the terminal's echo.
- In the reporters: searches and statistics, which read only; the search for the
  Vivado installation in JtagController, done at construction.
- Ethernet tester: iperf3 and ssh do its work; that `recv_exit_status` is awaited before
  the output is read is listed as a hazard. Mock validators, pipelines and the other shell scripts:
  reasons in `PROJECT.json`.

## 8. Plan

1. Proofs: TcpSerial's operations as lemmas shared by the proofs of its two users.
2. Models: `EthernetTester` and the shell scripts under `set -e`, the pipelines' change
   detection; a second, skewed clock in NfsMonitor.

---------------------------- MODULE TestRunProofs ----------------------------
(***************************************************************************)
(* Proofs about TestRun, for every set of configurations, any number of    *)
(* cycles and every combination of faults: its inductive invariant IInv,   *)
(* and the safety properties that follow from it.                          *)
(***************************************************************************)
EXTENDS TestRun, TLAPS

USE TestRunAssumption
USE DEF Outlet!Positions, Outlet!Queries, Outlet!Switching, Outlet!Calls,
        Outlet!Replies, MainSteps, ChildSteps, Provisioning, Closing,
        BadReplies

(* What the assumption says of this run's configuration.                   *)
LEMMA ConfigFacts ==
  ASSUME TypeOK
  PROVE  /\ config.artifacts \subseteq Artifacts
         /\ config.manifest \in {"none", "unreadable", "bsp", "legacy"}
         /\ config.cycles \in Nat \ {0}
<1>1. config \in Config
  BY DEF TypeOK
<1> QED
  BY <1>1 DEF Config

(* IInv is kept when parse_deployment_manifest returns, or main returns 1. *)
LEMMA ParseManifestKeeps ==
  ASSUME IInv, ParseManifest
  PROVE  IInv'
<1> USE DEF ParseManifest, Abort, Kept, Goto, power, session, main
<1>1. TypeOK'
  <2>1. Outlet!TypeOK'
    BY DEF IInv, TypeOK, Outlet!TypeOK, CallInv
  <2>2. loaded' \subseteq Artifacts
    BY DEF IInv, TypeOK, Artifacts
  <2> QED
    BY <2>1, <2>2 DEF IInv, TypeOK, ProgressInv
<1>2. CallInv'
  BY DEF IInv, TypeOK, Outlet!TypeOK, CallInv, Awaits, Answered, ProgressInv
<1>3. ProgressInv'
  BY DEF IInv, TypeOK, ProgressInv, CallInv, Answered
<1>4. PowerInv'
  BY DEF IInv, TypeOK, Outlet!TypeOK, CallInv, Awaits, PowerInv, InCycle,
         Settled, Said, Answered, ProgressInv
<1>5. ImageInv'
  BY DEF IInv, TypeOK, ImageInv, RightImage, ProgressInv, PowerInv, Settled,
         InCycle, Artifacts, Awaits, CallInv
<1>6. CauseInv'
  BY DEF IInv, TypeOK, CauseInv, Excused, ProgressInv, CallInv, Answered
<1>7. WrongImageExplained'
  BY DEF IInv, TypeOK, ProgressInv, ImageInv, RightImage, WrongImageExplained
<1>8. BoardLeftOnByCleanup'
  BY DEF IInv, TypeOK, ProgressInv, CallInv, Answered, Said, PowerInv,
         BoardLeftOnByCleanup, BoardLeftOn, Exited, PowerFailed, Awaits
<1> QED BY <1>1, <1>2, <1>3, <1>4, <1>5, <1>6, <1>7, <1>8 DEF IInv

(* IInv is kept when provision_hardware calls power_cycle, or fails.       *)
LEMMA StartProvisioningKeeps ==
  ASSUME IInv, StartProvisioning
  PROVE  IInv'
<1> USE DEF StartProvisioning, ProvisionFails, Abort, Kept, Goto, Ask,
            Outlet!Invoke, power, session, main
<1>1. TypeOK'
  <2>1. Outlet!TypeOK'
    BY DEF IInv, TypeOK, Outlet!TypeOK, CallInv
  <2>2. loaded' \subseteq Artifacts
    BY DEF IInv, TypeOK, Artifacts
  <2> QED
    BY <2>1, <2>2 DEF IInv, TypeOK, ProgressInv
<1>2. CallInv'
  BY DEF IInv, TypeOK, Outlet!TypeOK, CallInv, Awaits, Answered, ProgressInv
<1>3. ProgressInv'
  BY DEF IInv, TypeOK, ProgressInv, CallInv, Answered
<1>4. PowerInv'
  BY DEF IInv, TypeOK, Outlet!TypeOK, CallInv, Awaits, PowerInv, InCycle,
         Settled, Said, Answered, ProgressInv
<1>5. ImageInv'
  BY DEF IInv, TypeOK, ImageInv, RightImage, ProgressInv, PowerInv, Settled,
         InCycle, Artifacts, Awaits, CallInv
<1>6. CauseInv'
  BY DEF IInv, TypeOK, CauseInv, Excused, ProgressInv, CallInv, Answered
<1>7. WrongImageExplained'
  BY DEF IInv, TypeOK, ProgressInv, ImageInv, RightImage, WrongImageExplained
<1>8. BoardLeftOnByCleanup'
  BY DEF IInv, TypeOK, ProgressInv, CallInv, Answered, Said, PowerInv,
         BoardLeftOnByCleanup, BoardLeftOn, Exited, PowerFailed, Awaits
<1> QED BY <1>1, <1>2, <1>3, <1>4, <1>5, <1>6, <1>7, <1>8 DEF IInv

(* IInv is kept when main looks at what power_cycle returned.              *)
LEMMA CycledKeeps ==
  ASSUME IInv, Cycled
  PROVE  IInv'
<1> USE DEF Cycled, Proceed, ProvisionFails, Abort, Kept, Goto, power,
            session, main
<1>0. /\ config.artifacts \subseteq Artifacts
      /\ config.manifest \in {"none", "unreadable", "bsp", "legacy"}
      /\ config.cycles \in Nat \ {0}
  BY ConfigFacts DEF IInv
<1>1. TypeOK'
  <2>1. Outlet!TypeOK'
    BY DEF IInv, TypeOK, Outlet!TypeOK, CallInv
  <2>2. loaded' \subseteq Artifacts
    BY DEF IInv, TypeOK, Artifacts
  <2> QED
    BY <2>1, <2>2 DEF IInv, TypeOK, ProgressInv
<1>2. CallInv'
  BY <1>0 DEF IInv, TypeOK, Outlet!TypeOK, CallInv, Awaits, Answered,
         ProgressInv
<1>3. ProgressInv'
  BY <1>0 DEF IInv, TypeOK, ProgressInv, CallInv, Answered
<1>4. PowerInv'
  BY <1>0 DEF IInv, TypeOK, Outlet!TypeOK, CallInv, Awaits, PowerInv, InCycle,
         Settled, Said, Answered, ProgressInv
<1>5. ImageInv'
  BY <1>0 DEF IInv, TypeOK, ImageInv, RightImage, ProgressInv, PowerInv,
         Settled, InCycle, Artifacts, Awaits, CallInv
<1>6. CauseInv'
  BY <1>0 DEF IInv, TypeOK, CauseInv, Excused, ProgressInv, CallInv, Answered
<1>7. WrongImageExplained'
  BY <1>0 DEF IInv, TypeOK, ProgressInv, ImageInv, RightImage,
         WrongImageExplained
<1>8. BoardLeftOnByCleanup'
  BY <1>0 DEF IInv, TypeOK, ProgressInv, CallInv, Answered, Said, PowerInv,
         BoardLeftOnByCleanup, BoardLeftOn, Exited, PowerFailed, Awaits
<1> QED BY <1>1, <1>2, <1>3, <1>4, <1>5, <1>6, <1>7, <1>8 DEF IInv

(* IInv is kept when _flash_firmware has no JTAG controller.               *)
LEMMA SkipFlashKeeps ==
  ASSUME IInv, SkipFlash
  PROVE  IInv'
<1> USE DEF SkipFlash, Proceed, Kept, Goto, power, session, main
<1>1. TypeOK'
  BY DEF IInv, TypeOK, Outlet!TypeOK, ProgressInv, CallInv
<1>2. CallInv'
  BY DEF IInv, TypeOK, Outlet!TypeOK, CallInv, Awaits, Answered, ProgressInv
<1>3. ProgressInv'
  BY DEF IInv, TypeOK, ProgressInv, CallInv, Answered
<1>4. PowerInv'
  BY DEF IInv, TypeOK, Outlet!TypeOK, CallInv, Awaits, PowerInv, InCycle,
         Settled, Said, Answered, ProgressInv
<1>5. ImageInv'
  BY DEF IInv, TypeOK, ImageInv, RightImage, ProgressInv, PowerInv, Settled,
         InCycle, Artifacts, Awaits, CallInv
<1>6. CauseInv'
  BY DEF IInv, TypeOK, CauseInv, Excused, ProgressInv, CallInv, Answered
<1>7. WrongImageExplained'
  BY DEF IInv, TypeOK, ProgressInv, ImageInv, RightImage, WrongImageExplained
<1>8. BoardLeftOnByCleanup'
  BY DEF IInv, TypeOK, ProgressInv, CallInv, Answered, Said, PowerInv,
         BoardLeftOnByCleanup, BoardLeftOn, Exited, PowerFailed, Awaits
<1> QED BY <1>1, <1>2, <1>3, <1>4, <1>5, <1>6, <1>7, <1>8 DEF IInv

(* IInv is kept when _flash_firmware meets a BSP manifest.                 *)
LEMMA FlashLacksSpecKeeps ==
  ASSUME IInv, FlashLacksSpec
  PROVE  IInv'
<1> USE DEF FlashLacksSpec, ProvisionFails, Abort, Kept, Goto, power, session,
            main
<1>1. TypeOK'
  BY DEF IInv, TypeOK, Outlet!TypeOK, ProgressInv, CallInv
<1>2. CallInv'
  BY DEF IInv, TypeOK, Outlet!TypeOK, CallInv, Awaits, Answered, ProgressInv
<1>3. ProgressInv'
  BY DEF IInv, TypeOK, ProgressInv, CallInv, Answered
<1>4. PowerInv'
  BY DEF IInv, TypeOK, Outlet!TypeOK, CallInv, Awaits, PowerInv, InCycle,
         Settled, Said, Answered, ProgressInv
<1>5. ImageInv'
  BY DEF IInv, TypeOK, ImageInv, RightImage, ProgressInv, PowerInv, Settled,
         InCycle, Artifacts, Awaits, CallInv
<1>6. CauseInv'
  BY DEF IInv, TypeOK, CauseInv, Excused, ProgressInv, CallInv, Answered
<1>7. WrongImageExplained'
  BY DEF IInv, TypeOK, ProgressInv, ImageInv, RightImage, WrongImageExplained
<1>8. BoardLeftOnByCleanup'
  BY DEF IInv, TypeOK, ProgressInv, CallInv, Answered, Said, PowerInv,
         BoardLeftOnByCleanup, BoardLeftOn, Exited, PowerFailed, Awaits
<1> QED BY <1>1, <1>2, <1>3, <1>4, <1>5, <1>6, <1>7, <1>8 DEF IInv

(* IInv is kept when the boot loader is programmed, if listed.             *)
LEMMA FlashBootloaderKeeps ==
  ASSUME IInv, FlashBootloader
  PROVE  IInv'
<1> USE DEF FlashBootloader, Program, Proceed, Kept, Goto, power, session,
            main
<1>0. /\ config.artifacts \subseteq Artifacts
      /\ config.manifest \in {"none", "unreadable", "bsp", "legacy"}
      /\ config.cycles \in Nat \ {0}
  BY ConfigFacts DEF IInv
<1>1. TypeOK'
  <2>1. Outlet!TypeOK'
    BY DEF IInv, TypeOK, Outlet!TypeOK, CallInv
  <2>2. loaded' \subseteq Artifacts
    BY DEF IInv, TypeOK, Artifacts
  <2> QED
    BY <2>1, <2>2 DEF IInv, TypeOK, ProgressInv
<1>2. CallInv'
  BY <1>0 DEF IInv, TypeOK, Outlet!TypeOK, CallInv, Awaits, Answered,
         ProgressInv
<1>3. ProgressInv'
  BY <1>0 DEF IInv, TypeOK, ProgressInv, CallInv, Answered
<1>4. PowerInv'
  BY <1>0 DEF IInv, TypeOK, Outlet!TypeOK, CallInv, Awaits, PowerInv, InCycle,
         Settled, Said, Answered, ProgressInv
<1>5. ImageInv'
  BY <1>0 DEF IInv, TypeOK, ImageInv, RightImage, ProgressInv, PowerInv,
         Settled, InCycle, Artifacts, Awaits, CallInv
<1>6. CauseInv'
  BY <1>0 DEF IInv, TypeOK, CauseInv, Excused, ProgressInv, CallInv, Answered
<1>7. WrongImageExplained'
  BY <1>0 DEF IInv, TypeOK, ProgressInv, ImageInv, RightImage,
         WrongImageExplained
<1>8. BoardLeftOnByCleanup'
  BY <1>0 DEF IInv, TypeOK, ProgressInv, CallInv, Answered, Said, PowerInv,
         BoardLeftOnByCleanup, BoardLeftOn, Exited, PowerFailed, Awaits
<1> QED BY <1>1, <1>2, <1>3, <1>4, <1>5, <1>6, <1>7, <1>8 DEF IInv

(* IInv is kept when the bitstream is programmed, if listed.               *)
LEMMA FlashBitstreamKeeps ==
  ASSUME IInv, FlashBitstream
  PROVE  IInv'
<1> USE DEF FlashBitstream, Program, Proceed, Kept, Goto, power, session, main
<1>0. /\ config.artifacts \subseteq Artifacts
      /\ config.manifest \in {"none", "unreadable", "bsp", "legacy"}
      /\ config.cycles \in Nat \ {0}
  BY ConfigFacts DEF IInv
<1>1. TypeOK'
  <2>1. Outlet!TypeOK'
    BY DEF IInv, TypeOK, Outlet!TypeOK, CallInv
  <2>2. loaded' \subseteq Artifacts
    BY DEF IInv, TypeOK, Artifacts
  <2> QED
    BY <2>1, <2>2 DEF IInv, TypeOK, ProgressInv
<1>2. CallInv'
  BY <1>0 DEF IInv, TypeOK, Outlet!TypeOK, CallInv, Awaits, Answered,
         ProgressInv
<1>3. ProgressInv'
  BY <1>0 DEF IInv, TypeOK, ProgressInv, CallInv, Answered
<1>4. PowerInv'
  BY <1>0 DEF IInv, TypeOK, Outlet!TypeOK, CallInv, Awaits, PowerInv, InCycle,
         Settled, Said, Answered, ProgressInv
<1>5. ImageInv'
  <2>1. /\ config.manifest = "legacy"
        /\ loaded = config.artifacts \ {"fpga_bitstream"}
    BY DEF IInv, ImageInv
  <2>2. loaded' = config.artifacts
    BY <1>0, <2>1 DEF Artifacts
  <2> QED
    BY <2>1, <2>2 DEF IInv, TypeOK, ImageInv, RightImage, ProgressInv,
           PowerInv, Settled, InCycle, Artifacts, Awaits, CallInv
<1>6. CauseInv'
  BY <1>0 DEF IInv, TypeOK, CauseInv, Excused, ProgressInv, CallInv, Answered
<1>7. WrongImageExplained'
  BY <1>0 DEF IInv, TypeOK, ProgressInv, ImageInv, RightImage,
         WrongImageExplained
<1>8. BoardLeftOnByCleanup'
  BY <1>0 DEF IInv, TypeOK, ProgressInv, CallInv, Answered, Said, PowerInv,
         BoardLeftOnByCleanup, BoardLeftOn, Exited, PowerFailed, Awaits
<1> QED BY <1>1, <1>2, <1>3, <1>4, <1>5, <1>6, <1>7, <1>8 DEF IInv

(* IInv is kept when a download or a JTAG operation fails.                 *)
LEMMA FlashFailsKeeps ==
  ASSUME IInv, FlashFails
  PROVE  IInv'
<1> USE DEF FlashFails, Abort, Goto, power, session, main
<1>1. TypeOK'
  <2>1. Outlet!TypeOK'
    BY DEF IInv, TypeOK, Outlet!TypeOK, CallInv
  <2>2. loaded' \subseteq Artifacts
    BY DEF IInv, TypeOK, Artifacts
  <2> QED
    BY <2>1, <2>2 DEF IInv, TypeOK, ProgressInv
<1>2. CallInv'
  BY DEF IInv, TypeOK, Outlet!TypeOK, CallInv, Awaits, Answered, ProgressInv
<1>3. ProgressInv'
  BY DEF IInv, TypeOK, ProgressInv, CallInv, Answered
<1>4. PowerInv'
  BY DEF IInv, TypeOK, Outlet!TypeOK, CallInv, Awaits, PowerInv, InCycle,
         Settled, Said, Answered, ProgressInv
<1>5. ImageInv'
  BY DEF IInv, TypeOK, ImageInv, RightImage, ProgressInv, PowerInv, Settled,
         InCycle, Artifacts, Awaits, CallInv
<1>6. CauseInv'
  BY DEF IInv, TypeOK, CauseInv, Excused, ProgressInv, CallInv, Answered
<1>7. WrongImageExplained'
  BY DEF IInv, TypeOK, ProgressInv, ImageInv, RightImage, WrongImageExplained
<1>8. BoardLeftOnByCleanup'
  BY DEF IInv, TypeOK, ProgressInv, CallInv, Answered, Said, PowerInv,
         BoardLeftOnByCleanup, BoardLeftOn, Exited, PowerFailed, Awaits
<1> QED BY <1>1, <1>2, <1>3, <1>4, <1>5, <1>6, <1>7, <1>8 DEF IInv

(* IInv is kept when _wait_for_system_ready reads the power state.         *)
LEMMA WaitForSystemReadyKeeps ==
  ASSUME IInv, WaitForSystemReady
  PROVE  IInv'
<1> USE DEF WaitForSystemReady, Goto, Ask, Outlet!Invoke, power, session, main
<1>1. TypeOK'
  <2>1. Outlet!TypeOK'
    BY DEF IInv, TypeOK, Outlet!TypeOK, CallInv
  <2>2. loaded' \subseteq Artifacts
    BY DEF IInv, TypeOK, Artifacts
  <2> QED
    BY <2>1, <2>2 DEF IInv, TypeOK, ProgressInv
<1>2. CallInv'
  BY DEF IInv, TypeOK, Outlet!TypeOK, CallInv, Awaits, Answered, ProgressInv
<1>3. ProgressInv'
  BY DEF IInv, TypeOK, ProgressInv, CallInv, Answered
<1>4. PowerInv'
  BY DEF IInv, TypeOK, Outlet!TypeOK, CallInv, Awaits, PowerInv, InCycle,
         Settled, Said, Answered, ProgressInv
<1>5. ImageInv'
  BY DEF IInv, TypeOK, ImageInv, RightImage, ProgressInv, PowerInv, Settled,
         InCycle, Artifacts, Awaits, CallInv
<1>6. CauseInv'
  BY DEF IInv, TypeOK, CauseInv, Excused, ProgressInv, CallInv, Answered
<1>7. WrongImageExplained'
  BY DEF IInv, TypeOK, ProgressInv, ImageInv, RightImage, WrongImageExplained
<1>8. BoardLeftOnByCleanup'
  BY DEF IInv, TypeOK, ProgressInv, CallInv, Answered, Said, PowerInv,
         BoardLeftOnByCleanup, BoardLeftOn, Exited, PowerFailed, Awaits
<1> QED BY <1>1, <1>2, <1>3, <1>4, <1>5, <1>6, <1>7, <1>8 DEF IInv

(* IInv is kept when the power state was read, or reading it raised.       *)
LEMMA PolledKeeps ==
  ASSUME IInv, Polled
  PROVE  IInv'
<1> USE DEF Polled, Proceed, ProvisionFails, Abort, Kept, Goto, power,
            session, main
<1>1. TypeOK'
  <2>1. Outlet!TypeOK'
    BY DEF IInv, TypeOK, Outlet!TypeOK, CallInv
  <2>2. loaded' \subseteq Artifacts
    BY DEF IInv, TypeOK, Artifacts
  <2> QED
    BY <2>1, <2>2 DEF IInv, TypeOK, ProgressInv
<1>2. CallInv'
  BY DEF IInv, TypeOK, Outlet!TypeOK, CallInv, Awaits, Answered, ProgressInv
<1>3. ProgressInv'
  BY DEF IInv, TypeOK, ProgressInv, CallInv, Answered
<1>4. PowerInv'
  BY DEF IInv, TypeOK, Outlet!TypeOK, CallInv, Awaits, PowerInv, InCycle,
         Settled, Said, Answered, ProgressInv
<1>5. ImageInv'
  BY DEF IInv, TypeOK, ImageInv, RightImage, ProgressInv, PowerInv, Settled,
         InCycle, Artifacts, Awaits, CallInv
<1>6. CauseInv'
  BY DEF IInv, TypeOK, CauseInv, Excused, ProgressInv, CallInv, Answered
<1>7. WrongImageExplained'
  BY DEF IInv, TypeOK, ProgressInv, ImageInv, RightImage, WrongImageExplained
<1>8. BoardLeftOnByCleanup'
  BY DEF IInv, TypeOK, ProgressInv, CallInv, Answered, Said, PowerInv,
         BoardLeftOnByCleanup, BoardLeftOn, Exited, PowerFailed, Awaits
<1> QED BY <1>1, <1>2, <1>3, <1>4, <1>5, <1>6, <1>7, <1>8 DEF IInv

(* IInv is kept when provision_hardware sets its flag.                     *)
LEMMA ProvisionedKeeps ==
  ASSUME IInv, Provisioned
  PROVE  IInv'
<1> USE DEF Provisioned, Kept, Goto, power, session, main
<1>1. TypeOK'
  BY DEF IInv, TypeOK, Outlet!TypeOK, ProgressInv, CallInv
<1>2. CallInv'
  BY DEF IInv, TypeOK, Outlet!TypeOK, CallInv, Awaits, Answered, ProgressInv
<1>3. ProgressInv'
  BY DEF IInv, TypeOK, ProgressInv, CallInv, Answered
<1>4. PowerInv'
  BY DEF IInv, TypeOK, Outlet!TypeOK, CallInv, Awaits, PowerInv, InCycle,
         Settled, Said, Answered, ProgressInv
<1>5. ImageInv'
  BY DEF IInv, TypeOK, ImageInv, RightImage, ProgressInv, PowerInv, Settled,
         InCycle, Artifacts, Awaits, CallInv
<1>6. CauseInv'
  BY DEF IInv, TypeOK, CauseInv, Excused, ProgressInv, CallInv, Answered
<1>7. WrongImageExplained'
  BY DEF IInv, TypeOK, ProgressInv, ImageInv, RightImage, WrongImageExplained
<1>8. BoardLeftOnByCleanup'
  BY DEF IInv, TypeOK, ProgressInv, CallInv, Answered, Said, PowerInv,
         BoardLeftOnByCleanup, BoardLeftOn, Exited, PowerFailed, Awaits
<1> QED BY <1>1, <1>2, <1>3, <1>4, <1>5, <1>6, <1>7, <1>8 DEF IInv

(* IInv is kept when pytest starts.                                        *)
LEMMA ExecuteTestSuiteKeeps ==
  ASSUME IInv, ExecuteTestSuite
  PROVE  IInv'
<1> USE DEF ExecuteTestSuite, Abort, Kept, Goto, power, session, main
<1>1. TypeOK'
  <2>1. Outlet!TypeOK'
    BY DEF IInv, TypeOK, Outlet!TypeOK, CallInv
  <2>2. loaded' \subseteq Artifacts
    BY DEF IInv, TypeOK, Artifacts
  <2> QED
    BY <2>1, <2>2 DEF IInv, TypeOK, ProgressInv
<1>2. CallInv'
  BY DEF IInv, TypeOK, Outlet!TypeOK, CallInv, Awaits, Answered, ProgressInv
<1>3. ProgressInv'
  BY DEF IInv, TypeOK, ProgressInv, CallInv, Answered
<1>4. PowerInv'
  BY DEF IInv, TypeOK, Outlet!TypeOK, CallInv, Awaits, PowerInv, InCycle,
         Settled, Said, Answered, ProgressInv
<1>5. ImageInv'
  BY DEF IInv, TypeOK, ImageInv, RightImage, ProgressInv, PowerInv, Settled,
         InCycle, Artifacts, Awaits, CallInv
<1>6. CauseInv'
  BY DEF IInv, TypeOK, CauseInv, Excused, ProgressInv, CallInv, Answered
<1>7. WrongImageExplained'
  BY DEF IInv, TypeOK, ProgressInv, ImageInv, RightImage, WrongImageExplained
<1>8. BoardLeftOnByCleanup'
  BY DEF IInv, TypeOK, ProgressInv, CallInv, Answered, Said, PowerInv,
         BoardLeftOnByCleanup, BoardLeftOn, Exited, PowerFailed, Awaits
<1> QED BY <1>1, <1>2, <1>3, <1>4, <1>5, <1>6, <1>7, <1>8 DEF IInv

(* IInv is kept when pytest has ended.                                     *)
LEMMA SuiteCompletedKeeps ==
  ASSUME IInv, SuiteCompleted
  PROVE  IInv'
<1> USE DEF SuiteCompleted, Kept, Goto, power, session, main
<1>1. TypeOK'
  BY DEF IInv, TypeOK, Outlet!TypeOK, ProgressInv, CallInv
<1>2. CallInv'
  BY DEF IInv, TypeOK, Outlet!TypeOK, CallInv, Awaits, Answered, ProgressInv
<1>3. ProgressInv'
  BY DEF IInv, TypeOK, ProgressInv, CallInv, Answered
<1>4. PowerInv'
  BY DEF IInv, TypeOK, Outlet!TypeOK, CallInv, Awaits, PowerInv, InCycle,
         Settled, Said, Answered, ProgressInv
<1>5. ImageInv'
  BY DEF IInv, TypeOK, ImageInv, RightImage, ProgressInv, PowerInv, Settled,
         InCycle, Artifacts, Awaits, CallInv
<1>6. CauseInv'
  BY DEF IInv, TypeOK, CauseInv, Excused, ProgressInv, CallInv, Answered
<1>7. WrongImageExplained'
  BY DEF IInv, TypeOK, ProgressInv, ImageInv, RightImage, WrongImageExplained
<1>8. BoardLeftOnByCleanup'
  BY DEF IInv, TypeOK, ProgressInv, CallInv, Answered, Said, PowerInv,
         BoardLeftOnByCleanup, BoardLeftOn, Exited, PowerFailed, Awaits
<1> QED BY <1>1, <1>2, <1>3, <1>4, <1>5, <1>6, <1>7, <1>8 DEF IInv

(* IInv is kept when pytest crashes, or its timeout kills it.              *)
LEMMA SuiteDiesKeeps ==
  ASSUME IInv, SuiteDies
  PROVE  IInv'
<1> USE DEF SuiteDies, PytestKilled, Goto, Outlet!Commands, power, session, main
<1>1. TypeOK'
  <2>1. Outlet!TypeOK'
    BY DEF IInv, TypeOK, Outlet!TypeOK, CallInv
  <2>2. loaded' \subseteq Artifacts
    BY DEF IInv, TypeOK, Artifacts
  <2> QED
    BY <2>1, <2>2 DEF IInv, TypeOK, ProgressInv
<1>2. CallInv'
  BY DEF IInv, TypeOK, Outlet!TypeOK, CallInv, Awaits, Answered, ProgressInv
<1>3. ProgressInv'
  BY DEF IInv, TypeOK, ProgressInv, CallInv, Answered
<1>4. PowerInv'
  BY DEF IInv, TypeOK, Outlet!TypeOK, CallInv, Awaits, PowerInv, InCycle,
         Settled, Said, Answered, ProgressInv
<1>5. ImageInv'
  BY DEF IInv, TypeOK, ImageInv, RightImage, ProgressInv, PowerInv, Settled,
         InCycle, Artifacts, Awaits, CallInv
<1>6. CauseInv'
  BY DEF IInv, TypeOK, CauseInv, Excused, ProgressInv, CallInv, Answered
<1>7. WrongImageExplained'
  BY DEF IInv, TypeOK, ProgressInv, ImageInv, RightImage, WrongImageExplained
<1>8. BoardLeftOnByCleanup'
  BY DEF IInv, TypeOK, ProgressInv, CallInv, Answered, Said, PowerInv,
         BoardLeftOnByCleanup, BoardLeftOn, Exited, PowerFailed, Awaits
<1> QED BY <1>1, <1>2, <1>3, <1>4, <1>5, <1>6, <1>7, <1>8 DEF IInv

(* IInv is kept when main computes its exit code.                          *)
LEMMA ReportKeeps ==
  ASSUME IInv, Report
  PROVE  IInv'
<1> USE DEF Report, Kept, Goto, power, session, main
<1>1. TypeOK'
  BY DEF IInv, TypeOK, Outlet!TypeOK, ProgressInv, CallInv
<1>2. CallInv'
  BY DEF IInv, TypeOK, Outlet!TypeOK, CallInv, Awaits, Answered, ProgressInv
<1>3. ProgressInv'
  BY DEF IInv, TypeOK, ProgressInv, CallInv, Answered
<1>4. PowerInv'
  BY DEF IInv, TypeOK, Outlet!TypeOK, CallInv, Awaits, PowerInv, InCycle,
         Settled, Said, Answered, ProgressInv
<1>5. ImageInv'
  BY DEF IInv, TypeOK, ImageInv, RightImage, ProgressInv, PowerInv, Settled,
         InCycle, Artifacts, Awaits, CallInv
<1>6. CauseInv'
  BY DEF IInv, TypeOK, CauseInv, Excused, ProgressInv, CallInv, Answered
<1>7. WrongImageExplained'
  BY DEF IInv, TypeOK, ProgressInv, ImageInv, RightImage, WrongImageExplained
<1>8. BoardLeftOnByCleanup'
  BY DEF IInv, TypeOK, ProgressInv, CallInv, Answered, Said, PowerInv,
         BoardLeftOnByCleanup, BoardLeftOn, Exited, PowerFailed, Awaits
<1> QED BY <1>1, <1>2, <1>3, <1>4, <1>5, <1>6, <1>7, <1>8 DEF IInv

(* IInv is kept when cleanup looks at the power, or does not get that far. *)
LEMMA CleanupKeeps ==
  ASSUME IInv, Cleanup
  PROVE  IInv'
<1> USE DEF Cleanup, Exit, Kept, Goto, Ask, Outlet!Invoke, power, session,
            main
<1>1. TypeOK'
  <2>1. Outlet!TypeOK'
    BY DEF IInv, TypeOK, Outlet!TypeOK, CallInv
  <2>2. loaded' \subseteq Artifacts
    BY DEF IInv, TypeOK, Artifacts
  <2> QED
    BY <2>1, <2>2 DEF IInv, TypeOK, ProgressInv
<1>2. CallInv'
  BY DEF IInv, TypeOK, Outlet!TypeOK, CallInv, Awaits, Answered, ProgressInv
<1>3. ProgressInv'
  BY DEF IInv, TypeOK, ProgressInv, CallInv, Answered
<1>4. PowerInv'
  BY DEF IInv, TypeOK, Outlet!TypeOK, CallInv, Awaits, PowerInv, InCycle,
         Settled, Said, Answered, ProgressInv
<1>5. ImageInv'
  BY DEF IInv, TypeOK, ImageInv, RightImage, ProgressInv, PowerInv, Settled,
         InCycle, Artifacts, Awaits, CallInv
<1>6. CauseInv'
  BY DEF IInv, TypeOK, CauseInv, Excused, ProgressInv, CallInv, Answered
<1>7. WrongImageExplained'
  BY DEF IInv, TypeOK, ProgressInv, ImageInv, RightImage, WrongImageExplained
<1>8. BoardLeftOnByCleanup'
  BY DEF IInv, TypeOK, ProgressInv, CallInv, Answered, Said, PowerInv,
         BoardLeftOnByCleanup, BoardLeftOn, Exited, PowerFailed, Awaits
<1> QED BY <1>1, <1>2, <1>3, <1>4, <1>5, <1>6, <1>7, <1>8 DEF IInv

(* IInv is kept when cleanup has read the power state.                     *)
LEMMA CheckedKeeps ==
  ASSUME IInv, Checked
  PROVE  IInv'
<1> USE DEF Checked, Exit, Kept, Goto, Ask, Outlet!Invoke, Said, Answered,
            power, session, main
<1>1. TypeOK'
  <2>1. Outlet!TypeOK'
    BY DEF IInv, TypeOK, Outlet!TypeOK, CallInv
  <2>2. loaded' \subseteq Artifacts
    BY DEF IInv, TypeOK, Artifacts
  <2> QED
    BY <2>1, <2>2 DEF IInv, TypeOK, ProgressInv
<1>2. CallInv'
  BY DEF IInv, TypeOK, Outlet!TypeOK, CallInv, Awaits, Answered, ProgressInv
<1>3. ProgressInv'
  BY DEF IInv, TypeOK, ProgressInv, CallInv, Answered
<1>4. PowerInv'
  BY DEF IInv, TypeOK, Outlet!TypeOK, CallInv, Awaits, PowerInv, InCycle,
         Settled, Said, Answered, ProgressInv
<1>5. ImageInv'
  BY DEF IInv, TypeOK, ImageInv, RightImage, ProgressInv, PowerInv, Settled,
         InCycle, Artifacts, Awaits, CallInv
<1>6. CauseInv'
  BY DEF IInv, TypeOK, CauseInv, Excused, ProgressInv, CallInv, Answered
<1>7. WrongImageExplained'
  BY DEF IInv, TypeOK, ProgressInv, ImageInv, RightImage, WrongImageExplained
<1>8. BoardLeftOnByCleanup'
  BY DEF IInv, TypeOK, ProgressInv, CallInv, Answered, Said, PowerInv,
         BoardLeftOnByCleanup, BoardLeftOn, Exited, PowerFailed, Awaits
<1> QED BY <1>1, <1>2, <1>3, <1>4, <1>5, <1>6, <1>7, <1>8 DEF IInv

(* IInv is kept when cleanup's turn_on has returned.                       *)
LEMMA RestoredKeeps ==
  ASSUME IInv, Restored
  PROVE  IInv'
<1> USE DEF Restored, Exit, Kept, Goto, power, session, main
<1>1. TypeOK'
  <2>1. Outlet!TypeOK'
    BY DEF IInv, TypeOK, Outlet!TypeOK, CallInv
  <2>2. loaded' \subseteq Artifacts
    BY DEF IInv, TypeOK, Artifacts
  <2> QED
    BY <2>1, <2>2 DEF IInv, TypeOK, ProgressInv
<1>2. CallInv'
  BY DEF IInv, TypeOK, Outlet!TypeOK, CallInv, Awaits, Answered, ProgressInv
<1>3. ProgressInv'
  BY DEF IInv, TypeOK, ProgressInv, CallInv, Answered
<1>4. PowerInv'
  BY DEF IInv, TypeOK, Outlet!TypeOK, CallInv, Awaits, PowerInv, InCycle,
         Settled, Said, Answered, ProgressInv
<1>5. ImageInv'
  BY DEF IInv, TypeOK, ImageInv, RightImage, ProgressInv, PowerInv, Settled,
         InCycle, Artifacts, Awaits, CallInv
<1>6. CauseInv'
  BY DEF IInv, TypeOK, CauseInv, Excused, ProgressInv, CallInv, Answered
<1>7. WrongImageExplained'
  BY DEF IInv, TypeOK, ProgressInv, ImageInv, RightImage, WrongImageExplained
<1>8. BoardLeftOnByCleanup'
  BY DEF IInv, TypeOK, ProgressInv, CallInv, Answered, Said, PowerInv,
         BoardLeftOnByCleanup, BoardLeftOn, Exited, PowerFailed, Awaits
<1> QED BY <1>1, <1>2, <1>3, <1>4, <1>5, <1>6, <1>7, <1>8 DEF IInv

(* IInv is kept when session_setup_teardown starts.                        *)
LEMMA SessionSetupKeeps ==
  ASSUME IInv, SessionSetup
  PROVE  IInv'
<1> USE DEF SessionSetup, ChildGoto, ChildKept, Counters, Ghosts, Ask,
            Outlet!Invoke, power, session, main
<1>0. /\ config.artifacts \subseteq Artifacts
      /\ config.manifest \in {"none", "unreadable", "bsp", "legacy"}
      /\ config.cycles \in Nat \ {0}
  BY ConfigFacts DEF IInv
<1>1. TypeOK'
  <2>1. Outlet!TypeOK'
    BY DEF IInv, TypeOK, Outlet!TypeOK, CallInv
  <2>2. loaded' \subseteq Artifacts
    BY DEF IInv, TypeOK, Artifacts
  <2> QED
    BY <2>1, <2>2 DEF IInv, TypeOK, ProgressInv
<1>2. CallInv'
  BY <1>0 DEF IInv, TypeOK, Outlet!TypeOK, CallInv, Awaits, Answered,
         ProgressInv
<1>3. ProgressInv'
  BY <1>0 DEF IInv, TypeOK, ProgressInv, CallInv, Answered
<1>4. PowerInv'
  BY <1>0 DEF IInv, TypeOK, Outlet!TypeOK, CallInv, Awaits, PowerInv, InCycle,
         Settled, Said, Answered, ProgressInv
<1>5. ImageInv'
  BY <1>0 DEF IInv, TypeOK, ImageInv, RightImage, ProgressInv, PowerInv,
         Settled, InCycle, Artifacts, Awaits, CallInv
<1>6. CauseInv'
  BY <1>0 DEF IInv, TypeOK, CauseInv, Excused, ProgressInv, CallInv, Answered
<1>7. WrongImageExplained'
  BY <1>0 DEF IInv, TypeOK, ProgressInv, ImageInv, RightImage,
         WrongImageExplained
<1>8. BoardLeftOnByCleanup'
  BY <1>0 DEF IInv, TypeOK, ProgressInv, CallInv, Answered, Said, PowerInv,
         BoardLeftOnByCleanup, BoardLeftOn, Exited, PowerFailed, Awaits
<1> QED BY <1>1, <1>2, <1>3, <1>4, <1>5, <1>6, <1>7, <1>8 DEF IInv

(* IInv is kept when the session's power cycle has returned.               *)
LEMMA SessionCycledKeeps ==
  ASSUME IInv, SessionCycled
  PROVE  IInv'
<1> USE DEF SessionCycled, ChildGoto, ChildKept, Counters, Ghosts, power,
            session, main
<1>1. TypeOK'
  <2>1. Outlet!TypeOK'
    BY DEF IInv, TypeOK, Outlet!TypeOK, CallInv
  <2>2. loaded' \subseteq Artifacts
    BY DEF IInv, TypeOK, Artifacts
  <2> QED
    BY <2>1, <2>2 DEF IInv, TypeOK, ProgressInv
<1>2. CallInv'
  BY DEF IInv, TypeOK, Outlet!TypeOK, CallInv, Awaits, Answered, ProgressInv
<1>3. ProgressInv'
  BY DEF IInv, TypeOK, ProgressInv, CallInv, Answered
<1>4. PowerInv'
  BY DEF IInv, TypeOK, Outlet!TypeOK, CallInv, Awaits, PowerInv, InCycle,
         Settled, Said, Answered, ProgressInv
<1>5. ImageInv'
  BY DEF IInv, TypeOK, ImageInv, RightImage, ProgressInv, PowerInv, Settled,
         InCycle, Artifacts, Awaits, CallInv
<1>6. CauseInv'
  BY DEF IInv, TypeOK, CauseInv, Excused, ProgressInv, CallInv, Answered
<1>7. WrongImageExplained'
  BY DEF IInv, TypeOK, ProgressInv, ImageInv, RightImage, WrongImageExplained
<1>8. BoardLeftOnByCleanup'
  BY DEF IInv, TypeOK, ProgressInv, CallInv, Answered, Said, PowerInv,
         BoardLeftOnByCleanup, BoardLeftOn, Exited, PowerFailed, Awaits
<1> QED BY <1>1, <1>2, <1>3, <1>4, <1>5, <1>6, <1>7, <1>8 DEF IInv

(* IInv is kept when the tests before the reliability test have run.       *)
LEMMA FirstTestsKeeps ==
  ASSUME IInv, FirstTests
  PROVE  IInv'
<1> USE DEF FirstTests, TestsPass, TestsFail, ChildGoto, ChildKept, Counters,
            power, session, main
<1>0. /\ config.artifacts \subseteq Artifacts
      /\ config.manifest \in {"none", "unreadable", "bsp", "legacy"}
      /\ config.cycles \in Nat \ {0}
  BY ConfigFacts DEF IInv
<1>1. TypeOK'
  <2>1. Outlet!TypeOK'
    BY DEF IInv, TypeOK, Outlet!TypeOK, CallInv
  <2>2. loaded' \subseteq Artifacts
    BY DEF IInv, TypeOK, Artifacts
  <2> QED
    BY <2>1, <2>2 DEF IInv, TypeOK, ProgressInv
<1>2. CallInv'
  BY <1>0 DEF IInv, TypeOK, Outlet!TypeOK, CallInv, Awaits, Answered,
         ProgressInv
<1>3. ProgressInv'
  <2>1. CASE TestsPass("reliability")
    BY <1>0, <2>1 DEF IInv, TypeOK, ProgressInv, CallInv, Answered
  <2>2. CASE TestsFail("reliability")
    BY <1>0, <2>2 DEF IInv, TypeOK, ProgressInv, CallInv, Answered
  <2> QED
    BY <2>1, <2>2
<1>4. PowerInv'
  <2>1. CASE TestsPass("reliability")
    BY <1>0, <2>1 DEF IInv, TypeOK, Outlet!TypeOK, CallInv, Awaits, PowerInv,
           InCycle, Settled, Said, Answered, ProgressInv
  <2>2. CASE TestsFail("reliability")
    BY <1>0, <2>2 DEF IInv, TypeOK, Outlet!TypeOK, CallInv, Awaits, PowerInv,
           InCycle, Settled, Said, Answered, ProgressInv
  <2> QED
    BY <2>1, <2>2
<1>5. ImageInv'
  BY <1>0 DEF IInv, TypeOK, ImageInv, RightImage, ProgressInv, PowerInv,
         Settled, InCycle, Artifacts, Awaits, CallInv
<1>6. CauseInv'
  BY <1>0 DEF IInv, TypeOK, CauseInv, Excused, ProgressInv, CallInv, Answered
<1>7. WrongImageExplained'
  <2>1. CASE TestsPass("reliability")
    BY <1>0, <2>1 DEF IInv, TypeOK, ProgressInv, ImageInv, RightImage,
           WrongImageExplained
  <2>2. CASE TestsFail("reliability")
    BY <1>0, <2>2 DEF IInv, TypeOK, ProgressInv, ImageInv, RightImage,
           WrongImageExplained
  <2> QED
    BY <2>1, <2>2
<1>8. BoardLeftOnByCleanup'
  BY <1>0 DEF IInv, TypeOK, ProgressInv, CallInv, Answered, Said, PowerInv,
         BoardLeftOnByCleanup, BoardLeftOn, Exited, PowerFailed, Awaits
<1> QED BY <1>1, <1>2, <1>3, <1>4, <1>5, <1>6, <1>7, <1>8 DEF IInv

(* IInv is kept when the reliability test starts a cycle.                  *)
LEMMA StartCycleKeeps ==
  ASSUME IInv, StartCycle
  PROVE  IInv'
<1> USE DEF StartCycle, ChildGoto, Counters, Ghosts, Ask, Outlet!Invoke,
            power, session, main
<1>1. TypeOK'
  <2>1. Outlet!TypeOK'
    BY DEF IInv, TypeOK, Outlet!TypeOK, CallInv
  <2>2. loaded' \subseteq Artifacts
    BY DEF IInv, TypeOK, Artifacts
  <2> QED
    BY <2>1, <2>2 DEF IInv, TypeOK, ProgressInv
<1>2. CallInv'
  BY DEF IInv, TypeOK, Outlet!TypeOK, CallInv, Awaits, Answered, ProgressInv
<1>3. ProgressInv'
  BY DEF IInv, TypeOK, ProgressInv, CallInv, Answered
<1>4. PowerInv'
  BY DEF IInv, TypeOK, Outlet!TypeOK, CallInv, Awaits, PowerInv, InCycle,
         Settled, Said, Answered, ProgressInv
<1>5. ImageInv'
  BY DEF IInv, TypeOK, ImageInv, RightImage, ProgressInv, PowerInv, Settled,
         InCycle, Artifacts, Awaits, CallInv
<1>6. CauseInv'
  BY DEF IInv, TypeOK, CauseInv, Excused, ProgressInv, CallInv, Answered
<1>7. WrongImageExplained'
  BY DEF IInv, TypeOK, ProgressInv, ImageInv, RightImage, WrongImageExplained
<1>8. BoardLeftOnByCleanup'
  BY DEF IInv, TypeOK, ProgressInv, CallInv, Answered, Said, PowerInv,
         BoardLeftOnByCleanup, BoardLeftOn, Exited, PowerFailed, Awaits
<1> QED BY <1>1, <1>2, <1>3, <1>4, <1>5, <1>6, <1>7, <1>8 DEF IInv

(* IInv is kept when a cycle of the reliability test is counted.           *)
LEMMA CycleEndsKeeps ==
  ASSUME IInv, CycleEnds
  PROVE  IInv'
<1> USE DEF CycleEnds, ChildGoto, ChildKept, power, session, main
<1>0. /\ config.artifacts \subseteq Artifacts
      /\ config.manifest \in {"none", "unreadable", "bsp", "legacy"}
      /\ config.cycles \in Nat \ {0}
  BY ConfigFacts DEF IInv
<1>1. TypeOK'
  <2>1. /\ cycle \in 0..config.cycles /\ failed_cycles \in 0..cycle
        /\ cycle < config.cycles
    BY DEF IInv, TypeOK, ProgressInv
  <2>2. cycle' \in 0..config.cycles /\ failed_cycles' \in 0..cycle'
    BY <1>0, <2>1
  <2>3. /\ Outlet!TypeOK'
        /\ trouble' \in BOOLEAN /\ wrong_image' \in BOOLEAN
    BY DEF IInv, TypeOK, Outlet!TypeOK
  <2> QED
    BY <2>2, <2>3 DEF IInv, TypeOK
<1>2. CallInv'
  BY <1>0 DEF IInv, TypeOK, Outlet!TypeOK, CallInv, Awaits, Answered,
         ProgressInv
<1>3. ProgressInv'
  BY <1>0 DEF IInv, TypeOK, ProgressInv, CallInv, Answered
<1>4. PowerInv'
  BY <1>0 DEF IInv, TypeOK, Outlet!TypeOK, CallInv, Awaits, PowerInv, InCycle,
         Settled, Said, Answered, ProgressInv
<1>5. ImageInv'
  BY <1>0 DEF IInv, TypeOK, ImageInv, RightImage, ProgressInv, PowerInv,
         Settled, InCycle, Artifacts, Awaits, CallInv
<1>6. CauseInv'
  BY <1>0 DEF IInv, TypeOK, CauseInv, Excused, ProgressInv, CallInv, Answered
<1>7. WrongImageExplained'
  BY <1>0 DEF IInv, TypeOK, ProgressInv, ImageInv, RightImage,
         WrongImageExplained
<1>8. BoardLeftOnByCleanup'
  BY <1>0 DEF IInv, TypeOK, ProgressInv, CallInv, Answered, Said, PowerInv,
         BoardLeftOnByCleanup, BoardLeftOn, Exited, PowerFailed, Awaits
<1> QED BY <1>1, <1>2, <1>3, <1>4, <1>5, <1>6, <1>7, <1>8 DEF IInv

(* IInv is kept when the reliability test is judged.                       *)
LEMMA ReliabilityEndsKeeps ==
  ASSUME IInv, ReliabilityEnds
  PROVE  IInv'
<1> USE DEF ReliabilityEnds, Reliable, ChildGoto, ChildKept, Counters, Ghosts,
            power, session, main
<1>0. /\ config.artifacts \subseteq Artifacts
      /\ config.manifest \in {"none", "unreadable", "bsp", "legacy"}
      /\ config.cycles \in Nat \ {0}
  BY ConfigFacts DEF IInv
<1>1. TypeOK'
  <2>1. Outlet!TypeOK'
    BY DEF IInv, TypeOK, Outlet!TypeOK, CallInv
  <2>2. loaded' \subseteq Artifacts
    BY DEF IInv, TypeOK, Artifacts
  <2> QED
    BY <2>1, <2>2 DEF IInv, TypeOK, ProgressInv
<1>2. CallInv'
  BY <1>0 DEF IInv, TypeOK, Outlet!TypeOK, CallInv, Awaits, Answered,
         ProgressInv
<1>3. ProgressInv'
  BY <1>0 DEF IInv, TypeOK, ProgressInv, CallInv, Answered
<1>4. PowerInv'
  BY <1>0 DEF IInv, TypeOK, Outlet!TypeOK, CallInv, Awaits, PowerInv, InCycle,
         Settled, Said, Answered, ProgressInv
<1>5. ImageInv'
  BY <1>0 DEF IInv, TypeOK, ImageInv, RightImage, ProgressInv, PowerInv,
         Settled, InCycle, Artifacts, Awaits, CallInv
<1>6. CauseInv'
  BY <1>0 DEF IInv, TypeOK, CauseInv, Excused, ProgressInv, CallInv, Answered
<1>7. WrongImageExplained'
  BY <1>0 DEF IInv, TypeOK, ProgressInv, ImageInv, RightImage,
         WrongImageExplained
<1>8. BoardLeftOnByCleanup'
  BY <1>0 DEF IInv, TypeOK, ProgressInv, CallInv, Answered, Said, PowerInv,
         BoardLeftOnByCleanup, BoardLeftOn, Exited, PowerFailed, Awaits
<1> QED BY <1>1, <1>2, <1>3, <1>4, <1>5, <1>6, <1>7, <1>8 DEF IInv

(* IInv is kept when the tests after the reliability test have run.        *)
LEMMA MoreTestsKeeps ==
  ASSUME IInv, MoreTests
  PROVE  IInv'
<1> USE DEF MoreTests, TestsPass, TestsFail, ChildGoto, ChildKept, Counters,
            power, session, main
<1>0. /\ config.artifacts \subseteq Artifacts
      /\ config.manifest \in {"none", "unreadable", "bsp", "legacy"}
      /\ config.cycles \in Nat \ {0}
  BY ConfigFacts DEF IInv
<1>1. TypeOK'
  <2>1. Outlet!TypeOK'
    BY DEF IInv, TypeOK, Outlet!TypeOK, CallInv
  <2>2. loaded' \subseteq Artifacts
    BY DEF IInv, TypeOK, Artifacts
  <2> QED
    BY <2>1, <2>2 DEF IInv, TypeOK, ProgressInv
<1>2. CallInv'
  BY <1>0 DEF IInv, TypeOK, Outlet!TypeOK, CallInv, Awaits, Answered,
         ProgressInv
<1>3. ProgressInv'
  <2>1. CASE TestsPass("teardown")
    BY <1>0, <2>1 DEF IInv, TypeOK, ProgressInv, CallInv, Answered
  <2>2. CASE TestsFail("teardown")
    BY <1>0, <2>2 DEF IInv, TypeOK, ProgressInv, CallInv, Answered
  <2> QED
    BY <2>1, <2>2
<1>4. PowerInv'
  <2>1. CASE TestsPass("teardown")
    BY <1>0, <2>1 DEF IInv, TypeOK, Outlet!TypeOK, CallInv, Awaits, PowerInv,
           InCycle, Settled, Said, Answered, ProgressInv
  <2>2. CASE TestsFail("teardown")
    BY <1>0, <2>2 DEF IInv, TypeOK, Outlet!TypeOK, CallInv, Awaits, PowerInv,
           InCycle, Settled, Said, Answered, ProgressInv
  <2> QED
    BY <2>1, <2>2
<1>5. ImageInv'
  BY <1>0 DEF IInv, TypeOK, ImageInv, RightImage, ProgressInv, PowerInv,
         Settled, InCycle, Artifacts, Awaits, CallInv
<1>6. CauseInv'
  BY <1>0 DEF IInv, TypeOK, CauseInv, Excused, ProgressInv, CallInv, Answered
<1>7. WrongImageExplained'
  <2>1. CASE TestsPass("teardown")
    BY <1>0, <2>1 DEF IInv, TypeOK, ProgressInv, ImageInv, RightImage,
           WrongImageExplained
  <2>2. CASE TestsFail("teardown")
    BY <1>0, <2>2 DEF IInv, TypeOK, ProgressInv, ImageInv, RightImage,
           WrongImageExplained
  <2> QED
    BY <2>1, <2>2
<1>8. BoardLeftOnByCleanup'
  BY <1>0 DEF IInv, TypeOK, ProgressInv, CallInv, Answered, Said, PowerInv,
         BoardLeftOnByCleanup, BoardLeftOn, Exited, PowerFailed, Awaits
<1> QED BY <1>1, <1>2, <1>3, <1>4, <1>5, <1>6, <1>7, <1>8 DEF IInv

(* IInv is kept when the power_controller fixture is torn down.            *)
LEMMA TeardownKeeps ==
  ASSUME IInv, Teardown
  PROVE  IInv'
<1> USE DEF Teardown, ChildGoto, Counters, Ghosts, Ask, Outlet!Invoke, power,
            session, main
<1>1. TypeOK'
  <2>1. Outlet!TypeOK'
    BY DEF IInv, TypeOK, Outlet!TypeOK, CallInv
  <2>2. loaded' \subseteq Artifacts
    BY DEF IInv, TypeOK, Artifacts
  <2> QED
    BY <2>1, <2>2 DEF IInv, TypeOK, ProgressInv
<1>2. CallInv'
  BY DEF IInv, TypeOK, Outlet!TypeOK, CallInv, Awaits, Answered, ProgressInv
<1>3. ProgressInv'
  BY DEF IInv, TypeOK, ProgressInv, CallInv, Answered
<1>4. PowerInv'
  BY DEF IInv, TypeOK, Outlet!TypeOK, CallInv, Awaits, PowerInv, InCycle,
         Settled, Said, Answered, ProgressInv
<1>5. ImageInv'
  BY DEF IInv, TypeOK, ImageInv, RightImage, ProgressInv, PowerInv, Settled,
         InCycle, Artifacts, Awaits, CallInv
<1>6. CauseInv'
  BY DEF IInv, TypeOK, CauseInv, Excused, ProgressInv, CallInv, Answered
<1>7. WrongImageExplained'
  BY DEF IInv, TypeOK, ProgressInv, ImageInv, RightImage, WrongImageExplained
<1>8. BoardLeftOnByCleanup'
  BY DEF IInv, TypeOK, ProgressInv, CallInv, Answered, Said, PowerInv,
         BoardLeftOnByCleanup, BoardLeftOn, Exited, PowerFailed, Awaits
<1> QED BY <1>1, <1>2, <1>3, <1>4, <1>5, <1>6, <1>7, <1>8 DEF IInv

(* IInv is kept when the fixture has read the power state.                 *)
LEMMA ChildCheckedKeeps ==
  ASSUME IInv, ChildChecked
  PROVE  IInv'
<1> USE DEF ChildChecked, ChildGoto, ChildKept, Counters, Ghosts, Ask,
            Outlet!Invoke, power, session, main
<1>1. TypeOK'
  <2>1. Outlet!TypeOK'
    BY DEF IInv, TypeOK, Outlet!TypeOK, CallInv
  <2>2. loaded' \subseteq Artifacts
    BY DEF IInv, TypeOK, Artifacts
  <2> QED
    BY <2>1, <2>2 DEF IInv, TypeOK, ProgressInv
<1>2. CallInv'
  BY DEF IInv, TypeOK, Outlet!TypeOK, CallInv, Awaits, Answered, ProgressInv
<1>3. ProgressInv'
  BY DEF IInv, TypeOK, ProgressInv, CallInv, Answered
<1>4. PowerInv'
  BY DEF IInv, TypeOK, Outlet!TypeOK, CallInv, Awaits, PowerInv, InCycle,
         Settled, Said, Answered, ProgressInv
<1>5. ImageInv'
  BY DEF IInv, TypeOK, ImageInv, RightImage, ProgressInv, PowerInv, Settled,
         InCycle, Artifacts, Awaits, CallInv
<1>6. CauseInv'
  BY DEF IInv, TypeOK, CauseInv, Excused, ProgressInv, CallInv, Answered
<1>7. WrongImageExplained'
  BY DEF IInv, TypeOK, ProgressInv, ImageInv, RightImage, WrongImageExplained
<1>8. BoardLeftOnByCleanup'
  BY DEF IInv, TypeOK, ProgressInv, CallInv, Answered, Said, PowerInv,
         BoardLeftOnByCleanup, BoardLeftOn, Exited, PowerFailed, Awaits
<1> QED BY <1>1, <1>2, <1>3, <1>4, <1>5, <1>6, <1>7, <1>8 DEF IInv

(* IInv is kept when the fixture's turn_on has returned.                   *)
LEMMA ChildRestoredKeeps ==
  ASSUME IInv, ChildRestored
  PROVE  IInv'
<1> USE DEF ChildRestored, ChildGoto, ChildKept, Counters, Ghosts, power,
            session, main
<1>1. TypeOK'
  <2>1. Outlet!TypeOK'
    BY DEF IInv, TypeOK, Outlet!TypeOK, CallInv
  <2>2. loaded' \subseteq Artifacts
    BY DEF IInv, TypeOK, Artifacts
  <2> QED
    BY <2>1, <2>2 DEF IInv, TypeOK, ProgressInv
<1>2. CallInv'
  BY DEF IInv, TypeOK, Outlet!TypeOK, CallInv, Awaits, Answered, ProgressInv
<1>3. ProgressInv'
  BY DEF IInv, TypeOK, ProgressInv, CallInv, Answered
<1>4. PowerInv'
  BY DEF IInv, TypeOK, Outlet!TypeOK, CallInv, Awaits, PowerInv, InCycle,
         Settled, Said, Answered, ProgressInv
<1>5. ImageInv'
  BY DEF IInv, TypeOK, ImageInv, RightImage, ProgressInv, PowerInv, Settled,
         InCycle, Artifacts, Awaits, CallInv
<1>6. CauseInv'
  BY DEF IInv, TypeOK, CauseInv, Excused, ProgressInv, CallInv, Answered
<1>7. WrongImageExplained'
  BY DEF IInv, TypeOK, ProgressInv, ImageInv, RightImage, WrongImageExplained
<1>8. BoardLeftOnByCleanup'
  BY DEF IInv, TypeOK, ProgressInv, CallInv, Answered, Said, PowerInv,
         BoardLeftOnByCleanup, BoardLeftOn, Exited, PowerFailed, Awaits
<1> QED BY <1>1, <1>2, <1>3, <1>4, <1>5, <1>6, <1>7, <1>8 DEF IInv

(* IInv is kept when the outlet moves while nobody looks.                  *)
LEMMA PowerMovesKeeps ==
  ASSUME IInv, PowerMoves
  PROVE  IInv'
<1> USE DEF PowerMoves, DeviceKeeps, Outlet!Switch, Outlet!Obey,
            Outlet!Commands, power, session, main
<1>0. /\ config.artifacts \subseteq Artifacts
      /\ config.manifest \in {"none", "unreadable", "bsp", "legacy"}
      /\ config.cycles \in Nat \ {0}
  BY ConfigFacts DEF IInv
<1>1. TypeOK'
  <2>1. Outlet!TypeOK'
    BY DEF IInv, TypeOK, Outlet!TypeOK, CallInv
  <2>2. loaded' \subseteq Artifacts
    BY DEF IInv, TypeOK, Artifacts
  <2> QED
    BY <2>1, <2>2 DEF IInv, TypeOK, ProgressInv
<1>2. CallInv'
  BY <1>0 DEF IInv, TypeOK, Outlet!TypeOK, CallInv, Awaits, Answered,
         ProgressInv
<1>3. ProgressInv'
  BY <1>0 DEF IInv, TypeOK, ProgressInv, CallInv, Answered
<1>4. PowerInv'
  BY <1>0 DEF IInv, TypeOK, Outlet!TypeOK, CallInv, Awaits, PowerInv, InCycle,
         Settled, Said, Answered, ProgressInv
<1>5. ImageInv'
  BY <1>0 DEF IInv, TypeOK, ImageInv, RightImage, ProgressInv, PowerInv,
         Settled, InCycle, Artifacts, Awaits, CallInv
<1>6. CauseInv'
  BY <1>0 DEF IInv, TypeOK, CauseInv, Excused, ProgressInv, CallInv, Answered
<1>7. WrongImageExplained'
  BY <1>0 DEF IInv, TypeOK, ProgressInv, ImageInv, RightImage,
         WrongImageExplained
<1>8. BoardLeftOnByCleanup'
  BY <1>0 DEF IInv, TypeOK, ProgressInv, CallInv, Answered, Said, PowerInv,
         BoardLeftOnByCleanup, BoardLeftOn, Exited, PowerFailed, Awaits
<1> QED BY <1>1, <1>2, <1>3, <1>4, <1>5, <1>6, <1>7, <1>8 DEF IInv

(* IInv is kept when a power call returns.                                 *)
LEMMA PowerAnswersKeeps ==
  ASSUME IInv, PowerAnswers
  PROVE  IInv'
<1> USE DEF PowerAnswers, DeviceKeeps, Outlet!Respond, Outlet!Commands,
            Outlet!Truthful, Outlet!Final, power, session, main
<1>0. /\ config.artifacts \subseteq Artifacts
      /\ config.manifest \in {"none", "unreadable", "bsp", "legacy"}
      /\ config.cycles \in Nat \ {0}
  BY ConfigFacts DEF IInv
<1>1. TypeOK'
  <2>1. Outlet!TypeOK'
    BY DEF IInv, TypeOK, Outlet!TypeOK, CallInv
  <2>2. loaded' \subseteq Artifacts
    BY DEF IInv, TypeOK, Artifacts
  <2> QED
    BY <2>1, <2>2 DEF IInv, TypeOK, ProgressInv
<1>2. CallInv'
  BY <1>0 DEF IInv, TypeOK, Outlet!TypeOK, CallInv, Awaits, Answered,
         ProgressInv
<1>3. ProgressInv'
  BY <1>0 DEF IInv, TypeOK, ProgressInv, CallInv, Answered
<1>4. PowerInv'
  BY <1>0 DEF IInv, TypeOK, Outlet!TypeOK, CallInv, Awaits, PowerInv, InCycle,
         Settled, Said, Answered, ProgressInv
<1>5. ImageInv'
  BY <1>0 DEF IInv, TypeOK, ImageInv, RightImage, ProgressInv, PowerInv,
         Settled, InCycle, Artifacts, Awaits, CallInv
<1>6. CauseInv'
  BY <1>0 DEF IInv, TypeOK, CauseInv, Excused, ProgressInv, CallInv, Answered
<1>7. WrongImageExplained'
  BY <1>0 DEF IInv, TypeOK, ProgressInv, ImageInv, RightImage,
         WrongImageExplained
<1>8. BoardLeftOnByCleanup'
  BY <1>0 DEF IInv, TypeOK, ProgressInv, CallInv, Answered, Said, PowerInv,
         BoardLeftOnByCleanup, BoardLeftOn, Exited, PowerFailed, Awaits
<1> QED BY <1>1, <1>2, <1>3, <1>4, <1>5, <1>6, <1>7, <1>8 DEF IInv

-----------------------------------------------------------------------------
(* The invariant.                                                          *)

(* It holds at the start ...                                               *)
LEMMA InitHolds ==
  ASSUME Init
  PROVE  IInv
<1>1. config \in Config
  BY DEF Init
<1>2. config.cycles \in Nat \ {0}
  BY <1>1 DEF Config
<1> USE DEF Init, Outlet!Init
<1>3. TypeOK
  <2>1. Outlet!TypeOK
    BY DEF Outlet!TypeOK
  <2>2. cycle \in 0..config.cycles /\ failed_cycles \in 0..cycle
    BY <1>2
  <2>3. board_type \in BOOLEAN /\ loaded \subseteq Artifacts
    BY <1>1 DEF Config
  <2> QED
    BY <2>1, <2>2, <2>3 DEF TypeOK
<1>4. CallInv /\ ProgressInv
  BY DEF CallInv, Awaits, ProgressInv
<1>5. PowerInv /\ ImageInv /\ CauseInv
  BY DEF PowerInv, InCycle, ImageInv, CauseInv, Excused
<1>6. WrongImageExplained /\ BoardLeftOnByCleanup
  BY DEF WrongImageExplained, BoardLeftOnByCleanup, BoardLeftOn, Exited
<1> QED
  BY <1>3, <1>4, <1>5, <1>6 DEF IInv

(* ... and every step keeps it.                                            *)
LEMMA StepKeeps ==
  ASSUME IInv, [Next]_vars
  PROVE  IInv'
<1>1. CASE Main
  BY <1>1,
     ParseManifestKeeps, StartProvisioningKeeps, CycledKeeps,
     SkipFlashKeeps, FlashLacksSpecKeeps, FlashBootloaderKeeps,
     FlashBitstreamKeeps, FlashFailsKeeps, WaitForSystemReadyKeeps,
     PolledKeeps, ProvisionedKeeps, ExecuteTestSuiteKeeps,
     SuiteCompletedKeeps, ReportKeeps, CleanupKeeps,
     CheckedKeeps, RestoredKeeps
     DEF Main
<1>2. CASE Child
  BY <1>2,
     SessionSetupKeeps, SessionCycledKeeps, FirstTestsKeeps,
     StartCycleKeeps, CycleEndsKeeps, ReliabilityEndsKeeps,
     MoreTestsKeeps, TeardownKeeps, ChildCheckedKeeps,
     ChildRestoredKeeps
     DEF Child
<1>3. CASE SuiteDies \/ PowerMoves \/ PowerAnswers
  BY <1>3, SuiteDiesKeeps, PowerMovesKeeps, PowerAnswersKeeps
<1>4. CASE UNCHANGED vars
  <2> USE <1>4 DEF vars, power, main, session
  <2>1. TypeOK' /\ CallInv'
    BY DEF IInv, TypeOK, Outlet!TypeOK, CallInv, Awaits, Answered
  <2>2. ProgressInv' /\ PowerInv'
    BY DEF IInv, ProgressInv, PowerInv, InCycle, Settled, Said, Answered
  <2>3. ImageInv' /\ CauseInv'
    BY DEF IInv, ImageInv, RightImage, CauseInv, Excused
  <2>4. WrongImageExplained' /\ BoardLeftOnByCleanup'
    BY DEF IInv, WrongImageExplained, BoardLeftOnByCleanup, BoardLeftOn,
           Exited, PowerFailed
  <2> QED
    BY <2>1, <2>2, <2>3, <2>4 DEF IInv
<1> QED
  BY <1>1, <1>2, <1>3, <1>4 DEF Next

(* The orchestrator, pytest and the power controller stay in step: at most *)
(* one of them is in a power call, and what the run has seen of power,     *)
(* firmware and failures bounds what its results can be.  (run_tests.py)   *)
THEOREM RunInvariant == Spec => []IInv
<1>1. Init => IInv
  BY InitHolds
<1>2. IInv /\ [Next]_vars => IInv'
  BY StepKeeps
<1> QED
  BY <1>1, <1>2, PTL DEF Spec

(* Exit code 0 means that hardware was provisioned, that no test or        *)
(* fixture failed, and that the board is powered and stays so unless the   *)
(* reliability test tolerated a failed cycle.  (main, execute_test_suite)  *)
THEOREM GreenRunTheorem == Spec => []GreenRun
<1>1. IInv => GreenRun
  <2> SUFFICES ASSUME IInv, Exited, exit_code = 0
               PROVE  /\ hardware_provisioned
                      /\ child = "done" /\ child_ok
                      /\ target = "on" \/ failed_cycles > 0
    BY DEF GreenRun
  <2>1. child = "done" /\ child_ok /\ hardware_provisioned
    BY DEF IInv, ProgressInv
  <2>2. failed_cycles \in Nat /\ cycle \in Nat
    BY ConfigFacts DEF IInv, TypeOK
  <2>3. failed_cycles = 0 => target = "on"
    BY <2>1 DEF IInv, PowerInv, InCycle, Exited, Settled
  <2> QED
    BY <2>1, <2>2, <2>3
<1> QED
  BY <1>1, RunInvariant, PTL

(* cleanup leaves the board powered, if it gets that far, unless the power *)
(* controller fails at that very moment.  (cleanup)                        *)
THEOREM BoardLeftOnTheorem == Spec => []BoardLeftOnByCleanup
<1>1. IInv => BoardLeftOnByCleanup
  BY DEF IInv
<1> QED
  BY <1>1, RunInvariant, PTL

(* provision_hardware says True only of a board that is powered and stays  *)
(* so until pytest touches it.  (provision_hardware, power_cycle)          *)
THEOREM ProvisionedIsPoweredTheorem == Spec => []ProvisionedIsPowered
<1>1. IInv => ProvisionedIsPowered
  BY DEF IInv, ProvisionedIsPowered, ProgressInv, PowerInv, InCycle, Settled
<1> QED
  BY <1>1, RunInvariant, PTL

(* A test passes on firmware that is not the manifest's only without a     *)
(* JTAG controller or after a power cycle by pytest.  (_flash_firmware)    *)
THEOREM WrongImageTheorem == Spec => []WrongImageExplained
<1>1. IInv => WrongImageExplained
  BY DEF IInv
<1> QED
  BY <1>1, RunInvariant, PTL

(* A run that fails has a cause: a device, a test, the manifest or the     *)
(* configuration.  (main, parse_deployment_manifest, _flash_firmware)      *)
THEOREM FailureTheorem == Spec => []FailureExplained
<1>1. IInv => FailureExplained
  BY DEF IInv, CauseInv, Excused, FailureExplained, FailureHasCause, Exited
<1> QED
  BY <1>1, RunInvariant, PTL
=============================================================================

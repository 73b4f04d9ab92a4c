----------------------------- MODULE NfsMonitor -----------------------------
(***************************************************************************)
(* The filesystem monitor of scripts/nfs_artifact_monitor.sh: a shell      *)
(* script that polls an NFS share for manifests newer than a watermark it  *)
(* keeps in a state file, asks Jenkins for one build per new manifest and  *)
(* then moves the watermark to the current time.  It runs under systemd    *)
(* (docker/scripts/nfs-monitor.service), which restarts it whenever it     *)
(* exits.                                                                  *)
(*                                                                         *)
(* Around it: publishers that write manifests, Jenkins, and the share      *)
(* itself.  What these may do wrong is the constant Faults, so that one    *)
(* specification serves the runs and the proofs.                           *)
(***************************************************************************)
EXTENDS Naturals

CONSTANTS
  Manifests,   \* the *.yaml files the share may hold
  MaxClock,    \* bound: the last second of the wall clock
  MaxWrites,   \* bound: how often one manifest is written
  Faults       \* what the environment may do

FaultKinds == {"midpass_publish",  \* a manifest is written during a pass, or
                                   \* in the second the watermark names
               "partial_write",    \* a manifest is visible while being written
               "malformed",        \* a manifest never parses
               "removal",          \* a manifest is deleted by a cleanup
               "share_drop",       \* the share is unmounted under the monitor
               "refusal",          \* Jenkins answers something else than 201
               "lost_reply",       \* Jenkins queues a build, curl sees no reply
               "crash"}            \* the monitor is killed or restarted

ASSUME NfsMonitorAssumption ==
  /\ MaxClock \in Nat \ {0}
  /\ MaxWrites \in Nat
  /\ Faults \subseteq FaultKinds

VARIABLES
  clock,          \* date +%s, on the monitor's host and on the share
  mounted,        \* mountpoint -q NFS_MOUNT_POINT
  manifest,       \* per manifest: body, mtime, and gen, a ghost that counts
                  \* its writes
  state_file,     \* the contents of STATE_FILE; 0 stands for "no file" and
                  \* for a file that was truncated and not written
  pc,             \* where the script is
  last_check,     \* the local of find_new_artifacts
  new_artifacts,  \* what the pass found and has not got accepted yet
  posting,        \* the manifest, and the write of it, a request is about
  now,            \* the date the watermark update has read
  built,          \* ghost: per manifest, the writes Jenkins has queued
  replay,         \* ghost: manifests a pass was interrupted since their build
  scanTime,       \* ghost: when the current (or last) pass ran its find
  dark            \* ghost: that find saw an unmounted share

vars == <<clock, mounted, manifest, state_file, pc, last_check, new_artifacts,
          posting, now, built, replay, scanTime, dark>>

world == <<clock, mounted, manifest>>
ghosts == <<built, replay, scanTime, dark>>

Bodies == {"absent", "unparsable", "partial", "complete"}
Idle == {"down", "sleep", "scan"}
InPass == {"dispatch", "post", "mark", "store"}

NoPost == [file |-> "none", gen |-> 0]
Posts == [file : Manifests, gen : 0..MaxWrites] \cup {NoPost}

TypeOK ==
  /\ clock \in 1..MaxClock
  /\ mounted \in BOOLEAN
  /\ manifest \in [Manifests -> [body : Bodies, mtime : 0..MaxClock,
                                 gen : 0..MaxWrites]]
  /\ state_file \in 0..MaxClock
  /\ pc \in Idle \cup InPass
  /\ last_check \in 0..MaxClock
  /\ new_artifacts \subseteq Manifests
  /\ posting \in Posts
  /\ now \in 0..MaxClock
  /\ built \in [Manifests -> SUBSET (0..MaxWrites)]
  /\ replay \subseteq Manifests
  /\ scanTime \in 0..MaxClock
  /\ dark \in BOOLEAN

Init ==
  /\ clock = 1
  /\ mounted = TRUE
  /\ manifest = [f \in Manifests |-> [body |-> "absent", mtime |-> 0, gen |-> 0]]
  /\ state_file = 0
  /\ pc = "down"
  /\ last_check = 0
  /\ new_artifacts = {}
  /\ posting = NoPost
  /\ now = 0
  /\ built = [f \in Manifests |-> {}]
  /\ replay = {}
  /\ scanTime = 0
  /\ dark = FALSE

-----------------------------------------------------------------------------
(* The environment.                                                        *)

Tick ==
  /\ clock < MaxClock
  /\ clock' = clock + 1
  /\ UNCHANGED <<mounted, manifest, state_file, pc, last_check, new_artifacts,
                 posting, now, ghosts>>

(* A publisher that avoids the monitor's pass writes only while no pass    *)
(* runs, and not in the second the watermark names.                        *)
MayWrite(f) ==
  /\ manifest[f].gen < MaxWrites
  /\ "midpass_publish" \in Faults \/ (pc \in Idle /\ clock > state_file)

WriteTo(f, body) ==
  /\ MayWrite(f)
  /\ manifest' = [manifest EXCEPT ![f] = [body |-> body, mtime |-> clock,
                                          gen |-> @.gen + 1]]
  /\ UNCHANGED <<clock, mounted, state_file, pc, last_check, new_artifacts,
                 posting, now, ghosts>>

Publish(f) == WriteTo(f, "complete")

PublishMalformed(f) == "malformed" \in Faults /\ WriteTo(f, "unparsable")

(* Half a manifest: an empty or cut file does not parse, a longer prefix   *)
(* may, because extract_build_info has a default for every field.          *)
BeginPublish(f) ==
  /\ "partial_write" \in Faults
  /\ \E body \in {"unparsable", "partial"} : WriteTo(f, body)

Remove(f) ==
  /\ "removal" \in Faults
  /\ manifest[f].body # "absent"
  /\ manifest' = [manifest EXCEPT ![f].body = "absent"]
  /\ UNCHANGED <<clock, mounted, state_file, pc, last_check, new_artifacts,
                 posting, now, ghosts>>

ShareDrops ==
  /\ "share_drop" \in Faults
  /\ mounted
  /\ mounted' = FALSE
  /\ UNCHANGED <<clock, manifest, state_file, pc, last_check, new_artifacts,
                 posting, now, ghosts>>

ShareReturns ==
  /\ ~mounted
  /\ mounted' = TRUE
  /\ UNCHANGED <<clock, manifest, state_file, pc, last_check, new_artifacts,
                 posting, now, ghosts>>

-----------------------------------------------------------------------------
(* The monitor.                                                            *)

(* systemd starts the unit again 10 seconds after it exits; the helper of  *)
(* ExecStartPre mounts the share when it is not, and validate_environment  *)
(* finds it mounted.  A start that fails here is retried: no step.         *)
Start ==
  /\ pc = "down"
  /\ pc' = "scan"
  /\ mounted' = TRUE
  /\ UNCHANGED <<clock, manifest, state_file, last_check, new_artifacts,
                 posting, now, ghosts>>

(* The script exits: its locals are gone, STATE_FILE stays.  A pass that   *)
(* is cut short leaves every manifest it had found to the next one.        *)
Exit ==
  /\ pc' = "down"
  /\ new_artifacts' = {}
  /\ posting' = NoPost
  /\ replay' = IF pc \in InPass THEN Manifests ELSE replay

(* Mutant: -ge for -gt.                                                    *)
FoundAgain(mark) ==
  {f \in Manifests : mounted /\ manifest[f].body # "absent"
                             /\ manifest[f].mtime >= mark}

Found(mark) ==
  {f \in Manifests : mounted /\ manifest[f].body # "absent"
                             /\ manifest[f].mtime > mark}

(* Mutant: the watermark moves before the list is worked off.              *)
ScanMarksFirst ==
  /\ pc = "scan"
  /\ last_check' = state_file
  /\ state_file' = clock
  /\ new_artifacts' = Found(state_file)
  /\ pc' = IF Found(state_file) = {} THEN "mark" ELSE "dispatch"
  /\ scanTime' = clock
  /\ dark' = ~mounted
  /\ UNCHANGED <<world, posting, now, built, replay>>

(* find_new_artifacts: on an unmounted share find fails, its message goes  *)
(* to /dev/null and the list is empty.                                     *)
Scan ==
  /\ pc = "scan"
  /\ last_check' = state_file
  /\ new_artifacts' = Found(state_file)
  /\ pc' = IF Found(state_file) = {} THEN "mark" ELSE "dispatch"
  /\ scanTime' = clock
  /\ dark' = ~mounted
  /\ UNCHANGED <<world, state_file, posting, now, built, replay>>

Readable(f) == mounted /\ manifest[f].body \in {"partial", "complete"}

(* process_new_artifact reads the manifest and sends the request ...       *)
Extract(f) ==
  /\ pc = "dispatch"
  /\ f \in new_artifacts
  /\ Readable(f)
  /\ posting' = [file |-> f, gen |-> manifest[f].gen]
  /\ pc' = "post"
  /\ UNCHANGED <<world, state_file, last_check, new_artifacts, now, ghosts>>

(* Mutant: an unreadable manifest is tried again at once.                  *)
ExtractRetries(f) ==
  /\ pc = "dispatch"
  /\ f \in new_artifacts
  /\ ~Readable(f)
  /\ UNCHANGED vars

(* ... or fails to parse it and returns 1, which set -e makes the end of   *)
(* the script: the watermark is not updated.                               *)
ExtractFails(f) ==
  /\ pc = "dispatch"
  /\ f \in new_artifacts
  /\ ~Readable(f)
  /\ Exit
  /\ UNCHANGED <<world, state_file, last_check, now, built, scanTime, dark>>

Queued == [built EXCEPT ![posting.file] = @ \cup {posting.gen}]

(* Mutant: the request loop does not advance.                              *)
AcceptedKeepsEntry(f) ==
  /\ pc = "post"
  /\ posting.file = f
  /\ built' = Queued
  /\ replay' = replay \ {f}
  /\ posting' = NoPost
  /\ pc' = "dispatch"
  /\ UNCHANGED <<world, state_file, last_check, new_artifacts, now, scanTime,
                 dark>>

(* HTTP 201: on to the next line of the list, or out of the loop.          *)
Accepted(f) ==
  /\ pc = "post"
  /\ posting.file = f
  /\ built' = Queued
  /\ replay' = replay \ {f}
  /\ new_artifacts' = new_artifacts \ {f}
  /\ posting' = NoPost
  /\ pc' = IF new_artifacts = {f} THEN "mark" ELSE "dispatch"
  /\ UNCHANGED <<world, state_file, last_check, now, scanTime, dark>>

(* Mutant: a refused manifest is skipped ("|| true" after line 265).       *)
RefusedContinues ==
  /\ pc = "post"
  /\ "refusal" \in Faults
  /\ new_artifacts' = new_artifacts \ {posting.file}
  /\ posting' = NoPost
  /\ pc' = IF new_artifacts = {posting.file} THEN "mark" ELSE "dispatch"
  /\ UNCHANGED <<world, state_file, last_check, now, ghosts>>

(* Any other code, and curl's 000: return 1, and the script ends.          *)
Refused ==
  /\ pc = "post"
  /\ "refusal" \in Faults
  /\ Exit
  /\ UNCHANGED <<world, state_file, last_check, now, built, scanTime, dark>>

ReplyLost ==
  /\ pc = "post"
  /\ "lost_reply" \in Faults
  /\ Exit
  /\ built' = Queued
  /\ UNCHANGED <<world, state_file, last_check, now, scanTime, dark>>

(* update_last_check_time: the shell expands $(date +%s), truncates the    *)
(* file for the redirection, and then echo writes.                         *)
Truncate ==
  /\ pc = "mark"
  /\ now' = clock
  /\ state_file' = 0
  /\ pc' = "store"
  /\ UNCHANGED <<world, last_check, new_artifacts, posting, ghosts>>

Store ==
  /\ pc = "store"
  /\ state_file' = now
  /\ pc' = "sleep"
  /\ UNCHANGED <<world, last_check, new_artifacts, posting, now, ghosts>>

Wake ==
  /\ pc = "sleep"
  /\ pc' = "scan"
  /\ UNCHANGED <<world, state_file, last_check, new_artifacts, posting, now,
                 ghosts>>

(* A signal, an OOM kill, a reboot.                                        *)
Crash ==
  /\ "crash" \in Faults
  /\ pc # "down"
  /\ Exit
  /\ UNCHANGED <<world, state_file, last_check, now, built, scanTime, dark>>

-----------------------------------------------------------------------------
Monitor ==
  \/ Start \/ Scan \/ Truncate \/ Store \/ Wake
  \/ \E f \in Manifests : Extract(f) \/ ExtractFails(f)

Reply == Refused \/ ReplyLost \/ \E f \in Manifests : Accepted(f)

Environment ==
  \/ Tick \/ ShareDrops \/ ShareReturns
  \/ \E f \in Manifests : \/ Publish(f) \/ PublishMalformed(f)
                          \/ BeginPublish(f) \/ Remove(f)

Next == Monitor \/ Reply \/ Environment \/ Crash

Spec == Init /\ [][Next]_vars

(* The script blocks on nothing but curl, and curl returns; the unit is    *)
(* restarted forever (Restart=always); an unmounted share is mounted.      *)
Fairness == WF_vars(Monitor) /\ WF_vars(Reply) /\ WF_vars(ShareReturns)

FairSpec == Spec /\ Fairness

-----------------------------------------------------------------------------
(* What the monitor gets right, and where it stops.                        *)

Unbuilt(f) ==
  manifest[f].body = "complete" /\ manifest[f].gen \notin built[f]

(* The watermark the next decision about a manifest is made with.          *)
Watermark == IF pc \in InPass THEN last_check ELSE state_file

(* No scan will find f again, unless it is written anew.                   *)
Missed(f) ==
  /\ Unbuilt(f)
  /\ manifest[f].mtime <= Watermark
  /\ f \notin new_artifacts

(* A manifest drops out of sight only if it was written in or after the    *)
(* second the pass listed the share in, or if that pass listed an          *)
(* unmounted share: whatever a find could see, through any sequence of     *)
(* refusals, exits and restarts, is either queued or found again.          *)
(* (find_new_artifacts, monitor_loop, update_last_check_time)              *)
MissedOnlyInWindow ==
  [][\A f \in Manifests :
       Missed(f)' /\ ~Missed(f)
         => manifest'[f].mtime >= scanTime' \/ dark']_vars

(* Jenkins is asked twice for the same write of a manifest only after a    *)
(* pass was cut short since the first request was accepted: completed      *)
(* passes never ask twice.  (monitor_loop with set -e, lines 263-273)      *)
NoUnexplainedReplay ==
  pc = "post" /\ posting.gen \in built[posting.file]
    => posting.file \in replay

(* Why both hold: what a pass owes.  A manifest the scan could see is on   *)
(* the list until Jenkins has queued its current write; requests and       *)
(* builds never run ahead of the writes; the state file is the watermark   *)
(* of the last completed pass, or 0.                                       *)
PassInv ==
  /\ \A f \in Manifests : manifest[f].mtime <= clock
  /\ state_file <= clock
  /\ pc \in InPass =>
       /\ scanTime <= clock
       /\ \A f \in Manifests :
            Unbuilt(f) /\ manifest[f].mtime > last_check
              => f \in new_artifacts \/ manifest[f].mtime >= scanTime \/ dark
       /\ \A f \in new_artifacts : manifest[f].mtime > last_check
  /\ pc \in {"dispatch", "post", "mark"} => state_file = last_check
  /\ pc \in {"mark", "store"} \cup Idle => new_artifacts = {}
  /\ pc = "store" => state_file = 0 /\ now <= clock /\ scanTime <= now
  /\ pc = "post" =>
       /\ posting.file \in new_artifacts
       /\ posting.gen = manifest[posting.file].gen
            \/ manifest[posting.file].mtime >= scanTime
  /\ scanTime <= clock

ReplayInv ==
  /\ \A f \in Manifests : \A g \in built[f] : g <= manifest[f].gen
  /\ \A f \in Manifests : manifest[f].gen \in built[f] =>
       /\ pc \in Idle /\ manifest[f].mtime > state_file => f \in replay
       /\ f \in new_artifacts => f \in replay
       /\ pc = "store" /\ manifest[f].mtime > now => f \in replay
  /\ pc = "post" => posting.gen <= manifest[posting.file].gen
  /\ NoUnexplainedReplay

IInv == TypeOK /\ PassInv /\ ReplayInv

(* From some moment on Jenkins accepts what it is asked and nobody kills   *)
(* the monitor.                                                            *)
Settles == <>[][~(Refused \/ ReplyLost \/ Crash)]_vars

(* Every complete manifest gets a build, unless it is written anew or      *)
(* removed first.  (monitor_loop, process_new_artifact)                    *)
PublishedIsBuilt ==
  Settles => \A f \in Manifests, g \in 1..MaxWrites :
    manifest[f].body = "complete" /\ manifest[f].gen = g
      ~> g \in built[f] \/ manifest[f].gen # g \/ manifest[f].body = "absent"

(* However often it was killed or refused, the monitor gets back to        *)
(* completing passes: no exit leaves a state that makes it exit again.     *)
(* (monitor_loop, and the restart of the unit)                             *)
KeepsPolling == Settles => []<>(pc = "sleep")
=============================================================================

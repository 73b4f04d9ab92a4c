-------------------------- MODULE NfsMonitorProofs --------------------------
(***************************************************************************)
(* For every set of manifests, every bound and every subset of the faults: *)
(* the types, the inductive invariant of a pass, and from it that no       *)
(* manifest a scan could see is dropped and that completed passes never    *)
(* ask for a build twice.                                                  *)
(***************************************************************************)
EXTENDS NfsMonitor, TLAPS

(* The first state is well typed.                                          *)
LEMMA InitType == Init => TypeOK
<1> SUFFICES ASSUME Init PROVE TypeOK
  OBVIOUS
<1>1. [body |-> "absent", mtime |-> 0, gen |-> 0]
        \in [body : Bodies, mtime : 0..MaxClock, gen : 0..MaxWrites]
  BY NfsMonitorAssumption DEF Bodies
<1>2. manifest \in [Manifests -> [body : Bodies, mtime : 0..MaxClock,
                                  gen : 0..MaxWrites]]
  BY <1>1 DEF Init
<1>3. posting \in Posts
  BY DEF Init, Posts
<1>4. built \in [Manifests -> SUBSET (0..MaxWrites)]
  BY DEF Init
<1>5. clock \in 1..MaxClock /\ state_file \in 0..MaxClock
        /\ last_check \in 0..MaxClock /\ now \in 0..MaxClock
        /\ scanTime \in 0..MaxClock
  BY NfsMonitorAssumption DEF Init
<1>6. pc \in Idle \cup InPass /\ mounted \in BOOLEAN /\ dark \in BOOLEAN
        /\ new_artifacts \subseteq Manifests /\ replay \subseteq Manifests
  BY DEF Init, Idle
<1>. QED
  BY <1>2, <1>3, <1>4, <1>5, <1>6 DEF TypeOK

(* One write keeps the record of a manifest well formed.                   *)
LEMMA WriteType ==
  ASSUME TypeOK, NEW f \in Manifests, NEW body \in Bodies, WriteTo(f, body)
  PROVE  TypeOK'
<1>1. manifest[f].gen \in 0..MaxWrites /\ manifest[f].gen < MaxWrites
  BY DEF TypeOK, WriteTo, MayWrite
<1>2. [body |-> body, mtime |-> clock, gen |-> manifest[f].gen + 1]
        \in [body : Bodies, mtime : 0..MaxClock, gen : 0..MaxWrites]
  BY <1>1, NfsMonitorAssumption DEF TypeOK
<1>3. manifest' \in [Manifests -> [body : Bodies, mtime : 0..MaxClock,
                                   gen : 0..MaxWrites]]
  BY <1>2 DEF TypeOK, WriteTo
<1>. QED
  BY <1>3 DEF TypeOK, WriteTo, ghosts

(* Every environment step keeps the types.                                 *)
LEMMA EnvironmentType == TypeOK /\ Environment => TypeOK'
<1> SUFFICES ASSUME TypeOK, Environment PROVE TypeOK'
  OBVIOUS
<1>1. CASE Tick
  BY <1>1, NfsMonitorAssumption DEF TypeOK, Tick, ghosts
<1>2. CASE ShareDrops \/ ShareReturns
  BY <1>2 DEF TypeOK, ShareDrops, ShareReturns, ghosts
<1>3. ASSUME NEW f \in Manifests,
             Publish(f) \/ PublishMalformed(f) \/ BeginPublish(f)
      PROVE  TypeOK'
  <2>1. PICK body \in Bodies : WriteTo(f, body)
    BY <1>3 DEF Publish, PublishMalformed, BeginPublish, Bodies
  <2>. QED
    BY <2>1, WriteType
<1>4. ASSUME NEW f \in Manifests, Remove(f)
      PROVE  TypeOK'
  BY <1>4 DEF TypeOK, Remove, Bodies, ghosts
<1>. QED
  BY <1>1, <1>2, <1>3, <1>4 DEF Environment

(* The script's exit keeps the types of what it touches.                   *)
LEMMA ExitType ==
  ASSUME TypeOK, Exit
  PROVE  /\ pc' \in Idle \cup InPass
         /\ new_artifacts' \subseteq Manifests
         /\ posting' \in Posts
         /\ replay' \subseteq Manifests
  BY DEF TypeOK, Exit, Idle, Posts

(* Jenkins queues the posted write.                                        *)
LEMMA QueuedType ==
  ASSUME TypeOK, PassInv, pc = "post"
  PROVE  /\ posting.file \in Manifests
         /\ posting.gen \in 0..MaxWrites
         /\ Queued \in [Manifests -> SUBSET (0..MaxWrites)]
<1>1. posting.file \in Manifests
  BY DEF TypeOK, PassInv
<1>2. posting.gen \in 0..MaxWrites
  BY NfsMonitorAssumption DEF TypeOK, Posts, NoPost
<1>. QED
  BY <1>1, <1>2 DEF TypeOK, Queued

(* Every step of the specification keeps the types.                        *)
LEMMA NextType == TypeOK /\ PassInv /\ [Next]_vars => TypeOK'
<1> SUFFICES ASSUME TypeOK, PassInv, [Next]_vars PROVE TypeOK'
  OBVIOUS
<1>1. CASE Start
  BY <1>1 DEF TypeOK, Start, world, ghosts, Idle
<1>2. CASE Scan
  <2>1. Found(state_file) \subseteq Manifests
    BY DEF Found
  <2>. QED
    BY <1>2, <2>1, NfsMonitorAssumption DEF TypeOK, Scan, world, InPass
<1>3. CASE Truncate \/ Store \/ Wake
  BY <1>3, NfsMonitorAssumption
     DEF TypeOK, Truncate, Store, Wake, world, ghosts, Idle, InPass
<1>4. ASSUME NEW f \in Manifests, Extract(f)
      PROVE  TypeOK'
  <2>1. [file |-> f, gen |-> manifest[f].gen] \in Posts
    BY DEF TypeOK, Posts
  <2>. QED
    BY <1>4, <2>1 DEF TypeOK, Extract, world, ghosts, InPass
<1>5. ASSUME NEW f \in Manifests, ExtractFails(f)
      PROVE  TypeOK'
  BY <1>5, ExitType DEF TypeOK, ExtractFails, world
<1>6. CASE Refused
  BY <1>6, ExitType DEF TypeOK, Refused, world
<1>7. CASE ReplyLost
  BY <1>7, ExitType, QueuedType DEF TypeOK, ReplyLost, world
<1>8. ASSUME NEW f \in Manifests, Accepted(f)
      PROVE  TypeOK'
  BY <1>8, QueuedType DEF TypeOK, Accepted, world, InPass, Posts
<1>9. CASE Crash
  BY <1>9, ExitType DEF TypeOK, Crash, world
<1>10. CASE UNCHANGED vars
  BY <1>10 DEF TypeOK, vars
<1>. QED
  BY <1>1, <1>2, <1>3, <1>4, <1>5, <1>6, <1>7, <1>8, <1>9, <1>10,
     EnvironmentType DEF Next, Monitor, Reply

-----------------------------------------------------------------------------
(* The obligations of a pass.                                              *)

(* What a write by a publisher changes: the mtime becomes the clock, the   *)
(* count of writes grows, nothing else moves.                              *)
LEMMA WriteFacts ==
  ASSUME TypeOK, NEW f \in Manifests, NEW body \in Bodies, WriteTo(f, body),
         NEW g \in Manifests
  PROVE  /\ g # f => manifest'[g] = manifest[g]
         /\ manifest'[f].mtime = clock
         /\ manifest'[f].gen = manifest[f].gen + 1
         /\ manifest[f].gen \in Nat
         /\ manifest[g].mtime \in Nat /\ clock \in Nat
         /\ UNCHANGED <<clock, mounted, state_file, pc, last_check,
                        new_artifacts, posting, now, built, replay,
                        scanTime, dark>>
  BY DEF TypeOK, WriteTo, ghosts

LEMMA WritePass ==
  ASSUME TypeOK, PassInv, NEW f \in Manifests, NEW body \in Bodies,
         WriteTo(f, body)
  PROVE  PassInv'
<1>1. \A g \in Manifests : manifest'[g].mtime <= clock
  BY WriteFacts DEF PassInv, TypeOK
<1>2. ASSUME pc \in InPass
      PROVE  /\ \A g \in Manifests :
                 Unbuilt(g)' /\ manifest'[g].mtime > last_check
                   => g \in new_artifacts \/ manifest'[g].mtime >= scanTime
                      \/ dark
             /\ \A g \in new_artifacts : manifest'[g].mtime > last_check
  <2>1. scanTime <= clock
    BY <1>2 DEF PassInv
  <2>2. ASSUME NEW g \in Manifests, g # f, Unbuilt(g)'
        PROVE  Unbuilt(g)
    BY <2>2, WriteFacts DEF Unbuilt
  <2>3. \A g \in new_artifacts : manifest[g].mtime <= clock
    BY DEF PassInv, TypeOK
  <2>. QED
    BY <1>2, <2>1, <2>2, <2>3, WriteFacts DEF PassInv, TypeOK
<1>3. pc = "post" => posting.gen = manifest'[posting.file].gen
                      \/ manifest'[posting.file].mtime >= scanTime
  BY WriteFacts DEF PassInv, InPass, TypeOK
<1>. QED
  BY <1>1, <1>2, <1>3, WriteFacts DEF PassInv

LEMMA WriteReplay ==
  ASSUME TypeOK, ReplayInv, NEW f \in Manifests, NEW body \in Bodies,
         WriteTo(f, body), pc = "post" => posting.file \in Manifests
  PROVE  ReplayInv'
<1>1. \A g \in built[f] : g \in Nat /\ g <= manifest[f].gen
  BY NfsMonitorAssumption DEF TypeOK, ReplayInv
<1>2. manifest'[f].gen \notin built'[f]
  BY <1>1, WriteFacts
<1>3. \A h \in Manifests : \A g \in built'[h] : g <= manifest'[h].gen
  BY <1>1, WriteFacts DEF ReplayInv
<1>4. pc' = "post" => posting'.gen <= manifest'[posting'.file].gen
  <2>1. posting.gen \in Nat
    BY NfsMonitorAssumption DEF TypeOK, Posts, NoPost
  <2>. QED
    BY <2>1, WriteFacts DEF ReplayInv
<1>5. NoUnexplainedReplay'
  BY WriteFacts DEF ReplayInv, NoUnexplainedReplay
<1>. QED
  BY <1>2, <1>3, <1>4, <1>5, WriteFacts DEF ReplayInv

(* An exit, in whatever state, leaves the watermark of the last completed  *)
(* pass, so what was on the list will be found again.                      *)
LEMMA ExitPass ==
  ASSUME TypeOK, PassInv, Exit,
         UNCHANGED <<clock, manifest, state_file, scanTime>>
  PROVE  PassInv'
  BY DEF PassInv, Exit, Idle, InPass

LEMMA ExitReplay ==
  ASSUME TypeOK, PassInv, ReplayInv, Exit,
         UNCHANGED <<manifest, state_file>>,
         \A h \in Manifests : \A g \in built'[h] : g <= manifest[h].gen,
         pc \in Idle => built' = built
  PROVE  ReplayInv'
<1>1. CASE pc \in InPass
  <2>1. replay' = Manifests /\ pc' = "down" /\ new_artifacts' = {}
    BY <1>1 DEF Exit
  <2>. QED
    BY <2>1 DEF ReplayInv, NoUnexplainedReplay, Idle
<1>2. CASE pc \in Idle
  <2>1. replay' = replay /\ pc' = "down" /\ new_artifacts' = {}
        /\ built' = built
    BY <1>2 DEF Exit, Idle, InPass
  <2>. QED
    BY <1>2, <2>1 DEF ReplayInv, NoUnexplainedReplay, Idle
<1>. QED
  BY <1>1, <1>2 DEF TypeOK

(* Jenkins queues a write no later than the manifest's current one.        *)
LEMMA QueuedBounded ==
  ASSUME TypeOK, PassInv, ReplayInv, pc = "post"
  PROVE  \A h \in Manifests : \A g \in Queued[h] : g <= manifest[h].gen
  BY QueuedType DEF TypeOK, ReplayInv, Queued

(* A find lists every unbuilt manifest past the watermark, or the share    *)
(* was not there.                                                          *)
LEMMA ScanPass == TypeOK /\ PassInv /\ Scan => PassInv'
<1> SUFFICES ASSUME TypeOK, PassInv, Scan PROVE PassInv'
  OBVIOUS
<1>1. ASSUME NEW f \in Manifests, Unbuilt(f)',
             manifest[f].mtime > state_file, mounted
      PROVE  f \in Found(state_file)
  BY <1>1 DEF Found, Unbuilt, Scan, world
<1>2. \A f \in Found(state_file) : f \in Manifests
                                    /\ manifest[f].mtime > state_file
  BY DEF Found
<1>3. /\ pc' \in {"mark", "dispatch"}
      /\ pc' = "mark" => new_artifacts' = {}
      /\ new_artifacts' = Found(state_file)
      /\ last_check' = state_file /\ state_file' = state_file
      /\ scanTime' = clock /\ clock' = clock /\ clock \in Nat
      /\ manifest' = manifest
  BY DEF Scan, world, TypeOK
<1>4. \A f \in Manifests : manifest[f].mtime <= clock
  BY DEF PassInv
<1>5. state_file <= clock
  BY DEF PassInv
<1>6. mounted \/ dark'
  <2>1. dark' = ~mounted
    BY DEF Scan
  <2>. QED
    BY <2>1, Zenon
<1>. QED
  BY <1>1, <1>2, <1>3, <1>4, <1>5, <1>6 DEF PassInv, Idle, InPass

LEMMA AcceptedPass ==
  ASSUME TypeOK, PassInv, NEW f \in Manifests, Accepted(f)
  PROVE  PassInv'
<1>1. /\ pc = "post" /\ posting.file = f /\ pc' \in {"mark", "dispatch"}
      /\ pc' = "mark" => new_artifacts' = {}
  BY DEF Accepted
<1>2. ASSUME NEW g \in Manifests, Unbuilt(g)',
             manifest[g].mtime > last_check
      PROVE  g \in new_artifacts' \/ manifest[g].mtime >= scanTime \/ dark
  <2>1. Unbuilt(g)
    BY <1>1, <1>2, QueuedType DEF Unbuilt, Accepted, Queued, world, TypeOK
  <2>2. CASE g = f
    <3>1. f \in Manifests /\ posting.gen \in built'[f]
      BY <1>1, QueuedType DEF Accepted, Queued, TypeOK
    <3>2. posting.gen # manifest[f].gen
      BY <1>2, <2>2, <3>1 DEF Unbuilt, Accepted, world
    <3>. QED
      BY <1>1, <2>2, <3>2 DEF PassInv, TypeOK
  <2>3. CASE g # f
    BY <1>1, <1>2, <2>1, <2>3 DEF PassInv, InPass, Accepted
  <2>. QED
    BY <2>2, <2>3
<1>. QED
  BY <1>1, <1>2 DEF PassInv, Accepted, world, InPass, Idle

(* Every step keeps the obligations of the pass.                           *)
LEMMA NextPass ==
  TypeOK /\ PassInv /\ [Next]_vars => PassInv'
<1> SUFFICES ASSUME TypeOK, PassInv, [Next]_vars PROVE PassInv'
  OBVIOUS
<1>1. CASE Start
  BY <1>1 DEF PassInv, Start, ghosts, Idle, InPass
<1>2. CASE Scan
  BY <1>2, ScanPass
<1>3. CASE Truncate
  BY <1>3 DEF TypeOK, PassInv, Truncate, world, ghosts, Idle, InPass, Unbuilt
<1>4. CASE Store
  BY <1>4 DEF TypeOK, PassInv, Store, world, ghosts, Idle, InPass, Unbuilt
<1>5. CASE Wake
  BY <1>5 DEF TypeOK, PassInv, Wake, world, ghosts, Idle, InPass, Unbuilt
<1>6. ASSUME NEW f \in Manifests, Extract(f)
      PROVE  PassInv'
  BY <1>6 DEF PassInv, Extract, world, ghosts, Idle, InPass, Unbuilt
<1>7. ASSUME NEW f \in Manifests, ExtractFails(f)
      PROVE  PassInv'
  BY <1>7, ExitPass DEF ExtractFails, world
<1>8. CASE Refused \/ ReplyLost \/ Crash
  BY <1>8, ExitPass DEF Refused, ReplyLost, Crash, world
<1>9. ASSUME NEW f \in Manifests, Accepted(f)
      PROVE  PassInv'
  BY <1>9, AcceptedPass
<1>10. CASE Tick
  BY <1>10 DEF TypeOK, PassInv, Tick, ghosts, Idle, InPass, Unbuilt
<1>11. CASE ShareDrops \/ ShareReturns
  BY <1>11 DEF PassInv, ShareDrops, ShareReturns, ghosts, Idle, InPass, Unbuilt
<1>12. ASSUME NEW f \in Manifests,
              Publish(f) \/ PublishMalformed(f) \/ BeginPublish(f)
       PROVE  PassInv'
  <2>1. PICK body \in Bodies : WriteTo(f, body)
    BY <1>12 DEF Publish, PublishMalformed, BeginPublish, Bodies
  <2>. QED
    BY <2>1, WritePass
<1>13. ASSUME NEW f \in Manifests, Remove(f)
       PROVE  PassInv'
  <2>1. \A g \in Manifests : /\ manifest'[g].mtime = manifest[g].mtime
                             /\ manifest'[g].gen = manifest[g].gen
                             /\ Unbuilt(g)' => Unbuilt(g)
    BY <1>13 DEF Remove, TypeOK, Unbuilt, ghosts
  <2>. QED
    BY <1>13, <2>1 DEF PassInv, Remove, ghosts, Idle, InPass, TypeOK
<1>14. CASE UNCHANGED vars
  BY <1>14 DEF PassInv, vars, Idle, InPass, Unbuilt
<1>. QED
  BY <1>1, <1>2, <1>3, <1>4, <1>5, <1>6, <1>7, <1>8, <1>9, <1>10, <1>11,
     <1>12, <1>13, <1>14 DEF Next, Monitor, Reply, Environment

-----------------------------------------------------------------------------
(* Requests and builds.                                                    *)

LEMMA AcceptedReplay ==
  ASSUME TypeOK, PassInv, ReplayInv, NEW f \in Manifests, Accepted(f)
  PROVE  ReplayInv'
<1>1. /\ pc = "post" /\ posting.file = f /\ pc' \in {"mark", "dispatch"}
      /\ manifest' = manifest /\ state_file' = state_file
      /\ built' = Queued
      /\ replay' = replay \ {f} /\ new_artifacts' = new_artifacts \ {f}
  BY DEF Accepted, world
<1>2. \A h \in Manifests : \A g \in built'[h] : g <= manifest'[h].gen
  BY <1>1, QueuedBounded
<1>3. \A h \in Manifests : h # f => built'[h] = built[h]
  BY <1>1 DEF Queued, TypeOK
<1>. QED
  BY <1>1, <1>2, <1>3 DEF ReplayInv, NoUnexplainedReplay, Idle

LEMMA NextReplay ==
  TypeOK /\ PassInv /\ ReplayInv /\ [Next]_vars => ReplayInv'
<1> SUFFICES ASSUME TypeOK, PassInv, ReplayInv, [Next]_vars PROVE ReplayInv'
  OBVIOUS
<1>1. CASE Start \/ Wake
  BY <1>1 DEF PassInv, ReplayInv, NoUnexplainedReplay, Start, Wake, world,
              ghosts, Idle
<1>2. CASE Scan
  <2>1. \A f \in Found(state_file) : f \in Manifests
                                      /\ manifest[f].mtime > state_file
    BY DEF Found
  <2>. QED
    BY <1>2, <2>1 DEF ReplayInv, NoUnexplainedReplay, Scan, world, Idle
<1>3. CASE Truncate
  <2>1. \A f \in Manifests : ~(manifest[f].mtime > clock)
    BY DEF TypeOK, PassInv
  <2>. QED
    BY <1>3, <2>1 DEF ReplayInv, NoUnexplainedReplay, Truncate, world, ghosts,
                      Idle
<1>4. CASE Store
  BY <1>4 DEF ReplayInv, NoUnexplainedReplay, Store, world, ghosts, Idle
<1>5. ASSUME NEW f \in Manifests, Extract(f)
      PROVE  ReplayInv'
  <2>1. manifest[f].gen \in Nat
    BY DEF TypeOK
  <2>. QED
    BY <1>5, <2>1 DEF ReplayInv, NoUnexplainedReplay, Extract, world, ghosts,
                      Idle
<1>6. ASSUME NEW f \in Manifests, ExtractFails(f)
      PROVE  ReplayInv'
  BY <1>6, ExitReplay DEF ExtractFails, world, ReplayInv
<1>7. CASE Refused \/ Crash
  BY <1>7, ExitReplay DEF Refused, Crash, world, ReplayInv
<1>8. CASE ReplyLost
  BY <1>8, ExitReplay, QueuedBounded DEF ReplyLost, world, Idle
<1>9. ASSUME NEW f \in Manifests, Accepted(f)
      PROVE  ReplayInv'
  BY <1>9, AcceptedReplay
<1>10. CASE Tick \/ ShareDrops \/ ShareReturns
  BY <1>10 DEF ReplayInv, NoUnexplainedReplay, Tick, ShareDrops, ShareReturns,
               ghosts
<1>11. ASSUME NEW f \in Manifests,
              Publish(f) \/ PublishMalformed(f) \/ BeginPublish(f)
       PROVE  ReplayInv'
  <2>1. PICK body \in Bodies : WriteTo(f, body)
    BY <1>11 DEF Publish, PublishMalformed, BeginPublish, Bodies
  <2>2. pc = "post" => posting.file \in Manifests
    BY QueuedType
  <2>. QED
    BY <2>1, <2>2, WriteReplay
<1>12. ASSUME NEW f \in Manifests, Remove(f)
       PROVE  ReplayInv'
  <2>1. \A g \in Manifests : /\ manifest'[g].mtime = manifest[g].mtime
                             /\ manifest'[g].gen = manifest[g].gen
    BY <1>12 DEF Remove, TypeOK
  <2>2. pc = "post" => posting.file \in Manifests
    BY QueuedType
  <2>. QED
    BY <1>12, <2>1, <2>2 DEF ReplayInv, NoUnexplainedReplay, Remove, ghosts
<1>13. CASE UNCHANGED vars
  BY <1>13 DEF ReplayInv, NoUnexplainedReplay, vars
<1>. QED
  BY <1>1, <1>2, <1>3, <1>4, <1>5, <1>6, <1>7, <1>8, <1>9, <1>10, <1>11,
     <1>12, <1>13 DEF Next, Monitor, Reply, Environment

-----------------------------------------------------------------------------
(* The theorems.                                                           *)

LEMMA InitInv == Init => IInv
<1> SUFFICES ASSUME Init PROVE IInv
  OBVIOUS
<1>1. TypeOK
  BY InitType
<1>2. PassInv
  BY DEF Init, PassInv, InPass, Idle
<1>3. ReplayInv
  BY DEF Init, ReplayInv, NoUnexplainedReplay
<1>. QED
  BY <1>1, <1>2, <1>3 DEF IInv

LEMMA NextInv == IInv /\ [Next]_vars => IInv'
  BY NextType, NextPass, NextReplay DEF IInv

(* The inductive invariant of the monitor holds in every reachable state.  *)
THEOREM Invariance == Spec => []IInv
  BY InitInv, NextInv, PTL DEF Spec

(* The state of the script, the share and the ghosts is always well typed. *)
THEOREM TypeCorrect == Spec => []TypeOK
<1>1. IInv => TypeOK
  BY DEF IInv
<1>. QED
  BY <1>1, Invariance, PTL

(* Completed passes never ask Jenkins twice for the same write of a        *)
(* manifest (monitor_loop, lines 252-278): a second request means that a   *)
(* pass was cut short in between.                                          *)
THEOREM ReplayExplained == Spec => []NoUnexplainedReplay
<1>1. IInv => NoUnexplainedReplay
  BY DEF IInv, ReplayInv
<1>. QED
  BY <1>1, Invariance, PTL

-----------------------------------------------------------------------------
(* Where manifests drop out of sight.                                      *)

DropsInWindow ==
  \A f \in Manifests :
    Missed(f)' /\ ~Missed(f) => manifest'[f].mtime >= scanTime' \/ dark'

(* A manifest that is not rewritten and whose builds only grow can become  *)
(* unbuilt only if it was; then it is the watermark or the list that moved.*)
LEMMA StillUnbuilt ==
  ASSUME NEW f \in Manifests, Missed(f)', ~Missed(f), manifest' = manifest,
         built[f] \subseteq built'[f]
  PROVE  /\ Unbuilt(f)
         /\ manifest[f].mtime <= Watermark' /\ f \notin new_artifacts'
         /\ ~(manifest[f].mtime <= Watermark) \/ f \in new_artifacts
  BY DEF Missed, Unbuilt

(* An exit drops nothing: a pass that had not truncated the state file     *)
(* leaves its watermark there, and a truncated file reads as 0.            *)
LEMMA ExitDrops ==
  ASSUME TypeOK, PassInv, Exit, UNCHANGED <<manifest, state_file>>,
         NEW f \in Manifests, Missed(f)', built[f] \subseteq built'[f]
  PROVE  Missed(f)
<1> SUFFICES ASSUME ~Missed(f) PROVE FALSE
  OBVIOUS
<1>1. manifest[f].mtime <= state_file
  BY StillUnbuilt DEF Exit, Watermark, InPass
<1>2. manifest[f].mtime \in Nat /\ last_check \in Nat /\ state_file \in Nat
  BY DEF TypeOK
<1>3. f \notin new_artifacts
  BY <1>1, <1>2 DEF PassInv, TypeOK, InPass
<1>4. manifest[f].mtime > last_check /\ pc \in InPass
  BY <1>1, <1>2, <1>3, StillUnbuilt DEF Watermark
<1>. QED
  BY <1>1, <1>2, <1>4 DEF PassInv, InPass

LEMMA WriteDrops ==
  ASSUME TypeOK, PassInv, NEW g \in Manifests, NEW body \in Bodies,
         WriteTo(g, body)
  PROVE  DropsInWindow
<1> SUFFICES ASSUME NEW f \in Manifests, Missed(f)', ~Missed(f)
             PROVE  manifest'[f].mtime >= scanTime'
  BY DEF DropsInWindow
<1>1. CASE f = g
  BY <1>1, WriteFacts DEF PassInv, TypeOK
<1>2. CASE f # g
  BY <1>2, WriteFacts DEF Missed, Unbuilt, Watermark
<1>. QED
  BY <1>1, <1>2

LEMMA NextDrops == IInv /\ Next => DropsInWindow
<1> SUFFICES ASSUME TypeOK, PassInv, Next PROVE DropsInWindow
  BY DEF IInv
<1>1. ASSUME manifest' = manifest, Watermark' = Watermark,
             new_artifacts' = new_artifacts, built' = built
      PROVE  DropsInWindow
  BY <1>1, StillUnbuilt DEF DropsInWindow
<1>2. CASE Start \/ Wake \/ Tick \/ ShareDrops \/ ShareReturns
  BY <1>1, <1>2 DEF Start, Wake, Tick, ShareDrops, ShareReturns, world, ghosts,
                    Watermark, InPass
<1>3. CASE Scan
  <2>1. new_artifacts = {} /\ Watermark' = Watermark
    BY <1>3 DEF Scan, PassInv, Idle, Watermark, InPass
  <2>. QED
    BY <1>3, <2>1, StillUnbuilt DEF Scan, world, DropsInWindow
<1>4. CASE Truncate
  BY <1>1, <1>4 DEF Truncate, world, ghosts, Watermark, InPass
<1>5. CASE Store
  <2> SUFFICES ASSUME NEW f \in Manifests, Missed(f)', ~Missed(f)
               PROVE  manifest[f].mtime >= scanTime \/ dark
    BY <1>5 DEF DropsInWindow, Store, world, ghosts
  <2>1. Unbuilt(f) /\ new_artifacts = {} /\ manifest[f].mtime > last_check
    BY <1>5, StillUnbuilt
       DEF Store, world, ghosts, Watermark, InPass, PassInv, TypeOK
  <2>. QED
    BY <1>5, <2>1 DEF PassInv, Store, InPass
<1>6. ASSUME NEW g \in Manifests, Extract(g)
      PROVE  DropsInWindow
  BY <1>1, <1>6 DEF Extract, world, ghosts, Watermark, InPass
<1>7. ASSUME NEW g \in Manifests, ExtractFails(g)
      PROVE  DropsInWindow
  BY <1>7, ExitDrops DEF ExtractFails, world, DropsInWindow
<1>8. CASE Refused \/ Crash
  BY <1>8, ExitDrops DEF Refused, Crash, world, DropsInWindow
<1>9. CASE ReplyLost
  <2>1. \A f \in Manifests : built[f] \subseteq built'[f]
    BY <1>9, QueuedType DEF ReplyLost, Queued, TypeOK
  <2>. QED
    BY <1>9, <2>1, ExitDrops DEF ReplyLost, world, DropsInWindow
<1>10. ASSUME NEW g \in Manifests, Accepted(g)
       PROVE  DropsInWindow
  <2>1. \A f \in Manifests : built[f] \subseteq built'[f]
    BY <1>10, QueuedType DEF Accepted, Queued, TypeOK
  <2>2. Watermark = last_check /\ Watermark' = last_check
    BY <1>10 DEF Accepted, Watermark, InPass, world
  <2>3. \A f \in new_artifacts : f \in Manifests
                                 /\ ~(manifest[f].mtime <= last_check)
    BY <1>10 DEF Accepted, PassInv, InPass, TypeOK
  <2>. QED
    BY <1>10, <2>1, <2>2, <2>3, StillUnbuilt DEF Accepted, world, DropsInWindow
<1>11. ASSUME NEW g \in Manifests,
              Publish(g) \/ PublishMalformed(g) \/ BeginPublish(g)
       PROVE  DropsInWindow
  <2>1. PICK body \in Bodies : WriteTo(g, body)
    BY <1>11 DEF Publish, PublishMalformed, BeginPublish, Bodies
  <2>. QED
    BY <2>1, WriteDrops
<1>12. ASSUME NEW g \in Manifests, Remove(g)
       PROVE  DropsInWindow
  <2>1. \A f \in Manifests : /\ manifest'[f].mtime = manifest[f].mtime
                             /\ Unbuilt(f)' => Unbuilt(f)
    BY <1>12 DEF Remove, TypeOK, Unbuilt, ghosts
  <2>. QED
    BY <1>12, <2>1 DEF Remove, Missed, Watermark, ghosts, DropsInWindow
<1>. QED
  BY <1>2, <1>3, <1>4, <1>5, <1>6, <1>7, <1>8, <1>9, <1>10, <1>11, <1>12
     DEF Next, Monitor, Reply, Environment

(* Nothing a find could see is ever dropped (find_new_artifacts and        *)
(* update_last_check_time, lines 79-101): a manifest drops out of sight    *)
(* only if it was written in or after the second its pass listed the share *)
(* in, or if that pass listed an unmounted share.                          *)
THEOREM WindowOnly == Spec => MissedOnlyInWindow
<1>1. IInv /\ [Next]_vars
        => [\A f \in Manifests :
              Missed(f)' /\ ~Missed(f)
                => manifest'[f].mtime >= scanTime' \/ dark']_vars
  BY NextDrops DEF DropsInWindow
<1>. QED
  BY <1>1, Invariance, PTL DEF Spec, MissedOnlyInWindow
=============================================================================

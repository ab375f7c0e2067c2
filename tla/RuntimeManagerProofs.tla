-------------------------- MODULE RuntimeManagerProofs --------------------------
(***************************************************************************)
(* The runtime a gate runs, the logins it lets in and the artifacts it     *)
(* keeps, for any number of releases, syncs, logins, jobs and restarts.    *)
(*                                                                         *)
(* The properties follow from what holds at each step of a job             *)
(* (LoaderInv), and, for a login, from what it has recorded while the      *)
(* generation it was asked in lasts (LoginInv).                            *)
(*                                                                         *)
(* Two of the properties are those of one fault: after a stop that failed, *)
(* a snapshot that fails in a later job makes the gate ready although its  *)
(* runtime may be listening no more.                                       *)
(***************************************************************************)
EXTENDS RuntimeManager, FiniteSetTheorems, TLAPS

\* A sync on its way names a release.
SyncsNamed == \A t \in Thread : sync[t].at # "idle" => sync[t].rel \in Release

Installing == {"verified", "quiesce", "snapshot", "stop", "start", "apply", "persist",
               "persistSync", "cleanup", "rollback"}

\* What holds at the steps of a job.
LoaderInv ==
    /\ job.at # "idle" => job.rel \in Release
    /\ job.at \in Installing => job.rel \in disk
    /\ job.at \in {"quiesce", "snapshot", "stop"} => job.prev = active
    /\ job.at = "stop" => job.prev # None
    /\ job.at \in {"snapshot", "stop"} => phase = "quiescing"
    /\ job.at \in {"start", "apply", "rollback"} => active = None /\ phase = "activating"
    /\ job.at = "apply" => running = {job.cand}
    /\ job.cand <= made
    /\ job.at \in {"persist", "persistSync", "cleanup"} =>
          active # None /\ (active.inst = job.cand => active.rel = job.rel)
    /\ job.at \in {"persistSync", "cleanup"} /\ used.faults = 0 => cache = active.rel

\* The runtime the gate holds listens, until a stop fails.
HeldListens == active # None /\ used.faults = 0 => running = {active.inst}

ReadyInv == used.faults <= 1 => ReadyMeansRunning

Current == active # None /\ running = {active.inst}

\* As long as the generation lasts in which a login was asked, and its runtime
\* listens, that runtime has seen the events there were.
LoginOK(rec) ==
    /\ rec.at \in {"asked", "profiled", "checked"} /\ rec.gen # None =>
          rec.gen \in Nat /\ rec.gen <= generation
    /\ Current /\ rec.gen # None /\ rec.gen = generation =>
          /\ rec.at \in {"profiled", "checked"} => rec.profiledBy = {active.inst}
          /\ rec.at = "checked" => rec.checkedBy = {active.inst}
    /\ rec.at = "in" /\ used.faults <= 1 =>
          rec.profiledBy = rec.checkedBy /\ Cardinality(rec.checkedBy) = 1

LoginInv == \A l \in Login : LoginOK(login[l])

ManagerInv ==
    /\ TypeOK
    /\ SyncsNamed
    /\ LoaderInv
    /\ HeldListens
    /\ ReadyInv
    /\ LoginInv
    /\ ArtifactsKept

--------------------------------------------------------------------------------
(***************************************************************************)
(* Records that change.                                                    *)
(***************************************************************************)
LEMMA JobFields ==
  ASSUME NEW j \in JobRec
  PROVE  /\ j.at \in JobStep /\ j.rel \in Known /\ j.prev \in Loaded \cup {None}
         /\ j.cand \in Nat /\ j.boot \in BOOLEAN
BY DEF JobRec

LEMMA NoJobTyped ==
  /\ NoJob \in JobRec /\ NoJob.at = "idle" /\ NoJob.rel = None /\ NoJob.prev = None
  /\ NoJob.cand = 0 /\ NoJob.boot = FALSE
BY DEF NoJob, JobRec, JobStep, Known

LEMMA Goes ==
  ASSUME TypeOK, NEW step \in JobStep, Go(step)
  PROVE  /\ job' \in JobRec /\ job'.at = step /\ job'.rel = job.rel /\ job'.prev = job.prev
         /\ job'.cand = job.cand /\ job'.boot = job.boot
BY DEF TypeOK, Go, JobRec

LEMMA Faults ==
  ASSUME TypeOK, Fault
  PROVE  used' \in Use /\ used'.faults = used.faults + 1 /\ used.faults \in Nat
<1>1. used \in Use /\ used.faults \in 0 .. MaxFault /\ used.faults < MaxFault
  BY DEF TypeOK, Use, Fault
<1>2. used.faults + 1 \in 0 .. MaxFault
  BY <1>1, BoundAssumption
<1>3. used' = [used EXCEPT !.faults = used.faults + 1]
  BY DEF Fault
<1> QED
  BY <1>1, <1>2, <1>3 DEF Use

LEMMA UsedFields ==
  ASSUME NEW u \in Use
  PROVE  u.jobs \in Nat /\ u.edits \in Nat /\ u.faults \in Nat /\ u.restarts \in Nat
BY BoundAssumption DEF Use

LEMMA LoadedFields ==
  ASSUME NEW a \in Loaded
  PROVE  a.rel \in Release /\ a.inst \in Nat /\ a # None
BY LoadedAssumption DEF Loaded

\* A runtime that replaces another has a new generation.
LEMMA LoginsKeep ==
  ASSUME ManagerInv, UNCHANGED login,
         used'.faults \in Nat, used'.faults >= used.faults,
         generation' \in Nat, generation' >= generation,
         Current' /\ generation' = generation => Current /\ active' = active
  PROVE  LoginInv'
<1> SUFFICES ASSUME NEW l \in Login
             PROVE  LoginOK(login[l])'
  BY DEF LoginInv
<1>1. LoginOK(login[l])
  BY DEF ManagerInv, LoginInv
<1>2. used.faults \in Nat /\ generation \in Nat
  BY UsedFields DEF ManagerInv, TypeOK
<1>3. login'[l] = login[l]
  OBVIOUS
<1>4. login[l].at \in {"asked", "profiled", "checked"} /\ login[l].gen # None =>
          login[l].gen \in Nat /\ login[l].gen <= generation'
  BY <1>1, <1>2 DEF LoginOK
<1>5. CASE Current' /\ login[l].gen # None /\ login[l].gen = generation'
  <2>1. login[l].at \in {"profiled", "checked"} => generation' = generation
    BY <1>1, <1>2, <1>5 DEF LoginOK
  <2> QED
    BY <1>1, <1>2, <1>3, <1>4, <1>5, <2>1 DEF LoginOK
<1>6. CASE ~(Current' /\ login[l].gen # None /\ login[l].gen = generation')
  BY <1>1, <1>2, <1>3, <1>4, <1>6 DEF LoginOK
<1> QED
  BY <1>5, <1>6

\* Nothing but syncs, targets, the catalogue and counts other than that of
\* faults changes.
LEMMA RuntimeKeeps ==
  ASSUME ManagerInv, TypeOK', SyncsNamed',
         UNCHANGED <<fileVars, runtimeVars, job, login>>, used'.faults = used.faults
  PROVE  ManagerInv'
<1>1. /\ phase' = phase /\ active' = active /\ generation' = generation /\ running' = running
      /\ made' = made /\ disk' = disk /\ cache' = cache /\ job' = job /\ login' = login
  BY DEF fileVars, runtimeVars
<1>2. LoaderInv' /\ HeldListens' /\ ReadyInv' /\ ArtifactsKept'
  BY <1>1 DEF ManagerInv, LoaderInv, HeldListens, ReadyInv, ReadyMeansRunning, ArtifactsKept
<1>3. LoginInv'
  BY <1>1 DEF ManagerInv, LoginInv, LoginOK, Current
<1> QED
  BY <1>2, <1>3 DEF ManagerInv

--------------------------------------------------------------------------------
(***************************************************************************)
(* Administrators and syncs.                                               *)
(***************************************************************************)
LEMMA CatalogKeepsType ==
  ASSUME CatalogTypeOK, CatalogNext
  PROVE  CatalogTypeOK'
<1>1. PICK a \in Admin :
         \/ \E r \in Release : Upload(a, r) \/ Activate(a, r) \/ DeleteCheck(a, r)
         \/ ActivateGet(a) \/ ActivateSet(a) \/ Delete(a)
  BY DEF CatalogNext
<1>2. AtRest \in AdminRec /\ admin[a] \in AdminRec /\ admin[a].rel \in Release \cup {None}
  BY DEF AtRest, AdminRec, CatalogTypeOK
<1>3. \A op \in {"get", "set", "delete"}, r \in Release \cup {None} :
         [op |-> op, rel |-> r] \in AdminRec
  BY DEF AdminRec
<1>4. [admin[a] EXCEPT !.op = "set"] \in AdminRec
  BY <1>2 DEF AdminRec
<1>5. /\ admin' \in [Admin -> AdminRec]
      /\ releases' \subseteq Release /\ configured' \in Release \cup {None}
  <2>1. CASE \E r \in Release : Upload(a, r) \/ Activate(a, r) \/ DeleteCheck(a, r)
    BY <2>1, <1>3 DEF Upload, Activate, DeleteCheck, CatalogTypeOK
  <2>2. CASE ActivateGet(a)
    BY <2>2, <1>2, <1>4 DEF ActivateGet, CatalogTypeOK
  <2>3. CASE ActivateSet(a) \/ Delete(a)
    BY <2>3, <1>2 DEF ActivateSet, Delete, CatalogTypeOK
  <2> QED
    BY <1>1, <2>1, <2>2, <2>3
<1> QED
  BY <1>5 DEF CatalogTypeOK

LEMMA EditKeeps ==
  ASSUME ManagerInv, Edit
  PROVE  ManagerInv'
<1>1. used' \in Use /\ used'.faults = used.faults
  <2>1. used \in Use /\ used.edits \in 0 .. MaxEdit
    BY DEF ManagerInv, TypeOK, Use
  <2>2. CASE used' = used
    BY <2>1, <2>2
  <2>3. CASE used.edits < MaxEdit /\ used' = [used EXCEPT !.edits = @ + 1]
    <3>1. used.edits + 1 \in 0 .. MaxEdit
      BY <2>1, <2>3, BoundAssumption
    <3> QED
      BY <2>1, <2>3, <3>1 DEF Use
  <2> QED
    BY <2>2, <2>3 DEF Edit
<1>2. CatalogTypeOK'
  BY CatalogKeepsType DEF Edit, ManagerInv, TypeOK
<1>3. TypeOK' /\ SyncsNamed'
  BY <1>1, <1>2 DEF Edit, ManagerInv, TypeOK, SyncsNamed, fileVars, runtimeVars, targetVars
<1> QED
  BY <1>1, <1>3, RuntimeKeeps DEF Edit

LEMMA NoSyncTyped == NoSync \in SyncRec /\ NoSync.at = "idle"
BY DEF NoSync, SyncRec, Known

\* One sync goes on, under its name or not at all.
LEMMA SyncsKeep ==
  ASSUME ManagerInv, NEW t \in Thread, NEW s \in SyncRec,
         sync' = [sync EXCEPT ![t] = s], s.at # "idle" => s.rel \in Release
  PROVE  sync' \in [Thread -> SyncRec] /\ SyncsNamed'
BY DEF ManagerInv, TypeOK, SyncsNamed

\* What is left of a step that changes one sync.
LEMMA SyncStepKeeps ==
  ASSUME ManagerInv, NEW t \in Thread, NEW s \in SyncRec,
         sync' = [sync EXCEPT ![t] = s], s.at # "idle" => s.rel \in Release,
         target' \in Known, rejected' \in Known, pending' \in Known,
         queue' \in Seq(Release), used' \in Use, used'.faults = used.faults,
         UNCHANGED <<catalogVars, fileVars, runtimeVars, job, login>>
  PROVE  ManagerInv'
<1>1. sync' \in [Thread -> SyncRec] /\ SyncsNamed'
  BY SyncsKeep
<1>2. TypeOK'
  BY <1>1 DEF ManagerInv, TypeOK, CatalogTypeOK, catalogVars, fileVars, runtimeVars
<1> QED
  BY <1>1, <1>2, RuntimeKeeps

LEMMA ReceiveSyncKeeps ==
  ASSUME ManagerInv, NEW t \in Thread, ReceiveSync(t)
  PROVE  ManagerInv'
<1>1. Served \in Release
  BY DEF ReceiveSync, Served, ManagerInv, TypeOK, CatalogTypeOK
<1> DEFINE s == [at |-> "module", rel |-> Served]
<1>2. s \in SyncRec /\ s.rel \in Release
  BY <1>1 DEF SyncRec, Known
<1>3. sync' = [sync EXCEPT ![t] = s]
  BY DEF ReceiveSync
<1> HIDE DEF s
<1> QED
  BY <1>2, <1>3, SyncStepKeeps DEF ReceiveSync, ManagerInv, TypeOK, targetVars

LEMMA SyncStepsKeep ==
  ASSUME ManagerInv, NEW t \in Thread, SyncStep(t)
  PROVE  ManagerInv'
<1>1. /\ sync[t] \in SyncRec /\ sync[t].rel \in Known
      /\ sync[t].at # "idle" => sync[t].rel \in Release
  BY DEF ManagerInv, TypeOK, SyncRec, SyncsNamed
<1>2. \A step \in {"target", "check", "enqueue"} :
         /\ [sync[t] EXCEPT !.at = step] \in SyncRec
         /\ [sync[t] EXCEPT !.at = step].rel = sync[t].rel
  BY <1>1 DEF SyncRec
<1>3. CASE SyncModule(t)
  <2> DEFINE s == [sync[t] EXCEPT !.at = "target"]
  <2>1. sync' = [sync EXCEPT ![t] = s] /\ s \in SyncRec /\ s.rel \in Release
    BY <1>1, <1>2, <1>3 DEF SyncModule
  <2> HIDE DEF s
  <2> QED
    BY <1>3, <2>1, SyncStepKeeps DEF SyncModule, ManagerInv, TypeOK, targetVars
<1>4. CASE SetTarget(t)
  <2> DEFINE s == [sync[t] EXCEPT !.at = "check"]
  <2>1. sync' = [sync EXCEPT ![t] = s] /\ s \in SyncRec /\ s.rel \in Release
    BY <1>1, <1>2, <1>4 DEF SetTarget
  <2>2. target' \in Known /\ rejected' \in Known
    BY <1>1, <1>4 DEF SetTarget, ManagerInv, TypeOK, Known
  <2> HIDE DEF s
  <2> QED
    BY <1>4, <2>1, <2>2, SyncStepKeeps DEF SetTarget, ManagerInv, TypeOK
<1>5. CASE CheckTarget(t)
  <2> DEFINE s == [sync[t] EXCEPT !.at = "enqueue"]
  <2>1. s \in SyncRec /\ s.rel \in Release
    BY <1>1, <1>2, <1>5 DEF CheckTarget
  <2>2. sync' = [sync EXCEPT ![t] = s] \/ sync' = [sync EXCEPT ![t] = NoSync]
    BY <1>5 DEF CheckTarget
  <2> HIDE DEF s
  <2> QED
    BY <1>5, <2>1, <2>2, NoSyncTyped, SyncStepKeeps
    DEF CheckTarget, ManagerInv, TypeOK, targetVars
<1>6. CASE AlreadyPending(t)
  BY <1>6, NoSyncTyped, SyncStepKeeps DEF AlreadyPending, ManagerInv, TypeOK, targetVars
<1>7. CASE Enqueue(t)
  <2>1. used.jobs < MaxJob /\ used' = [used EXCEPT !.jobs = used.jobs + 1]
    BY <1>7 DEF Enqueue
  <2>2. used \in Use /\ used.jobs + 1 \in 0 .. MaxJob
    BY <2>1, BoundAssumption DEF ManagerInv, TypeOK, Use
  <2>3. used' \in Use /\ used'.faults = used.faults
    BY <2>1, <2>2 DEF Use
  <2>4. queue' \in Seq(Release) /\ pending' \in Known
    BY <1>1, <1>7 DEF Enqueue, ManagerInv, TypeOK, Known
  <2> QED
    BY <1>7, <2>3, <2>4, NoSyncTyped, SyncStepKeeps DEF Enqueue, ManagerInv, TypeOK
<1> QED
  BY <1>3, <1>4, <1>5, <1>6, <1>7 DEF SyncStep

--------------------------------------------------------------------------------
(***************************************************************************)
(* Steps of the loader that replace no runtime.                            *)
(***************************************************************************)
LEMMA LoaderKeeps ==
  ASSUME ManagerInv, TypeOK', LoaderInv', ReadyInv', ArtifactsKept',
         UNCHANGED <<active, running, generation, sync, login>>,
         used'.faults >= used.faults
  PROVE  ManagerInv'
<1>1. used.faults \in Nat /\ used'.faults \in Nat /\ generation' \in Nat /\ generation \in Nat
  BY UsedFields DEF ManagerInv, TypeOK
<1>2. SyncsNamed' /\ HeldListens'
  BY <1>1 DEF ManagerInv, SyncsNamed, HeldListens
<1>3. Current' <=> Current
  BY DEF Current
<1>4. LoginInv'
  BY <1>1, <1>3, LoginsKeep
<1> QED
  BY <1>2, <1>4 DEF ManagerInv

\* The phase as it is, and no fault.
LEMMA QuietLoaderKeeps ==
  ASSUME ManagerInv, TypeOK', LoaderInv', ArtifactsKept',
         UNCHANGED <<runtimeVars, sync, login, used>>
  PROVE  ManagerInv'
<1>1. ReadyInv'
  BY DEF ManagerInv, ReadyInv, ReadyMeansRunning, runtimeVars
<1>2. used'.faults >= used.faults
  BY UsedFields DEF ManagerInv, TypeOK
<1> QED
  BY <1>1, <1>2, LoaderKeeps DEF runtimeVars

LEMMA TakeJobKeeps ==
  ASSUME ManagerInv, TakeJob
  PROVE  ManagerInv'
<1>1. Head(queue) \in Release /\ Tail(queue) \in Seq(Release)
  BY DEF TakeJob, ManagerInv, TypeOK
<1>2. /\ job' \in JobRec /\ job'.at = "begin" /\ job'.rel = Head(queue) /\ job'.cand = 0
  BY <1>1 DEF TakeJob, NoJob, JobRec, JobStep, Known
<1>3. TypeOK'
  BY <1>1, <1>2 DEF TakeJob, ManagerInv, TypeOK, CatalogTypeOK, catalogVars, fileVars,
                    runtimeVars, targetVars
<1>4. LoaderInv' /\ ArtifactsKept'
  BY <1>1, <1>2 DEF TakeJob, ManagerInv, TypeOK, LoaderInv, ArtifactsKept, Installing,
                    fileVars, runtimeVars
<1> QED
  BY <1>3, <1>4, QuietLoaderKeeps DEF TakeJob

LEMMA IsCurrentTargetKeeps ==
  ASSUME ManagerInv, IsCurrentTarget
  PROVE  ManagerInv'
<1>1. /\ job' \in JobRec /\ job'.rel = job.rel /\ job'.cand = job.cand
      /\ \/ At("begin") /\ job'.at \in {"fetch", "done"}
         \/ At("verified") /\ job'.at \in {"quiesce", "done"} /\ job'.prev = active
  <2>1. CASE At("begin") /\ Go(IF target = job.rel THEN "fetch" ELSE "done")
    BY <2>1, Goes DEF JobStep, ManagerInv
  <2>2. CASE /\ At("verified")
             /\ job' = [job EXCEPT !.at = IF target = job.rel THEN "quiesce" ELSE "done",
                                   !.prev = active]
    BY <2>2 DEF ManagerInv, TypeOK, JobRec, JobStep
  <2> QED
    BY <2>1, <2>2 DEF IsCurrentTarget
<1>2. TypeOK'
  BY <1>1 DEF IsCurrentTarget, ManagerInv, TypeOK, CatalogTypeOK, catalogVars, fileVars,
              runtimeVars, targetVars
<1>3. LoaderInv' /\ ArtifactsKept'
  BY <1>1 DEF IsCurrentTarget, ManagerInv, TypeOK, LoaderInv, ArtifactsKept, Installing, At,
              fileVars, runtimeVars
<1> QED
  BY <1>2, <1>3, QuietLoaderKeeps DEF IsCurrentTarget

LEMMA FetchKeeps ==
  ASSUME ManagerInv, Fetch
  PROVE  ManagerInv'
<1>1. job' \in JobRec /\ job'.at = "verified" /\ job'.rel = job.rel /\ job'.cand = job.cand
  BY Goes DEF Fetch, JobStep, ManagerInv
<1>2. At("fetch") /\ job.rel \in Release /\ disk' = disk \cup {job.rel}
  BY DEF Fetch, At, ManagerInv, LoaderInv
<1>3. TypeOK'
  BY <1>1, <1>2 DEF Fetch, ManagerInv, TypeOK, CatalogTypeOK, catalogVars, runtimeVars, targetVars
<1>4. LoaderInv' /\ ArtifactsKept'
  BY <1>1, <1>2 DEF Fetch, ManagerInv, LoaderInv, ArtifactsKept, Installing, runtimeVars
<1> QED
  BY <1>3, <1>4, QuietLoaderKeeps DEF Fetch

LEMMA FetchFailsKeeps ==
  ASSUME ManagerInv, FetchFails
  PROVE  ManagerInv'
<1>1. /\ job' \in JobRec /\ job'.at = "done" /\ job'.rel = job.rel /\ job'.cand = job.cand
  BY Goes DEF FetchFails, Failed, JobStep, ManagerInv
<1>2. /\ job.rel \in Release /\ rejected' \in Known /\ phase' \in {"failed", phase}
  BY DEF FetchFails, Failed, At, ManagerInv, LoaderInv, TypeOK, Known
<1>3. TypeOK'
  BY <1>1, <1>2 DEF FetchFails, ManagerInv, TypeOK, CatalogTypeOK, catalogVars, fileVars
<1>4. LoaderInv' /\ ArtifactsKept'
  BY <1>1, <1>2 DEF FetchFails, ManagerInv, LoaderInv, ArtifactsKept, Installing, fileVars
<1>5. ReadyInv'
  BY <1>2 DEF FetchFails, ManagerInv, ReadyInv, ReadyMeansRunning
<1>6. used'.faults >= used.faults
  BY UsedFields DEF FetchFails, ManagerInv, TypeOK
<1> QED
  BY <1>3, <1>4, <1>5, <1>6, LoaderKeeps DEF FetchFails

LEMMA QuiesceKeeps ==
  ASSUME ManagerInv, Quiesce
  PROVE  ManagerInv'
<1>1. /\ job' \in JobRec /\ job'.at = "snapshot" /\ job'.rel = job.rel
      /\ job'.cand = job.cand /\ job'.prev = job.prev
  BY Goes DEF Quiesce, JobStep, ManagerInv
<1>2. TypeOK'
  BY <1>1 DEF Quiesce, ManagerInv, TypeOK, CatalogTypeOK, catalogVars, fileVars, targetVars
<1>3. LoaderInv' /\ ArtifactsKept' /\ ReadyInv'
  BY <1>1 DEF Quiesce, ManagerInv, LoaderInv, ArtifactsKept, ReadyInv, ReadyMeansRunning,
              Installing, At, fileVars
<1>4. used'.faults >= used.faults
  BY UsedFields DEF Quiesce, ManagerInv, TypeOK
<1> QED
  BY <1>2, <1>3, <1>4, LoaderKeeps DEF Quiesce

LEMMA SnapshotKeeps ==
  ASSUME ManagerInv, Snapshot
  PROVE  ManagerInv'
<1>1. /\ job' \in JobRec /\ job'.rel = job.rel /\ job'.cand = job.cand /\ job'.prev = job.prev
      /\ \/ job.prev = None /\ phase' = "activating" /\ job'.at = "start"
         \/ job.prev # None /\ phase' = phase /\ job'.at = "stop"
  BY Goes DEF Snapshot, JobStep, ManagerInv
<1>2. TypeOK'
  BY <1>1 DEF Snapshot, ManagerInv, TypeOK, CatalogTypeOK, catalogVars, fileVars, targetVars
<1>3. LoaderInv' /\ ArtifactsKept' /\ ReadyInv'
  BY <1>1 DEF Snapshot, ManagerInv, LoaderInv, ArtifactsKept, ReadyInv, ReadyMeansRunning,
              Installing, At, fileVars
<1>4. used'.faults >= used.faults
  BY UsedFields DEF Snapshot, ManagerInv, TypeOK
<1> QED
  BY <1>2, <1>3, <1>4, LoaderKeeps DEF Snapshot

\* Ready again: if this is the only fault, no stop has failed before.
LEMMA SnapshotFailsKeeps ==
  ASSUME ManagerInv, SnapshotFails
  PROVE  ManagerInv'
<1>1. /\ job' \in JobRec /\ job'.at = "done" /\ job'.rel = job.rel /\ job'.cand = job.cand
  BY Goes DEF SnapshotFails, JobStep, ManagerInv
<1>2. used' \in Use /\ used'.faults = used.faults + 1 /\ used.faults \in Nat
  BY Faults DEF SnapshotFails, ManagerInv
<1>3. job.rel \in Release /\ active # None /\ phase' = "ready" /\ rejected' = job.rel
  BY DEF SnapshotFails, At, ManagerInv, LoaderInv
<1>4. TypeOK'
  BY <1>1, <1>2, <1>3 DEF SnapshotFails, ManagerInv, TypeOK, CatalogTypeOK, catalogVars, fileVars,
                          Known
<1>5. LoaderInv'
  BY <1>1, <1>3 DEF SnapshotFails, ManagerInv, LoaderInv, Installing
<1>6. ArtifactsKept'
  BY <1>2 DEF SnapshotFails, ManagerInv, ArtifactsKept, fileVars
<1>7. ReadyInv'
  BY <1>2, <1>3 DEF SnapshotFails, ManagerInv, ReadyInv, ReadyMeansRunning, HeldListens
<1>8. used'.faults >= used.faults
  BY <1>2
<1> QED
  BY <1>4, <1>5, <1>6, <1>7, <1>8, LoaderKeeps DEF SnapshotFails

LEMMA StartFailsKeeps ==
  ASSUME ManagerInv, StartFails
  PROVE  ManagerInv'
<1>1. job' \in JobRec /\ job'.at = "rollback" /\ job'.rel = job.rel /\ job'.cand = job.cand
  BY Goes DEF StartFails, JobStep, ManagerInv
<1>2. TypeOK'
  BY <1>1 DEF StartFails, ManagerInv, TypeOK, CatalogTypeOK, catalogVars, fileVars, runtimeVars,
              targetVars
<1>3. LoaderInv' /\ ArtifactsKept'
  BY <1>1 DEF StartFails, ManagerInv, LoaderInv, ArtifactsKept, Installing, At, fileVars,
              runtimeVars
<1> QED
  BY <1>2, <1>3, QuietLoaderKeeps DEF StartFails

LEMMA PersistKeeps ==
  ASSUME ManagerInv, Persist
  PROVE  ManagerInv'
<1>1. /\ job' \in JobRec /\ job'.rel = job.rel /\ job'.cand = job.cand
      /\ \/ At("persist") /\ job'.at = "persistSync" /\ cache' = active.rel /\ cachedSync' = cachedSync
         \/ At("persistSync") /\ job'.at = "cleanup" /\ cache' = cache /\ cachedSync' = TRUE
  BY Goes DEF Persist, JobStep, ManagerInv
<1>2. active \in Loaded /\ active.rel \in Release
  BY <1>1, LoadedFields DEF ManagerInv, LoaderInv, TypeOK, At
<1>3. TypeOK'
  BY <1>1, <1>2 DEF Persist, ManagerInv, TypeOK, CatalogTypeOK, catalogVars, runtimeVars,
                    targetVars, Known
<1>4. LoaderInv' /\ ArtifactsKept'
  BY <1>1 DEF Persist, ManagerInv, LoaderInv, ArtifactsKept, Installing, At, runtimeVars
<1> QED
  BY <1>3, <1>4, QuietLoaderKeeps DEF Persist

LEMMA PersistFailsKeeps ==
  ASSUME ManagerInv, PersistFails
  PROVE  ManagerInv'
<1>1. job' \in JobRec /\ job'.at = "cleanup" /\ job'.rel = job.rel /\ job'.cand = job.cand
  BY Goes DEF PersistFails, JobStep, ManagerInv
<1>2. used' \in Use /\ used'.faults = used.faults + 1 /\ used.faults \in Nat
  BY Faults DEF PersistFails, ManagerInv
<1>3. TypeOK'
  BY <1>1, <1>2 DEF PersistFails, ManagerInv, TypeOK, CatalogTypeOK, catalogVars, fileVars,
                    runtimeVars, targetVars
<1>4. LoaderInv' /\ ArtifactsKept'
  BY <1>1, <1>2 DEF PersistFails, ManagerInv, LoaderInv, ArtifactsKept, Installing, At, fileVars,
                    runtimeVars
<1>5. ReadyInv'
  BY <1>2 DEF PersistFails, ManagerInv, ReadyInv, ReadyMeansRunning, runtimeVars
<1>6. used'.faults >= used.faults
  BY <1>2
<1> QED
  BY <1>3, <1>4, <1>5, <1>6, LoaderKeeps DEF PersistFails, runtimeVars

\* The artifact of the runtime that was committed is that of the job, and
\* current.json names it unless its write failed.
LEMMA CleanupKeeps ==
  ASSUME ManagerInv, Cleanup
  PROVE  ManagerInv'
<1>1. job' \in JobRec /\ job'.at = "done" /\ job'.rel = job.rel /\ job'.cand = job.cand
  BY Goes DEF Cleanup, JobStep, ManagerInv
<1>2. /\ disk' = IF active.inst = job.cand THEN disk \cap Kept ELSE disk
      /\ job.rel \in Kept
  BY DEF Cleanup, Kept
<1>3. /\ active # None /\ (active.inst = job.cand => active.rel = job.rel)
      /\ used.faults = 0 => cache = active.rel
      /\ active.rel \in disk
  BY DEF Cleanup, At, ManagerInv, LoaderInv, ArtifactsKept
<1>4. TypeOK'
  BY <1>1, <1>2 DEF Cleanup, ManagerInv, TypeOK, CatalogTypeOK, catalogVars, runtimeVars, targetVars
<1>5. LoaderInv'
  BY <1>1 DEF Cleanup, At, ManagerInv, LoaderInv, Installing, runtimeVars
<1>6. ArtifactsKept'
  BY <1>2, <1>3 DEF Cleanup, ArtifactsKept, runtimeVars, ManagerInv
<1> QED
  BY <1>4, <1>5, <1>6, QuietLoaderKeeps DEF Cleanup

LEMMA EndJobKeeps ==
  ASSUME ManagerInv, EndJob
  PROVE  ManagerInv'
<1>1. job' = NoJob /\ pending' \in Known
  BY DEF EndJob, ManagerInv, TypeOK, Known
<1>2. TypeOK'
  BY <1>1, NoJobTyped DEF EndJob, ManagerInv, TypeOK, CatalogTypeOK, catalogVars, fileVars,
                          runtimeVars
<1>3. LoaderInv' /\ ArtifactsKept'
  BY <1>1, NoJobTyped DEF EndJob, ManagerInv, TypeOK, LoaderInv, ArtifactsKept, Installing,
                          fileVars, runtimeVars
<1> QED
  BY <1>2, <1>3, QuietLoaderKeeps DEF EndJob

--------------------------------------------------------------------------------
(***************************************************************************)
(* Steps of the loader that end a runtime or bring one up.                 *)
(***************************************************************************)
LEMMA SwapKeeps ==
  ASSUME ManagerInv, TypeOK', LoaderInv', HeldListens', ReadyInv', ArtifactsKept',
         UNCHANGED <<sync, login>>, used'.faults >= used.faults, generation' >= generation,
         Current' /\ generation' = generation => Current /\ active' = active
  PROVE  ManagerInv'
<1>1. used'.faults \in Nat /\ generation' \in Nat
  BY UsedFields DEF TypeOK
<1>2. LoginInv'
  BY <1>1, LoginsKeep
<1>3. SyncsNamed'
  BY DEF ManagerInv, SyncsNamed
<1> QED
  BY <1>2, <1>3 DEF ManagerInv

LEMMA StopKeeps ==
  ASSUME ManagerInv, Stop
  PROVE  ManagerInv'
<1>1. job' \in JobRec /\ job'.at = "start" /\ job'.rel = job.rel /\ job'.cand = job.cand
  BY Goes DEF Stop, JobStep, ManagerInv
<1>2. TypeOK'
  BY <1>1 DEF Stop, ManagerInv, TypeOK, CatalogTypeOK, catalogVars, fileVars, targetVars
<1>3. LoaderInv' /\ HeldListens' /\ ReadyInv' /\ ArtifactsKept' /\ ~Current'
  BY <1>1 DEF Stop, ManagerInv, LoaderInv, HeldListens, ReadyInv, ReadyMeansRunning,
              ArtifactsKept, Installing, At, Current, fileVars
<1>4. used'.faults >= used.faults /\ generation' >= generation
  BY UsedFields DEF Stop, ManagerInv, TypeOK
<1> QED
  BY <1>2, <1>3, <1>4, SwapKeeps DEF Stop

LEMMA StopFailsKeeps ==
  ASSUME ManagerInv, StopFails
  PROVE  ManagerInv'
<1>1. job' \in JobRec /\ job'.at = "done" /\ job'.rel = job.rel /\ job'.cand = job.cand
  BY Goes DEF StopFails, JobStep, ManagerInv
<1>2. used' \in Use /\ used'.faults = used.faults + 1 /\ used.faults \in Nat
  BY Faults DEF StopFails, ManagerInv
<1>3. job.rel \in Release /\ job.prev = active /\ active # None
  BY DEF StopFails, At, ManagerInv, LoaderInv
<1>4. running' \subseteq running /\ (running' = running \/ active.inst \notin running')
  BY <1>3 DEF StopFails
<1>5. TypeOK'
  BY <1>1, <1>2, <1>3, <1>4 DEF StopFails, ManagerInv, TypeOK, CatalogTypeOK, catalogVars, fileVars,
                                Known
<1>6. LoaderInv' /\ ReadyInv'
  BY <1>1, <1>3 DEF StopFails, ManagerInv, LoaderInv, ReadyInv, ReadyMeansRunning, Installing
<1>7. HeldListens' /\ ArtifactsKept'
  BY <1>2 DEF StopFails, ManagerInv, HeldListens, ArtifactsKept, fileVars
<1>8. Current' => Current /\ active' = active
  BY <1>4 DEF StopFails, Current
<1>9. used'.faults >= used.faults /\ generation' >= generation
  BY <1>2 DEF StopFails, ManagerInv, TypeOK
<1> QED
  BY <1>5, <1>6, <1>7, <1>8, <1>9, SwapKeeps DEF StopFails

LEMMA StartKeeps ==
  ASSUME ManagerInv, Start
  PROVE  ManagerInv'
<1>1. made \in Nat /\ job \in JobRec /\ active = None /\ phase = "activating"
  BY DEF Start, At, ManagerInv, TypeOK, LoaderInv
<1>2. /\ job' \in JobRec /\ job'.at = "apply" /\ job'.rel = job.rel /\ job'.cand = made + 1
  <2> DEFINE m == made + 1
  <2>1. job' = [job EXCEPT !.at = "apply", !.cand = m]
    BY DEF Start
  <2>2. m \in Nat
    BY <1>1
  <2> HIDE DEF m
  <2>3. job' \in JobRec /\ job'.at = "apply" /\ job'.rel = job.rel /\ job'.cand = m
    BY <1>1, <2>1, <2>2 DEF JobRec, JobStep
  <2> QED
    BY <2>3 DEF m
<1>3. TypeOK'
  BY <1>1, <1>2 DEF Start, ManagerInv, TypeOK, CatalogTypeOK, catalogVars, fileVars, targetVars
<1>4. LoaderInv' /\ HeldListens' /\ ReadyInv' /\ ArtifactsKept' /\ ~Current'
  BY <1>1, <1>2 DEF Start, ManagerInv, LoaderInv, HeldListens, ReadyInv, ReadyMeansRunning,
                    ArtifactsKept, Installing, At, Current, fileVars
<1>5. used'.faults >= used.faults /\ generation' >= generation
  BY UsedFields DEF Start, ManagerInv, TypeOK
<1> QED
  BY <1>3, <1>4, <1>5, SwapKeeps DEF Start

LEMMA CommitKeeps ==
  ASSUME ManagerInv, Commit
  PROVE  ManagerInv'
<1>1. /\ job' \in JobRec /\ job'.at = "persist" /\ job'.rel = job.rel /\ job'.cand = job.cand
      /\ job.cand \in Nat
  BY Goes, JobFields DEF Commit, JobStep, ManagerInv, TypeOK
<1>2. /\ job.rel \in Release /\ job.rel \in disk /\ running = {job.cand} /\ generation \in Nat
  BY DEF Commit, At, ManagerInv, LoaderInv, Installing, TypeOK
<1>3. active' \in Loaded /\ active'.rel = job.rel /\ active'.inst = job.cand
  BY <1>1, <1>2 DEF Commit, Loaded
<1>4. active' # None
  BY <1>3, LoadedFields
<1>5. TypeOK'
  BY <1>1, <1>2, <1>3 DEF Commit, ManagerInv, TypeOK, CatalogTypeOK, catalogVars, fileVars, Known
<1>6. LoaderInv'
  BY <1>1, <1>2, <1>3, <1>4 DEF Commit, ManagerInv, LoaderInv, Installing, fileVars
<1>7. HeldListens' /\ ReadyInv' /\ ArtifactsKept'
  BY <1>2, <1>3, <1>4 DEF Commit, ManagerInv, HeldListens, ReadyInv, ReadyMeansRunning,
                          ArtifactsKept, fileVars
<1>8. used'.faults >= used.faults /\ generation' >= generation /\ generation' # generation
  BY <1>2, UsedFields DEF Commit, ManagerInv, TypeOK
<1> QED
  BY <1>5, <1>6, <1>7, <1>8, SwapKeeps DEF Commit

LEMMA CommitFailsKeeps ==
  ASSUME ManagerInv, CommitFails
  PROVE  ManagerInv'
<1>1. job' \in JobRec /\ job'.at = "rollback" /\ job'.rel = job.rel /\ job'.cand = job.cand
  BY Goes DEF CommitFails, JobStep, ManagerInv
<1>2. active = None /\ phase = "activating" /\ running' \subseteq running
  BY DEF CommitFails, At, ManagerInv, LoaderInv
<1>3. TypeOK'
  BY <1>1, <1>2 DEF CommitFails, ManagerInv, TypeOK, CatalogTypeOK, catalogVars, fileVars, targetVars
<1>4. LoaderInv' /\ HeldListens' /\ ReadyInv' /\ ArtifactsKept' /\ ~Current'
  BY <1>1, <1>2 DEF CommitFails, ManagerInv, LoaderInv, HeldListens, ReadyInv, ReadyMeansRunning,
                    ArtifactsKept, Installing, At, Current, fileVars
<1>5. used'.faults >= used.faults /\ generation' >= generation
  BY UsedFields DEF CommitFails, ManagerInv, TypeOK
<1> QED
  BY <1>3, <1>4, <1>5, SwapKeeps DEF CommitFails

\* The instance of a rollback is not the candidate of the job.
LEMMA RollbackKeeps ==
  ASSUME ManagerInv, Rollback
  PROVE  ManagerInv'
<1>1. /\ job' \in JobRec /\ job'.at = "persist" /\ job'.rel = job.rel /\ job'.cand = job.cand
      /\ job.cand \in Nat
  BY Goes, JobFields DEF Rollback, JobStep, ManagerInv, TypeOK
<1>2. /\ job.rel \in Release /\ job.rel \in disk /\ job.cand <= made
      /\ generation \in Nat /\ made \in Nat /\ disk \subseteq Release
  BY DEF Rollback, At, ManagerInv, LoaderInv, Installing, TypeOK
<1>3. /\ active' \in Loaded /\ active'.rel = job.prev.rel /\ active'.inst = made + 1
      /\ job.prev.rel \in disk
  BY <1>2 DEF Rollback, Loaded
<1>4. active' # None /\ active'.inst # job.cand
  BY <1>1, <1>2, <1>3, LoadedFields
<1>5. TypeOK'
  BY <1>1, <1>2, <1>3 DEF Rollback, ManagerInv, TypeOK, CatalogTypeOK, catalogVars, fileVars, Known
<1>6. LoaderInv'
  BY <1>1, <1>2, <1>3, <1>4 DEF Rollback, LoaderInv, Installing, fileVars
<1>7. HeldListens' /\ ReadyInv' /\ ArtifactsKept'
  BY <1>3, <1>4 DEF Rollback, ManagerInv, HeldListens, ReadyInv, ReadyMeansRunning,
                    ArtifactsKept, fileVars
<1>8. used'.faults >= used.faults /\ generation' >= generation /\ generation' # generation
  BY <1>2, UsedFields DEF Rollback, ManagerInv, TypeOK
<1> QED
  BY <1>5, <1>6, <1>7, <1>8, SwapKeeps DEF Rollback

LEMMA RollbackFailsKeeps ==
  ASSUME ManagerInv, RollbackFails
  PROVE  ManagerInv'
<1>1. job' \in JobRec /\ job'.at = "done" /\ job'.rel = job.rel /\ job'.cand = job.cand
  BY Goes DEF RollbackFails, Failed, JobStep, ManagerInv
<1>2. /\ job.rel \in Release /\ rejected' \in Known /\ phase' = "failed" /\ active' = None
      /\ made \in Nat /\ job.cand \in Nat /\ job.cand <= made
  BY JobFields DEF RollbackFails, Failed, At, ManagerInv, LoaderInv, TypeOK, Known
<1>3. made' \in Nat /\ made' >= made /\ running' \subseteq 1 .. made'
  <2>1. CASE UNCHANGED <<running, made>>
    BY <1>2, <2>1 DEF ManagerInv, TypeOK
  <2>2. CASE made' = made + 1 /\ running' = {made + 1}
    <3>1. made + 1 \in 1 .. (made + 1)
      BY <1>2
    <3> QED
      BY <1>2, <2>2, <3>1
  <2> QED
    BY <2>1, <2>2 DEF RollbackFails
<1>4. TypeOK'
  BY <1>1, <1>2, <1>3 DEF RollbackFails, ManagerInv, TypeOK, CatalogTypeOK, catalogVars, fileVars
<1>5. LoaderInv' /\ HeldListens' /\ ReadyInv' /\ ArtifactsKept' /\ ~Current'
  BY <1>1, <1>2, <1>3 DEF RollbackFails, ManagerInv, LoaderInv, HeldListens, ReadyInv,
                    ReadyMeansRunning, ArtifactsKept, Installing, Current, fileVars
<1>6. used'.faults >= used.faults /\ generation' >= generation
  BY UsedFields DEF RollbackFails, ManagerInv, TypeOK
<1> QED
  BY <1>4, <1>5, <1>6, SwapKeeps DEF RollbackFails

\* Logins under way are lost, the files stay.
LEMMA RestartKeeps ==
  ASSUME ManagerInv, Restart
  PROVE  ManagerInv'
<1>1. used' \in Use /\ used'.faults = used.faults
  <2>1. used.restarts < MaxRestart /\ used' = [used EXCEPT !.restarts = used.restarts + 1]
    BY DEF Restart
  <2>2. used \in Use /\ used.restarts + 1 \in 0 .. MaxRestart
    BY <2>1, BoundAssumption DEF ManagerInv, TypeOK, Use
  <2> QED
    BY <2>1, <2>2 DEF Use
<1>2. /\ job' \in JobRec /\ job'.cand = 0
      /\ \/ job'.at = "idle"
         \/ /\ job'.at = "quiesce" /\ job'.prev = None
            /\ job'.rel = cache /\ cache \in Release /\ cache \in disk
      /\ phase' \in {"empty", "failed"}
  <2>1. CASE job' = [NoJob EXCEPT !.at = "quiesce", !.rel = cache, !.boot = TRUE]
             /\ phase' = "empty" /\ cache # None /\ cache \in disk
    BY <2>1 DEF NoJob, JobRec, JobStep, Known, ManagerInv, TypeOK
  <2>2. CASE job' = NoJob /\ phase' \in {"empty", "failed"}
    BY <2>2, NoJobTyped
  <2> QED
    BY <2>1, <2>2 DEF Restart
<1>3. ASSUME NEW l \in Login
      PROVE  login'[l] \in LoginRec /\ LoginOK(login[l])'
  <2>1. login[l] \in LoginRec
    BY DEF ManagerInv, TypeOK
  <2>2. CASE login[l].at = "new"
    BY <2>1, <2>2 DEF Restart, LoginOK
  <2>3. CASE login[l].at # "new"
    <3>1. login'[l] = [NewLogin EXCEPT !.at = "out"]
      BY <2>3 DEF Restart
    <3>2. login'[l] \in LoginRec /\ login'[l].at = "out"
      BY <3>1 DEF NewLogin, LoginRec
    <3> QED
      BY <3>2 DEF LoginOK
  <2> QED
    BY <2>2, <2>3
<1>4. login' \in [Login -> LoginRec]
  <2>1. login' = [l \in Login |-> login'[l]]
    BY DEF Restart
  <2> QED
    BY <1>3, <2>1
<1>5. TypeOK' /\ SyncsNamed'
  <2>1. queue' \in Seq(Release) /\ running' \subseteq 1 .. made' /\ made' \in Nat
    BY DEF Restart
  <2>2. sync' \in [Thread -> SyncRec] /\ SyncsNamed'
    BY NoSyncTyped DEF Restart, SyncsNamed
  <2> QED
    BY <1>1, <1>2, <1>4, <2>1, <2>2 DEF Restart, ManagerInv, TypeOK, CatalogTypeOK,
                                            catalogVars, fileVars, Known
<1>6. LoaderInv' /\ HeldListens' /\ ReadyInv' /\ ArtifactsKept'
  BY <1>1, <1>2 DEF Restart, ManagerInv, LoaderInv, HeldListens, ReadyInv, ReadyMeansRunning,
                    ArtifactsKept, Installing, fileVars
<1>7. LoginInv'
  BY <1>3 DEF LoginInv
<1> QED
  BY <1>5, <1>6, <1>7 DEF ManagerInv

--------------------------------------------------------------------------------
(***************************************************************************)
(* Logins.                                                                 *)
(***************************************************************************)
LEMMA LoginGoesKeeps ==
  ASSUME ManagerInv, NEW l \in Login, NEW rec \in LoginRec, LoginGoes(l, rec), LoginOK(rec)
  PROVE  ManagerInv'
<1>1. /\ login' \in [Login -> LoginRec] /\ login'[l] = rec
      /\ \A o \in Login : o # l => login'[o] = login[o]
  BY DEF LoginGoes, ManagerInv, TypeOK
<1>2. /\ phase' = phase /\ active' = active /\ generation' = generation /\ running' = running
      /\ made' = made /\ disk' = disk /\ cache' = cache /\ job' = job /\ sync' = sync
      /\ used' = used
  BY DEF LoginGoes, fileVars, runtimeVars
<1>3. TypeOK' /\ SyncsNamed'
  BY <1>1, <1>2 DEF LoginGoes, ManagerInv, TypeOK, SyncsNamed, CatalogTypeOK, catalogVars, fileVars,
                    targetVars
<1>4. LoaderInv' /\ HeldListens' /\ ReadyInv' /\ ArtifactsKept'
  BY <1>2 DEF ManagerInv, LoaderInv, HeldListens, ReadyInv, ReadyMeansRunning, ArtifactsKept
<1>5. LoginInv'
  BY <1>1, <1>2 DEF ManagerInv, LoginInv, LoginOK, Current
<1> QED
  BY <1>3, <1>4, <1>5 DEF ManagerInv

LEMMA LoginStepKeeps ==
  ASSUME ManagerInv, NEW l \in Login, LoginStep(l)
  PROVE  ManagerInv'
<1> DEFINE old == login[l]
<1>1. /\ old \in LoginRec /\ LoginOK(old) /\ running \in SUBSET Nat
      /\ generation \in Nat /\ used.faults \in Nat
  BY UsedFields DEF ManagerInv, TypeOK, LoginInv
<1>2. CASE GameProfileRequest(l)
  <2> DEFINE rec == [old EXCEPT !.at = "asked", !.gen = AdmissionGeneration]
  <2>1. AdmissionGeneration \in Nat \cup {None}
        /\ (AdmissionGeneration # None => AdmissionGeneration = generation)
    BY <1>1 DEF AdmissionGeneration
  <2>2. rec \in LoginRec /\ rec.at = "asked" /\ rec.gen = AdmissionGeneration
    BY <1>1, <2>1 DEF LoginRec
  <2>3. LoginGoes(l, rec)
    BY <1>2 DEF GameProfileRequest
  <2> HIDE DEF rec
  <2>4. LoginOK(rec)
    BY <1>1, <2>1, <2>2 DEF LoginOK
  <2> QED
    BY <2>2, <2>3, <2>4, LoginGoesKeeps
<1>3. CASE RuntimeProfile(l)
  <2> DEFINE rec == [old EXCEPT !.at = "profiled", !.profiledBy = running]
  <2>1. rec \in LoginRec /\ rec.at = "profiled" /\ rec.gen = old.gen /\ rec.profiledBy = running
    BY <1>1 DEF LoginRec
  <2>2. LoginGoes(l, rec) /\ old.at = "asked"
    BY <1>3 DEF RuntimeProfile
  <2> HIDE DEF rec
  <2>3. LoginOK(rec)
    BY <1>1, <2>1, <2>2 DEF LoginOK, Current
  <2> QED
    BY <2>1, <2>2, <2>3, LoginGoesKeeps
<1>4. CASE RuntimeLogin(l)
  <2> DEFINE rec == [old EXCEPT !.at = "checked", !.checkedBy = running]
  <2>1. /\ rec \in LoginRec /\ rec.at = "checked" /\ rec.gen = old.gen
        /\ rec.checkedBy = running /\ rec.profiledBy = old.profiledBy
    BY <1>1 DEF LoginRec
  <2>2. LoginGoes(l, rec) /\ old.at = "profiled"
    BY <1>4 DEF RuntimeLogin
  <2> HIDE DEF rec
  <2>3. LoginOK(rec)
    BY <1>1, <2>1, <2>2 DEF LoginOK, Current
  <2> QED
    BY <2>1, <2>2, <2>3, LoginGoesKeeps
<1>5. CASE Admitted(l)
  <2> DEFINE rec == [old EXCEPT !.at = "in"]
  <2>1. /\ rec \in LoginRec /\ rec.at = "in" /\ rec.gen = old.gen
        /\ rec.checkedBy = old.checkedBy /\ rec.profiledBy = old.profiledBy
    BY <1>1 DEF LoginRec
  <2>2. /\ LoginGoes(l, rec) /\ old.at = "checked" /\ old.gen # None
        /\ old.gen = generation /\ phase = "ready"
    BY <1>5 DEF Admitted, AdmissionGeneration
  <2> HIDE DEF rec
  <2>3. used.faults <= 1 => Current
    BY <2>2 DEF ManagerInv, ReadyInv, ReadyMeansRunning, Current
  <2>4. Cardinality({active.inst}) = 1
    BY FS_Singleton
  <2>5. LoginOK(rec)
    <3>1. CASE used.faults <= 1
      <4>1. rec.profiledBy = {active.inst} /\ rec.checkedBy = {active.inst}
        BY <1>1, <2>1, <2>2, <2>3, <3>1 DEF LoginOK
      <4> QED
        BY <2>1, <2>4, <4>1 DEF LoginOK
    <3>2. CASE ~(used.faults <= 1)
      BY <2>1, <3>2 DEF LoginOK
    <3> QED
      BY <3>1, <3>2
  <2> QED
    BY <2>1, <2>2, <2>5, LoginGoesKeeps
<1>6. CASE Denied(l)
  <2> DEFINE rec == [NewLogin EXCEPT !.at = "out"]
  <2>1. rec \in LoginRec /\ rec.at = "out"
    BY DEF NewLogin, LoginRec
  <2>2. LoginGoes(l, rec)
    BY <1>6 DEF Denied
  <2> HIDE DEF rec
  <2>3. LoginOK(rec)
    BY <2>1 DEF LoginOK
  <2> QED
    BY <2>1, <2>2, <2>3, LoginGoesKeeps
<1> QED
  BY <1>2, <1>3, <1>4, <1>5, <1>6 DEF LoginStep

--------------------------------------------------------------------------------
(***************************************************************************)
(* The theorems.                                                           *)
(***************************************************************************)
LEMMA ManagerInit == Init => ManagerInv
<1> SUFFICES ASSUME Init PROVE ManagerInv
  OBVIOUS
<1>1. used \in Use /\ used.faults = 0
  BY BoundAssumption DEF Init, Use
<1>2. NewLogin \in LoginRec /\ NewLogin.at = "new"
  BY DEF NewLogin, LoginRec
<1>3. AtRest \in AdminRec
  BY DEF AtRest, AdminRec
<1>4. TypeOK
  <2>1. queue \in Seq(Release) /\ running \subseteq 1 .. made /\ made \in Nat
    BY DEF Init
  <2>2. sync \in [Thread -> SyncRec] /\ login \in [Login -> LoginRec] /\ CatalogTypeOK
    BY <1>2, <1>3, NoSyncTyped DEF Init, CatalogInit, CatalogTypeOK
  <2> QED
    BY <1>1, <2>1, <2>2, NoJobTyped DEF Init, TypeOK, Known
<1>5. SyncsNamed /\ LoaderInv /\ HeldListens /\ ReadyInv /\ ArtifactsKept
  BY <1>1, NoJobTyped, NoSyncTyped
  DEF Init, SyncsNamed, LoaderInv, HeldListens, ReadyInv, ReadyMeansRunning, ArtifactsKept,
      Installing
<1>6. LoginInv
  BY <1>2 DEF Init, LoginInv, LoginOK
<1> QED
  BY <1>4, <1>5, <1>6 DEF ManagerInv

LEMMA ManagerStep ==
  ASSUME ManagerInv, [Next]_vars
  PROVE  ManagerInv'
<1>1. CASE UNCHANGED vars
  <2>1. TypeOK' /\ SyncsNamed'
    BY <1>1 DEF vars, ManagerInv, TypeOK, SyncsNamed, CatalogTypeOK, catalogVars, fileVars,
                runtimeVars, targetVars
  <2>2. UNCHANGED <<fileVars, runtimeVars, job, login>> /\ used'.faults = used.faults
    BY <1>1 DEF vars
  <2> QED
    BY <2>1, <2>2, RuntimeKeeps
<1>2. CASE LoaderStep
  BY <1>2, TakeJobKeeps, IsCurrentTargetKeeps, FetchKeeps, FetchFailsKeeps, QuiesceKeeps,
     SnapshotKeeps, SnapshotFailsKeeps, StopKeeps, StopFailsKeeps, StartKeeps, StartFailsKeeps,
     CommitKeeps, CommitFailsKeeps, RollbackKeeps, RollbackFailsKeeps, PersistKeeps,
     PersistFailsKeeps, CleanupKeeps, EndJobKeeps DEF LoaderStep
<1> QED
  BY <1>1, <1>2, EditKeeps, ReceiveSyncKeeps, SyncStepsKeep, RestartKeeps, LoginStepKeeps DEF Next

LEMMA ManagerInvariant == Spec => []ManagerInv
<1>1. ManagerInv /\ [Next]_vars => ManagerInv'
  BY ManagerStep
<1> QED
  BY <1>1, ManagerInit, PTL DEF Spec

\* The manager, the gate and the catalogue keep their types: a job that has
\* begun names a release, and the listeners are of instances that were made.
THEOREM ManagerTyped == Spec => []TypeOK
<1>1. ManagerInv => TypeOK
  BY DEF ManagerInv
<1> QED
  BY <1>1, ManagerInvariant, PTL

\* activateLocked, with at most one snapshot, stop or write that fails and any
\* number of failed loads and restarts: a gate that says it is ready has
\* exactly the listeners of the runtime it holds.
THEOREM ReadyRuns == Spec => [](used.faults <= 1 => ReadyMeansRunning)
<1>1. ManagerInv => (used.faults <= 1 => ReadyMeansRunning)
  BY DEF ManagerInv, ReadyInv
<1> QED
  BY <1>1, ManagerInvariant, PTL

\* BootstrapGate, under the same condition: the generation that is compared at
\* the end tells a login whose events two runtimes saw, however many
\* replacements and rollbacks fell between them.
THEOREM OneRuntimeAdmits == Spec => [](used.faults <= 1 => AdmittedByOneRuntime)
<1>1. ManagerInv => (used.faults <= 1 => AdmittedByOneRuntime)
  BY DEF ManagerInv, LoginInv, LoginOK, AdmittedByOneRuntime
<1> QED
  BY <1>1, ManagerInvariant, PTL

\* cleanupArtifacts never takes the artifact of the runtime that is loaded, nor,
\* unless a write failed, the one a restart loads.
THEOREM ArtifactsAreKept == Spec => []ArtifactsKept
<1>1. ManagerInv => ArtifactsKept
  BY DEF ManagerInv
<1> QED
  BY <1>1, ManagerInvariant, PTL

================================================================================

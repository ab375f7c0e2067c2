---------------------------- MODULE RuntimeManager ----------------------------
(***************************************************************************)
(* How a gate follows the release Core configures: RuntimeManager of the   *)
(* bootstrap plugin, BootstrapGate in front of it, and Core's catalogue    *)
(* behind it.                                                              *)
(*                                                                         *)
(* Syncs come in by several threads (heartbeat loop, websocket, reloads),  *)
(* and carry what was configured when Core wrote them; one loader thread   *)
(* installs.  Velocity's threads read the phase and the generation without *)
(* the lock, so that each write of activateLocked they can tell apart is a *)
(* step.  A restart of the proxy loses everything but the files.           *)
(***************************************************************************)
EXTENDS RuntimeCatalog

CONSTANTS
    Thread,      \* threads that apply syncs
    Login,       \* connections; each logs in once
    MaxJob,      \* bound: jobs for the loader
    MaxEdit,     \* bound: requests of administrators
    MaxFault,    \* bound: snapshots, stops and cache writes that fail
    MaxRestart   \* bound: restarts of the proxy

ASSUME BoundAssumption ==
    MaxJob \in Nat /\ MaxEdit \in Nat /\ MaxFault \in Nat /\ MaxRestart \in Nat

VARIABLES
    disk,        \* artifacts in the runtime directory
    cache,       \* current.json
    cachedSync,  \* last-sync.json is there
    phase,
    active,      \* the loaded runtime
    target,
    rejected,    \* rejectedTargetSHA
    pending,     \* pendingSHA
    generation,
    running,     \* instances whose listeners are registered
    made,        \* instances made so far
    sync,        \* applySync on each thread
    queue,       \* the executor's queue
    job,         \* what the loader does
    login,
    used         \* how much of the bounds is used up

fileVars == <<disk, cache, cachedSync>>
runtimeVars == <<phase, active, generation, running, made>>
targetVars == <<target, rejected, pending>>
vars == <<catalogVars, fileVars, runtimeVars, targetVars, sync, queue, job, login, used>>

Known == Release \cup {None}

Loaded == [rel : Release, inst : Nat]

ASSUME LoadedAssumption == None \notin Loaded

JobStep == {"idle", "begin", "fetch", "verified", "quiesce", "snapshot", "stop", "start",
            "apply", "persist", "persistSync", "cleanup", "rollback", "done"}

\* boot: the job is loadCached on the proxy's own thread.
JobRec == [at : JobStep, rel : Known, prev : Loaded \cup {None}, cand : Nat, boot : BOOLEAN]

NoJob == [at |-> "idle", rel |-> None, prev |-> None, cand |-> 0, boot |-> FALSE]

SyncRec == [at : {"idle", "module", "target", "check", "enqueue"}, rel : Known]

NoSync == [at |-> "idle", rel |-> None]

LoginRec == [at : {"new", "asked", "profiled", "checked", "in", "out"},
             gen : Nat \cup {None}, profiledBy : SUBSET Nat, checkedBy : SUBSET Nat]

NewLogin == [at |-> "new", gen |-> None, profiledBy |-> {}, checkedBy |-> {}]

Use == [jobs : 0 .. MaxJob, edits : 0 .. MaxEdit, faults : 0 .. MaxFault,
        restarts : 0 .. MaxRestart]

TypeOK ==
    /\ CatalogTypeOK
    /\ disk \subseteq Release /\ cache \in Known /\ cachedSync \in BOOLEAN
    /\ phase \in {"empty", "quiescing", "activating", "ready", "failed"}
    /\ active \in Loaded \cup {None}
    /\ target \in Known /\ rejected \in Known /\ pending \in Known
    /\ generation \in Nat /\ made \in Nat /\ running \subseteq 1 .. made
    /\ sync \in [Thread -> SyncRec]
    /\ queue \in Seq(Release)
    /\ job \in JobRec
    /\ login \in [Login -> LoginRec]
    /\ used \in Use

Init ==
    /\ CatalogInit
    /\ disk = {} /\ cache = None /\ cachedSync = FALSE
    /\ phase = "empty" /\ active = None
    /\ target = None /\ rejected = None /\ pending = None
    /\ generation = 0 /\ running = {} /\ made = 0
    /\ sync = [t \in Thread |-> NoSync]
    /\ queue = << >>
    /\ job = NoJob
    /\ login = [l \in Login |-> NewLogin]
    /\ used = [jobs |-> 0, edits |-> 0, faults |-> 0, restarts |-> 0]

Edit ==
    /\ CatalogNext
    /\ IF \E a \in Admin : admin[a] = AtRest /\ admin'[a] # AtRest
       THEN used.edits < MaxEdit /\ used' = [used EXCEPT !.edits = @ + 1]
       ELSE UNCHANGED used
    /\ UNCHANGED <<fileVars, runtimeVars, targetVars, sync, queue, job, login>>

Fault == used.faults < MaxFault /\ used' = [used EXCEPT !.faults = @ + 1]

(***************************************************************************)
(* applySync, on each thread.                                              *)
(***************************************************************************)
\* activateLocked runs under the write lock.
WriteLocked == job.at \in {"snapshot", "stop", "start", "apply", "persist", "persistSync",
                           "cleanup", "rollback"}

\* A heartbeat answer, a push or a first sync.  A sync without a descriptor
\* stops at parseDescriptor.
ReceiveSync(t) ==
    /\ sync[t] = NoSync
    /\ ~job.boot
    /\ Served # None
    /\ sync' = [sync EXCEPT ![t] = [at |-> "module", rel |-> Served]]
    /\ UNCHANGED <<catalogVars, fileVars, runtimeVars, targetVars, queue, job, login, used>>

\* The active runtime gets the payload, under the read lock.
SyncModule(t) ==
    /\ sync[t].at = "module"
    /\ ~WriteLocked
    /\ sync' = [sync EXCEPT ![t].at = "target"]
    /\ UNCHANGED <<catalogVars, fileVars, runtimeVars, targetVars, queue, job, login, used>>

SetTarget(t) ==
    /\ sync[t].at = "target"
    /\ target' = sync[t].rel
    /\ rejected' = IF target # sync[t].rel THEN None ELSE rejected
    /\ sync' = [sync EXCEPT ![t].at = "check"]
    /\ UNCHANGED <<catalogVars, fileVars, runtimeVars, pending, queue, job, login, used>>

\* Nothing to do for the active release or a rejected one.
CheckTarget(t) ==
    /\ sync[t].at = "check"
    /\ sync' = [sync EXCEPT ![t] =
            IF \/ active # None /\ active.rel = sync[t].rel
               \/ rejected = sync[t].rel
            THEN NoSync ELSE [@ EXCEPT !.at = "enqueue"]]
    /\ UNCHANGED <<catalogVars, fileVars, runtimeVars, targetVars, queue, job, login, used>>

AlreadyPending(t) ==
    /\ sync[t].at = "enqueue"
    /\ pending = sync[t].rel
    /\ sync' = [sync EXCEPT ![t] = NoSync]
    /\ UNCHANGED <<catalogVars, fileVars, runtimeVars, targetVars, queue, job, login, used>>

Enqueue(t) ==
    /\ sync[t].at = "enqueue"
    /\ pending # sync[t].rel
    /\ used.jobs < MaxJob
    /\ used' = [used EXCEPT !.jobs = @ + 1]
    /\ pending' = sync[t].rel
    /\ queue' = Append(queue, sync[t].rel)
    /\ sync' = [sync EXCEPT ![t] = NoSync]
    /\ UNCHANGED <<catalogVars, fileVars, runtimeVars, target, rejected, job, login>>

(***************************************************************************)
(* The loader.                                                             *)
(***************************************************************************)
At(step) == job.at = step

Go(step) == job' = [job EXCEPT !.at = step]

TakeJob ==
    /\ At("idle")
    /\ queue # << >>
    /\ job' = [NoJob EXCEPT !.at = "begin", !.rel = Head(queue)]
    /\ queue' = Tail(queue)
    /\ UNCHANGED <<catalogVars, fileVars, runtimeVars, targetVars, sync, login, used>>

\* The exception handler of the job, and of loadCached.
Failed ==
    /\ Go("done")
    /\ rejected' = IF job.boot THEN rejected ELSE job.rel
    /\ phase' = IF job.boot \/ active' = None THEN "failed" ELSE phase

\* isCurrentTarget, before and after the artifact is there.
IsCurrentTarget ==
    /\ \/ At("begin") /\ Go(IF target = job.rel THEN "fetch" ELSE "done")
       \/ /\ At("verified")
          /\ job' = [job EXCEPT !.at = IF target = job.rel THEN "quiesce" ELSE "done",
                                !.prev = active]
    /\ UNCHANGED <<catalogVars, fileVars, runtimeVars, targetVars, sync, queue, login, used>>

\* The download path serves what is configured when it is asked.
Fetch ==
    /\ At("fetch")
    /\ job.rel \in disk \/ Served = job.rel
    /\ disk' = disk \cup {job.rel}
    /\ Go("verified")
    /\ UNCHANGED <<catalogVars, cache, cachedSync, runtimeVars, targetVars, sync, queue,
                   login, used>>

\* The download fails or brings other bytes, or the artifact is not fit.
FetchFails ==
    /\ At("fetch")
    /\ active' = active
    /\ Failed
    /\ UNCHANGED <<catalogVars, fileVars, generation, running, made, target, pending, sync,
                   queue, login, used>>

Quiesce ==
    /\ At("quiesce")
    /\ phase' = "quiescing"
    /\ Go("snapshot")
    /\ UNCHANGED <<catalogVars, fileVars, active, generation, running, made, targetVars,
                   sync, queue, login, used>>

Snapshot ==
    /\ At("snapshot")
    /\ IF job.prev = None
       THEN phase' = "activating" /\ Go("start")
       ELSE phase' = phase /\ Go("stop")
    /\ UNCHANGED <<catalogVars, fileVars, active, generation, running, made, targetVars,
                   sync, queue, login, used>>

\* The update is given up and the runtime goes on.
SnapshotFails ==
    /\ At("snapshot")
    /\ job.prev # None
    /\ Fault
    /\ phase' = "ready"
    /\ rejected' = job.rel
    /\ Go("done")
    /\ UNCHANGED <<catalogVars, fileVars, active, generation, running, made, target, pending,
                   sync, queue, login>>

Stop ==
    /\ At("stop")
    /\ running' = running \ {job.prev.inst}
    /\ active' = None
    /\ phase' = "activating"
    /\ Go("start")
    /\ UNCHANGED <<catalogVars, fileVars, generation, made, targetVars, sync, queue, login,
                   used>>

\* Fault: a runtime that did not stop is taken for one that goes on.
StopFailsShrugs ==
    /\ At("stop")
    /\ Fault
    /\ running' \in {running, running \ {job.prev.inst}}
    /\ phase' = "ready"
    /\ rejected' = job.rel
    /\ Go("done")
    /\ UNCHANGED <<catalogVars, fileVars, active, generation, made, target, pending, sync,
                   queue, login>>

\* Its listeners may be gone or not.
StopFails ==
    /\ At("stop")
    /\ Fault
    /\ running' \in {running, running \ {job.prev.inst}}
    /\ phase' = "failed"
    /\ rejected' = job.rel
    /\ Go("done")
    /\ UNCHANGED <<catalogVars, fileVars, active, generation, made, target, pending, sync,
                   queue, login>>

\* loadRuntime; the command router takes one provider at a time.
Start ==
    /\ At("start")
    /\ running = {}
    /\ made' = made + 1
    /\ running' = {made + 1}
    /\ job' = [job EXCEPT !.at = "apply", !.cand = made + 1]
    /\ UNCHANGED <<catalogVars, fileVars, phase, active, generation, targetVars, sync, queue,
                   login, used>>

\* loadRuntime stops what it started.
StartFails ==
    /\ At("start")
    /\ Go("rollback")
    /\ UNCHANGED <<catalogVars, fileVars, runtimeVars, targetVars, sync, queue, login, used>>

\* Fault: a new runtime keeps the generation.
CommitQuietly ==
    /\ At("apply")
    /\ active' = [rel |-> job.rel, inst |-> job.cand]
    /\ phase' = "ready"
    /\ rejected' = None
    /\ Go("persist")
    /\ UNCHANGED <<catalogVars, fileVars, generation, running, made, target, pending, sync,
                   queue, login, used>>

\* The candidate takes the sync and becomes the runtime.
Commit ==
    /\ At("apply")
    /\ active' = [rel |-> job.rel, inst |-> job.cand]
    /\ generation' = generation + 1
    /\ phase' = "ready"
    /\ rejected' = None
    /\ Go("persist")
    /\ UNCHANGED <<catalogVars, fileVars, running, made, target, pending, sync, queue, login,
                   used>>

\* The candidate does not take the sync; it may not even stop.
CommitFails ==
    /\ At("apply")
    /\ running' \in {running, running \ {job.cand}}
    /\ Go("rollback")
    /\ UNCHANGED <<catalogVars, fileVars, phase, active, generation, made, targetVars, sync,
                   queue, login, used>>

\* A new instance of the previous runtime.
Rollback ==
    /\ At("rollback")
    /\ job.prev # None /\ job.prev.rel \in disk
    /\ running = {}
    /\ made' = made + 1
    /\ running' = {made + 1}
    /\ active' = [rel |-> job.prev.rel, inst |-> made + 1]
    /\ generation' = generation + 1
    /\ phase' = "ready"
    /\ rejected' = job.rel
    /\ Go("persist")
    /\ UNCHANGED <<catalogVars, fileVars, target, pending, sync, queue, login, used>>

\* There is nothing to go back to, it does not start, or it does not take the
\* sync and is left as it is.
RollbackFails ==
    /\ At("rollback")
    /\ \/ UNCHANGED <<running, made>>
       \/ /\ job.prev # None /\ running = {}
          /\ made' = made + 1
          /\ running' = {made + 1}
    /\ active' = None
    /\ Failed
    /\ UNCHANGED <<catalogVars, fileVars, generation, target, pending, sync, queue, login,
                   used>>

\* persistCurrent: current.json, then last-sync.json.
Persist ==
    /\ \/ /\ At("persist")
          /\ cache' = active.rel
          /\ Go("persistSync")
          /\ UNCHANGED cachedSync
       \/ /\ At("persistSync")
          /\ cachedSync' = TRUE
          /\ Go("cleanup")
          /\ UNCHANGED cache
    /\ UNCHANGED <<catalogVars, disk, runtimeVars, targetVars, sync, queue, login, used>>

PersistFails ==
    /\ At("persist") \/ At("persistSync")
    /\ Fault
    /\ Go("cleanup")
    /\ UNCHANGED <<catalogVars, fileVars, runtimeVars, targetVars, sync, queue, login>>

\* Fault: only the previous artifact is kept.
KeptPrevious == IF job.prev = None THEN {} ELSE {job.prev.rel}

\* cleanupArtifacts: what stays.
Kept == {job.rel} \cup (IF job.prev = None THEN {} ELSE {job.prev.rel})

\* Not after a rollback.
Cleanup ==
    /\ At("cleanup")
    /\ disk' = IF active.inst = job.cand THEN disk \cap Kept ELSE disk
    /\ Go("done")
    /\ UNCHANGED <<catalogVars, cache, cachedSync, runtimeVars, targetVars, sync, queue,
                   login, used>>

\* Fault: the job leaves its release marked as pending.
EndsPending ==
    /\ At("done")
    /\ job' = NoJob
    /\ UNCHANGED <<catalogVars, fileVars, runtimeVars, targetVars, sync, queue, login, used>>

\* The finally block.
EndJob ==
    /\ At("done")
    /\ job' = NoJob
    /\ pending' = IF ~job.boot /\ pending = job.rel THEN None ELSE pending
    /\ UNCHANGED <<catalogVars, fileVars, runtimeVars, target, rejected, sync, queue, login,
                   used>>

\* onProxyInitialize after a crash or a shutdown: loadCached.
Restart ==
    /\ used.restarts < MaxRestart
    /\ used' = [used EXCEPT !.restarts = @ + 1]
    /\ active' = None
    /\ target' = None /\ rejected' = None /\ pending' = None
    /\ generation' = 0 /\ running' = {} /\ made' = 0
    /\ sync' = [t \in Thread |-> NoSync]
    /\ queue' = << >>
    /\ IF cache # None /\ cachedSync
       THEN IF cache \in disk
            THEN /\ job' = [NoJob EXCEPT !.at = "quiesce", !.rel = cache, !.boot = TRUE]
                 /\ phase' = "empty"
            ELSE job' = NoJob /\ phase' = "failed"
       ELSE job' = NoJob /\ phase' = "empty"
    /\ login' = [l \in Login |->
            IF login[l].at = "new" THEN login[l] ELSE [NewLogin EXCEPT !.at = "out"]]
    /\ UNCHANGED <<catalogVars, fileVars>>

(***************************************************************************)
(* BootstrapGate, first and last of the listeners, and the runtime's own   *)
(* listener between them.                                                  *)
(***************************************************************************)
AdmissionGeneration == IF phase = "ready" /\ active # None THEN generation ELSE None

LoginGoes(l, rec) ==
    /\ login' = [login EXCEPT ![l] = rec]
    /\ UNCHANGED <<catalogVars, fileVars, runtimeVars, targetVars, sync, queue, job, used>>

GameProfileRequest(l) ==
    /\ login[l].at = "new"
    /\ ~job.boot
    /\ LoginGoes(l, [login[l] EXCEPT !.at = "asked", !.gen = AdmissionGeneration])

RuntimeProfile(l) ==
    /\ login[l].at = "asked"
    /\ LoginGoes(l, [login[l] EXCEPT !.at = "profiled", !.profiledBy = running])

RuntimeLogin(l) ==
    /\ login[l].at = "profiled"
    /\ LoginGoes(l, [login[l] EXCEPT !.at = "checked", !.checkedBy = running])

Admitted(l) ==
    /\ login[l].at = "checked"
    /\ login[l].gen # None /\ login[l].gen = AdmissionGeneration
    /\ LoginGoes(l, [login[l] EXCEPT !.at = "in"])

\* Another generation, or the attempt has expired or found no room.
Denied(l) ==
    /\ login[l].at = "checked"
    /\ LoginGoes(l, [NewLogin EXCEPT !.at = "out"])

(***************************************************************************)
(* Specification.                                                          *)
(***************************************************************************)
SyncStep(t) == SyncModule(t) \/ SetTarget(t) \/ CheckTarget(t) \/ AlreadyPending(t)
               \/ Enqueue(t)

LoaderStep ==
    \/ TakeJob \/ IsCurrentTarget \/ Fetch \/ FetchFails
    \/ Quiesce \/ Snapshot \/ SnapshotFails \/ Stop \/ StopFails
    \/ Start \/ StartFails \/ Commit \/ CommitFails \/ Rollback \/ RollbackFails
    \/ Persist \/ PersistFails \/ Cleanup \/ EndJob

LoginStep(l) ==
    \/ GameProfileRequest(l) \/ RuntimeProfile(l) \/ RuntimeLogin(l)
    \/ Admitted(l) \/ Denied(l)

Next ==
    \/ Edit
    \/ \E t \in Thread : ReceiveSync(t) \/ SyncStep(t)
    \/ LoaderStep
    \/ Restart
    \/ \E l \in Login : LoginStep(l)

Spec == Init /\ [][Next]_vars

\* The heartbeat loop goes on and its answers are applied; the loader works.
Fairness ==
    /\ \A t \in Thread : WF_vars(ReceiveSync(t)) /\ WF_vars(SyncStep(t))
    /\ WF_vars(LoaderStep)

FairSpec == Spec /\ Fairness

(***************************************************************************)
(* Properties.                                                             *)
(***************************************************************************)
\* activateLocked: when the gate says it is ready, exactly the runtime it
\* holds is listening, whichever single snapshot, stop or write has failed and
\* however many loads have.
ReadyMeansRunning == phase = "ready" => active # None /\ running = {active.inst}

\* BootstrapGate: a login is admitted only if one and the same runtime saw both
\* its events, however replacements and rollbacks fall between them.
AdmittedByOneRuntime ==
    \A l \in Login : login[l].at = "in" =>
        /\ login[l].profiledBy = login[l].checkedBy
        /\ Cardinality(login[l].checkedBy) = 1

\* cleanupArtifacts: what a rollback would load is on the disk, and what a
\* restart would load is too, unless a write of current.json has failed.
ArtifactsKept ==
    /\ active # None => active.rel \in disk
    /\ used.faults = 0 /\ cache # None => cache \in disk

\* applySync and the loader: once the administrators are done, the gate runs
\* the release they configured, or it has rejected it or has failed, although
\* syncs overlap and overtake each other.  (Behaviours that use up the jobs are
\* cut short and not asked.)
FollowsCore ==
    <>[](\/ used.jobs = MaxJob
         \/ Served \in {None, rejected}
         \/ phase = "failed"
         \/ phase = "ready" /\ active.rel = configured)

===============================================================================

------------------------ MODULE GroupJobController ------------------------
(***************************************************************************)
(* The GroupJob reconciliation engine of pkg/controller/                   *)
(* mpi_job_controller.go, for one GroupJob, against a cluster store and    *)
(* the controller's lagging informer caches of it.                         *)
(*                                                                         *)
(*  - the store (the API server): the GroupJob (spec and status), the      *)
(*    launcher Job, the launcher's pod, the worker pods (named             *)
(*    <job>-worker-<i>), the PodGroup and the Service/ConfigMap/Secret;    *)
(*  - the caches (listers): one copy of each object, refreshed by its own  *)
(*    informer, which then routes the change to the job's key (handleObject)*)
(*  - the work queue for the job's key (client-go dirty/processing sets);  *)
(*  - one reconciliation pass (syncHandler) split at the points where it   *)
(*    reads a cache or writes the store, so that caches, users, kubelet    *)
(*    and the Job controller move between its steps;                      *)
(*  - the environment: a user toggling suspend or changing the worker      *)
(*    replicas, the kubelet running worker pods, the Job controller        *)
(*    running and finishing the launcher, and the TTL controller.          *)
(***************************************************************************)
EXTENDS Integers, FiniteSets, FiniteSetsExt, SequencesExt

CONSTANTS
    MaxReplicas,            \* largest worker replica count a user may set
    InitReplicas,           \* replicas of the job as created
    InitSuspended,          \* set of possible initial suspend flags
    LauncherCreationPolicy, \* "AtStartup" | "WaitForWorkersReady"
    CleanPodPolicy,         \* "None" | "Running" | "All"
    RunLauncherAsWorker,    \* spec.runLauncherAsWorker
    GangScheduling,         \* a PodGroupControl is configured
    ForeignLauncher,        \* set of possible initial flags: a Job named
                            \* <job>-launcher not owned by the job exists
    ForeignPods,            \* worker names taken by pods not owned by the job
    UnlabelledPods,         \* those of them without a replica-index label
    ForeignDeps,            \* dependents that may exist under the job's name
                            \* with another owner when the job is created
    UserOps,                \* subset of {"suspend", "scale"} users perform
    MaxUserOps,             \* bound on user spec changes
    TTLDeletesLauncher,     \* ttlSecondsAfterFinished deletes a finished launcher
    MaxTransientErrors,     \* bound on failed API calls
    LauncherOutcomes,       \* terminal conditions the launcher Job may reach
    PodFailures,            \* ways a worker pod may fail: "Error", "Evicted"
    DepKinds,               \* the dependents created before the workers, in
                            \* syncHandler's order (Service, ConfigMap, Secret)
    NoObj                   \* model value: object absent / pointer nil

PodIdx == 0 .. MaxReplicas - 1

ASSUME /\ MaxReplicas \in Nat \ {0}
       /\ InitReplicas \in 1 .. MaxReplicas
       /\ InitSuspended \subseteq BOOLEAN /\ InitSuspended # {}
       /\ LauncherCreationPolicy \in {"AtStartup", "WaitForWorkersReady"}
       /\ CleanPodPolicy \in {"None", "Running", "All"}
       /\ RunLauncherAsWorker \in BOOLEAN
       /\ GangScheduling \in BOOLEAN
       /\ ForeignLauncher \subseteq BOOLEAN /\ ForeignLauncher # {}
       /\ ForeignPods \subseteq PodIdx /\ UnlabelledPods \subseteq ForeignPods
       /\ UserOps \subseteq {"suspend", "scale"}
       /\ MaxUserOps \in Nat /\ MaxTransientErrors \in Nat
       /\ LauncherOutcomes \subseteq {"Complete", "Failed"}
       /\ PodFailures \subseteq {"Error", "Evicted"}
       /\ DepKinds \in Seq({"Service", "ConfigMap", "Secret"})
       /\ ForeignDeps \subseteq ToSet(DepKinds)

VARIABLES
    \* store
    job, launcher, lpod, pods, pg, deps,
    \* informer caches
    jobC, launcherC, lpodC, podsC, pgC, depsC,
    \* work queue of the job's key
    dirty, processing,
    \* the pass in progress: step, the job copy, its status being built,
    \* and the locals launcher and worker of syncHandler
    pc, snap, st, lLocal, wLocal,
    \* prometheus counters and the launcher creations (history)
    created, succeeded, failed, launcherCreates,
    \* bounds on the environment
    userOps, errs

storeVars  == <<job, launcher, lpod, pods, pg, deps>>
cacheVars  == <<jobC, launcherC, lpodC, podsC, pgC, depsC>>
queueVars  == <<dirty, processing>>
passVars   == <<pc, snap, st, lLocal, wLocal>>
metricVars == <<created, succeeded, failed, launcherCreates>>
vars == <<storeVars, cacheVars, queueVars, passVars, metricVars, userOps, errs>>

CondTypes == {"Created", "Running", "Suspended", "Succeeded", "Failed"}
CondVals  == {"None", "True", "False"}
Phases    == {"Pending", "Running", "Failed"}
MaxStamp  == 1 + MaxUserOps                         \* startTime stamps
CountCap  == 2                                      \* counters saturate here

Status == [conds: [CondTypes -> CondVals], start: 0 .. MaxStamp,
           completion: BOOLEAN]
JobRec == [suspend: BOOLEAN, replicas: 1 .. MaxReplicas, status: Status]
LauncherRec == [owner: {"self", "foreign"}, suspend: BOOLEAN,
                cond: {"None", "Complete", "Failed"}]
PodRec == [owner: {"self", "foreign"}, index: 0 .. MaxReplicas \cup {NoObj},
           phase: Phases, ready: BOOLEAN, evicted: BOOLEAN]

\* what a dependent holds: the ConfigMap its hostfile's worker count and the
\* workers discover_hosts.sh lists; the Service selector and the Secret's
\* keys follow from the job's name only
FixedDep == [owner |-> "self"]
DepData == {FixedDep} \cup [replicas: 1 .. MaxReplicas, running: SUBSET PodIdx]

\* a Service, ConfigMap or Secret of another owner under the job's name
ForeignDep == [owner |-> "foreign"]

EmptyStatus == [conds |-> [t \in CondTypes |-> "None"], start |-> 0,
                completion |-> FALSE]

IncCapped(c) == IF c < CountCap THEN c + 1 ELSE c

(***************************************************************************)
(* Helpers of mpi_job_controller.go and of the status helpers of the       *)
(* package (setCondition/filterOutCondition, isFinished).                  *)
(***************************************************************************)
isGroupJobSuspended(j) == j.suspend

isJobSuspended(l) == l.suspend

isJobFinished(l) == l.cond \in {"Complete", "Failed"}

\* variant: only the Running policy cleans up
isCleanUpPodsRunningOnly == CleanPodPolicy = "Running"

isCleanUpPods == CleanPodPolicy \in {"All", "Running"}

\* variant: the label always padded by one
workerReplicaIndexLabelPadded(i) == i + 1

workerReplicaIndexLabel(i) == IF RunLauncherAsWorker THEN i + 1 ELSE i

isFinished(s) == s.conds["Succeeded"] = "True" \/ s.conds["Failed"] = "True"

\* setCondition: no change when the status is already the same; setting
\* Succeeded or Failed turns an existing Running condition False.
updateGroupJobConditions(s, t, v) ==
    IF s.conds[t] = v THEN s
    ELSE [s EXCEPT !.conds =
            [c \in CondTypes |->
                CASE c = t -> v
                  [] c = "Running" /\ t \in {"Succeeded", "Failed"}
                       /\ s.conds[c] # "None" -> "False"
                  [] OTHER -> s.conds[c]]]

\* variant: running pods counted as ready
countReadyWorkerPodsRunning(w) == Quantify(DOMAIN w, LAMBDA i : w[i].phase = "Running")

\* countReadyWorkerPods: pods whose Ready condition is True.
countReadyWorkerPods(w) == Quantify(DOMAIN w, LAMBDA i : w[i].ready)

\* newWorker: a fresh pod carrying the replica index label.
newWorker(i) == [owner |-> "self", index |-> workerReplicaIndexLabel(i),
                 phase |-> "Pending", ready |-> FALSE, evicted |-> FALSE]

\* newLauncherJob: suspended iff the job is.
newLauncherJob(j) == [owner |-> "self", suspend |-> j.suspend, cond |-> "None"]

\* variant: pending pods kept as well
keepsPodPending(p) == CleanPodPolicy = "Running" /\ p.phase # "Running"

\* deleteWorkerPods keeps a pod that is neither running nor pending when
\* the clean policy is Running.
keepsPod(p) == CleanPodPolicy = "Running" /\ p.phase \notin {"Running", "Pending"}

FirstOf(S, dflt) == IF S = {} THEN dflt ELSE Min(S)

\* a pod of another owner that carries the job's worker labels and name
ForeignPod(i) == [owner |-> "foreign",
                  index |-> IF i \in UnlabelledPods THEN NoObj ELSE i, phase |-> "Running",
                  ready |-> TRUE, evicted |-> FALSE]

Init ==
    /\ \E s \in InitSuspended :
          job = [suspend |-> s, replicas |-> InitReplicas, status |-> EmptyStatus]
    /\ \E f \in ForeignLauncher :
          launcher = IF f THEN [owner |-> "foreign", suspend |-> FALSE, cond |-> "None"]
                          ELSE NoObj
    /\ lpod = FALSE
    /\ pods = [i \in PodIdx |-> IF i \in ForeignPods THEN ForeignPod(i) ELSE NoObj]
    /\ pg = FALSE
    /\ \E F \in SUBSET ForeignDeps :
          deps = [k \in ToSet(DepKinds) |-> IF k \in F THEN ForeignDep ELSE NoObj]
    \* the job is new: its add event is pending; the rest is in sync
    /\ jobC = NoObj
    /\ launcherC = launcher /\ lpodC = lpod /\ podsC = pods
    /\ pgC = pg /\ depsC = deps
    /\ dirty = FALSE /\ processing = FALSE
    /\ pc = "Idle" /\ snap = NoObj /\ st = EmptyStatus
    /\ lLocal = NoObj /\ wLocal = <<>>
    /\ created = 0 /\ succeeded = 0 /\ failed = 0 /\ launcherCreates = 0
    /\ userOps = 0 /\ errs = 0

(***************************************************************************)
(* The work queue (processNextWorkItem).  The key is queued iff it is      *)
(* dirty and not being processed; Get takes it, Done releases it, and an   *)
(* Add while it is processed only marks it dirty.  A pass that returns an  *)
(* error re-adds the key (AddRateLimited); a nil result calls Forget.      *)
(***************************************************************************)
GetKey == pc = "Idle" /\ dirty /\ ~processing

\* variant: the key is not released (queue.Done missing)
FinishNoDone(err) ==
    /\ pc' = "Idle" /\ UNCHANGED processing
    /\ dirty' = (dirty \/ err)
    /\ snap' = NoObj /\ st' = EmptyStatus /\ lLocal' = NoObj /\ wLocal' = <<>>

\* variant: a failed pass is forgotten instead of re-added (AddRateLimited
\* missing)
FinishForget(err) ==
    /\ pc' = "Idle" /\ processing' = FALSE
    /\ UNCHANGED dirty
    /\ snap' = NoObj /\ st' = EmptyStatus /\ lLocal' = NoObj /\ wLocal' = <<>>

Finish(err) ==
    /\ pc' = "Idle" /\ processing' = FALSE
    /\ dirty' = (dirty \/ err)
    /\ snap' = NoObj /\ st' = EmptyStatus /\ lLocal' = NoObj /\ wLocal' = <<>>

\* the pass ends in the step that took the key: Get cleared dirty
FinishAtStart(err) ==
    /\ processing' = FALSE /\ dirty' = err
    /\ UNCHANGED passVars

Begin(next) == processing' = TRUE /\ dirty' = FALSE /\ pc' = next

FirstPass(j) == \A t \in CondTypes : j.status.conds[t] = "None"

\* the Created condition of the first pass, and its counter
Admitted(j) ==
    IF FirstPass(j) THEN updateGroupJobConditions(j.status, "Created", "True")
    ELSE j.status

CountCreated(j) == created' = IF FirstPass(j) THEN IncCapped(created) ELSE created

(***************************************************************************)
(* syncHandler, from the lister read of the job to getLauncherJob.         *)
(***************************************************************************)
\* finished with a completion time: clean up per policy, else stop
SyncFinishedJob ==
    /\ GetKey /\ jobC # NoObj
    /\ LET s0 == Admitted(jobC) IN
       /\ isFinished(s0) /\ s0.completion
       /\ CountCreated(jobC)
       /\ IF isCleanUpPods
            THEN /\ Begin("Cleanup") /\ snap' = jobC /\ st' = s0
                 /\ UNCHANGED <<lLocal, wLocal>>
            ELSE FinishAtStart(FALSE)
    /\ UNCHANGED <<storeVars, cacheVars, succeeded, failed, launcherCreates,
                   userOps, errs>>

\* getLauncherJob: the lister's Job, an error if another owner controls it
getLauncherJob ==
    [launcher |-> launcherC,
     err |-> launcherC # NoObj /\ launcherC.owner # "self"]

\* stamp startTime, read the launcher; a launcher of another owner ends
\* the pass with an error before anything is written
SyncBegin ==
    /\ GetKey /\ jobC # NoObj
    /\ LET s0 == Admitted(jobC)
           s1 == IF s0.start = 0 /\ ~isGroupJobSuspended(jobC)
                   THEN [s0 EXCEPT !.start = 1] ELSE s0
       IN /\ ~(isFinished(s0) /\ s0.completion)
          /\ CountCreated(jobC)
          /\ IF getLauncherJob.err
               THEN FinishAtStart(TRUE)
               ELSE /\ Begin(IF launcherC # NoObj /\ isJobFinished(launcherC)
                               THEN "Align" ELSE "Deps")
                    /\ snap' = jobC /\ st' = s1 /\ lLocal' = launcherC
                    /\ UNCHANGED wLocal
    /\ UNCHANGED <<storeVars, cacheVars, succeeded, failed, launcherCreates,
                   userOps, errs>>

(***************************************************************************)
(* getOrCreateService, getOrCreateConfigMap, getOrCreateSSHAuthSecret in   *)
(* that order, then getOrCreatePodGroups when not suspended.  Each reads   *)
(* its lister: a missing object is created (AlreadyExists if the store     *)
(* has it already); a cached one whose data differs from the wanted data   *)
(* is updated from the cached copy, which the store rejects when that copy *)
(* is stale (Conflict, or NotFound if it is gone); one controlled by       *)
(* another owner is an error (MessageResourceExists) and is left alone.    *)
(* The first error ends the pass.                                          *)
(***************************************************************************)
\* getRunningWorkerPods: the listed pods in phase Running, of any owner
getRunningWorkerPods(pl) == {i \in PodIdx : pl[i] # NoObj /\ pl[i].phase = "Running"}

\* newConfigMap's hostfile (workerReplicas) with updateDiscoverHostsInConfigMap's
\* script of the running pods; the other dependents' data is fixed
newDepData(k, j) ==
    IF k = "ConfigMap"
      THEN [replicas |-> j.replicas, running |-> getRunningWorkerPods(podsC)]
      ELSE FixedDep

\* variant: the ConfigMap compared on its hostfile only
depUpToDateHostfileOnly(k, have, want) ==
    IF k = "ConfigMap" THEN have.replicas = want.replicas ELSE have = want

\* the Semantic.DeepEqual of the ConfigMap data (Service selector, Secret keys)
depUpToDate(k, have, want) == have = want

\* variant: the IsControlledBy check missing
depControlledByAnyOwner(c) == TRUE

\* metav1.IsControlledBy(cm, mpiJob) of the cached dependent
depControlledBy(c) == c # ForeignDep

SyncDeps ==
    /\ pc = "Deps"
    /\ LET want(k)  == newDepData(k, snap)
           stale(k) == depsC[k] # NoObj /\ depControlledBy(depsC[k])
                       /\ ~depUpToDate(k, depsC[k], want(k))
           fails(k) == CASE depsC[k] = NoObj -> deps[k] # NoObj
                         [] ~depControlledBy(depsC[k]) -> TRUE
                         [] OTHER -> stale(k) /\ deps[k] # depsC[k]
           stop     == FirstOf({m \in DOMAIN DepKinds : fails(DepKinds[m])},
                               Len(DepKinds) + 1)
           written  == {DepKinds[m] : m \in 1 .. stop - 1}
           wantPG   == ~isGroupJobSuspended(snap) /\ GangScheduling
       IN /\ deps' = [k \in DOMAIN deps |->
                        IF k \in written /\ (depsC[k] = NoObj \/ stale(k))
                          THEN want(k) ELSE deps[k]]
          /\ IF stop <= Len(DepKinds) \/ (wantPG /\ ~pgC /\ pg)
               THEN /\ Finish(TRUE) /\ UNCHANGED pg
               \* a PodGroup in the lister is returned as it is
               ELSE /\ pg' = IF wantPG /\ ~pgC THEN TRUE ELSE pg
                    /\ pc' = IF isGroupJobSuspended(snap) THEN "Launcher" ELSE "Workers"
                    /\ UNCHANGED <<dirty, processing, snap, st, lLocal, wLocal>>
    /\ UNCHANGED <<job, launcher, lpod, pods, cacheVars, metricVars, userOps, errs>>

(***************************************************************************)
(* getOrCreateWorker: when the lister holds more pods than replicas,       *)
(* delete those whose replica-index label is >= replicas (a NotFound ends  *)
(* the pass); then, for i in 0..replicas-1, create the missing pod         *)
(* (AlreadyExists if the cache lags) or stop at a pod of another owner.    *)
(***************************************************************************)
\* variant: the loop stops one name short
workerIndicesShort(R) == 0 .. R - 2

\* the names getOrCreateWorker walks: <job>-worker-0 .. replicas-1
workerIndices(R) == 0 .. R - 1

SyncWorkers ==
    /\ pc = "Workers"
    /\ LET R       == snap.replicas
           listed  == {i \in PodIdx : podsC[i] # NoObj}
           scaled  == Cardinality(listed) > R
           labelled == {i \in listed : podsC[i].index # NoObj}
           surplus == IF scaled THEN {i \in labelled : podsC[i].index >= R} ELSE {}
           gone    == {i \in surplus : pods[i] = NoObj}
           \* the surplus pods listed before the one that stops the loop
           deleteSome == \E D \in SUBSET (surplus \ gone) :
                           pods' = [i \in PodIdx |-> IF i \in D THEN NoObj ELSE pods[i]]
       IN \/ /\ gone # {}
             /\ deleteSome
             /\ Finish(TRUE)
          \* a listed pod without the index label: return nil, err with err
          \* nil, and the pass goes on with no workers
          \/ /\ scaled /\ labelled # listed
             /\ deleteSome
             /\ wLocal' = <<>> /\ pc' = "Launcher"
             /\ UNCHANGED <<dirty, processing, snap, st, lLocal>>
          \/ /\ gone = {} /\ (scaled => labelled = listed)
             /\ LET p1 == [i \in PodIdx |-> IF i \in surplus THEN NoObj ELSE pods[i]]
                    fails(i) == \/ podsC[i] = NoObj /\ p1[i] # NoObj
                                \/ podsC[i] # NoObj /\ podsC[i].owner # "self"
                    stop == FirstOf({i \in workerIndices(R) : fails(i)}, R)
                IN /\ pods' = [i \in PodIdx |->
                                 IF i \in workerIndices(R) /\ i < stop /\ podsC[i] = NoObj
                                   THEN newWorker(i) ELSE p1[i]]
                   /\ IF stop < R
                        THEN Finish(TRUE)
                        ELSE /\ wLocal' = [i \in workerIndices(R) |->
                                             IF podsC[i] = NoObj
                                               THEN newWorker(i) ELSE podsC[i]]
                             /\ pc' = "Launcher"
                             /\ UNCHANGED <<dirty, processing, snap, st, lLocal>>
    /\ UNCHANGED <<job, launcher, lpod, pg, deps, cacheVars, metricVars,
                   userOps, errs>>

(***************************************************************************)
(* Launcher creation: when the launcher is absent, create it if the policy *)
(* is AtStartup or countReadyWorkerPods(worker) == len(worker); otherwise  *)
(* wait for a later pass.                                                  *)
(***************************************************************************)
SyncLauncher ==
    /\ pc = "Launcher"
    /\ IF /\ lLocal = NoObj
          /\ \/ LauncherCreationPolicy = "AtStartup"
             \/ countReadyWorkerPods(wLocal) = Cardinality(DOMAIN wLocal)
         THEN IF launcher # NoObj
                THEN /\ Finish(TRUE) /\ UNCHANGED <<launcher, launcherCreates>>
                ELSE /\ launcher' = newLauncherJob(snap)
                     /\ lLocal' = launcher'
                     /\ launcherCreates' = IncCapped(launcherCreates)
                     /\ pc' = "Align"
                     /\ UNCHANGED <<dirty, processing, snap, st, wLocal>>
         ELSE /\ pc' = "Align"
              /\ UNCHANGED <<launcher, launcherCreates, dirty, processing,
                             snap, st, lLocal, wLocal>>
    /\ UNCHANGED <<job, lpod, pods, pg, deps, cacheVars, created, succeeded,
                   failed, userOps, errs>>

(***************************************************************************)
(* Align the launcher's suspend flag with the job's: Update of the Job     *)
(* read from the cache, rejected when the stored Job has moved on.         *)
(***************************************************************************)
\* variant: only a suspend is propagated to the launcher
launcherNeedsAlignSuspendOnly(j, l) ==
    l # NoObj /\ isGroupJobSuspended(j) /\ ~isJobSuspended(l)

launcherNeedsAlign(j, l) ==
    l # NoObj /\ isGroupJobSuspended(j) # isJobSuspended(l)

SyncAlign ==
    /\ pc = "Align"
    /\ IF launcherNeedsAlign(snap, lLocal)
         THEN IF launcher = lLocal
                THEN /\ launcher' = [launcher EXCEPT !.suspend = snap.suspend]
                     /\ lLocal' = [lLocal EXCEPT !.suspend = snap.suspend]
                     /\ pc' = "Suspend"
                     /\ UNCHANGED <<dirty, processing, snap, st, wLocal>>
                ELSE /\ Finish(TRUE) /\ UNCHANGED launcher
         ELSE /\ pc' = "Suspend"
              /\ UNCHANGED <<launcher, dirty, processing, snap, st, lLocal, wLocal>>
    /\ UNCHANGED <<job, lpod, pods, pg, deps, cacheVars, metricVars, userOps, errs>>

(***************************************************************************)
(* cleanUpWorkerPods: deleteWorkerPods walks the names 0..replicas-1 of    *)
(* the job copy in the lister, stops with an error at a pod of another     *)
(* owner, keeps finished pods under CleanPodPolicy Running, ignores a      *)
(* NotFound on delete; then deletePodGroups, whose delete of a PodGroup    *)
(* the cache still shows but the store no longer has fails.                *)
(***************************************************************************)
\* variant: deleteWorkerPods without the ownership check
deleteWorkerPodsAnyOwner(j) ==
    LET del == {i \in 0 .. j.replicas - 1 : podsC[i] # NoObj /\ ~keepsPod(podsC[i])}
    IN [pods |-> [i \in PodIdx |-> IF i \in del THEN NoObj ELSE pods[i]],
        err |-> FALSE]

\* deleteWorkerPods: the names 0..replicas-1 in the lister, up to the first
\* pod of another owner (an error); a NotFound on delete is ignored
deleteWorkerPods(j) ==
    LET R    == j.replicas
        stop == FirstOf({i \in 0 .. R - 1 :
                           podsC[i] # NoObj /\ podsC[i].owner # "self"}, R)
        del  == {i \in 0 .. stop - 1 : podsC[i] # NoObj /\ ~keepsPod(podsC[i])}
    IN [pods |-> [i \in PodIdx |-> IF i \in del THEN NoObj ELSE pods[i]],
        err |-> stop < R]

\* deletePodGroups: NotFound in the lister is success; a delete of a
\* PodGroup the store no longer has fails
deletePodGroups ==
    CASE ~pgC -> [pg |-> pg, err |-> FALSE]
      [] pg   -> [pg |-> FALSE, err |-> FALSE]
      [] OTHER -> [pg |-> pg, err |-> TRUE]

cleanUpWorkerPods(j) ==
    LET d == deleteWorkerPods(j)
        g == IF GangScheduling /\ ~d.err THEN deletePodGroups
             ELSE [pg |-> pg, err |-> FALSE]
    IN [pods |-> d.pods, pg |-> g.pg, err |-> d.err \/ g.err]

\* the job is suspended: clean up the workers
SyncSuspend ==
    /\ pc = "Suspend"
    /\ IF isGroupJobSuspended(snap)
         THEN LET r == cleanUpWorkerPods(snap) IN
              /\ pods' = r.pods /\ pg' = r.pg
              /\ IF r.err THEN Finish(TRUE)
                 ELSE /\ pc' = "Status"
                      /\ UNCHANGED <<dirty, processing, snap, st, lLocal, wLocal>>
         ELSE /\ pc' = "Status"
              /\ UNCHANGED <<pods, pg, dirty, processing, snap, st, lLocal, wLocal>>
    /\ UNCHANGED <<job, launcher, lpod, deps, cacheVars, metricVars, userOps, errs>>

\* doUpdateJobStatus: UpdateStatus of the job copy, rejected on a stale
\* resourceVersion
\* variant: UpdateStatus without the resourceVersion check
WriteStatusBlind(s) == job' = [job EXCEPT !.status = s] /\ Finish(FALSE)

WriteStatus(s) ==
    IF job = snap THEN /\ job' = [job EXCEPT !.status = s] /\ Finish(FALSE)
                  ELSE /\ Finish(TRUE) /\ UNCHANGED job

\* the finished job: clean up, then write the status unconditionally
SyncCleanup ==
    /\ pc = "Cleanup"
    /\ LET r == cleanUpWorkerPods(snap) IN
       /\ pods' = r.pods /\ pg' = r.pg
       /\ IF r.err THEN Finish(TRUE) /\ UNCHANGED job ELSE WriteStatus(st)
    /\ UNCHANGED <<launcher, lpod, deps, cacheVars, metricVars, userOps, errs>>

(***************************************************************************)
(* updateGroupJobStatus: Suspended/resumed (a resume re-stamps startTime), *)
(* the launcher's outcome (completionTime set once), evicted workers flag  *)
(* Failed, Running; the launcher's running pod count comes from the pod    *)
(* lister at this point.  The status is written only if it changed.        *)
(***************************************************************************)
\* jobPods/countRunningPods: the launcher's running pods in the pod lister
launcherPodsCnt == IF lpodC THEN 1 ELSE 0

\* variant: a resume is never recorded
suspendedConditionNoResume(j, s) ==
    IF isGroupJobSuspended(j) THEN updateGroupJobConditions(s, "Suspended", "True")
    ELSE s

\* Suspended True while suspended; resumed (False) with a new startTime
\* when the condition was True
suspendedCondition(j, s) ==
    CASE isGroupJobSuspended(j) ->
           updateGroupJobConditions(s, "Suspended", "True")
      [] s.conds["Suspended"] \notin {"None", "False"} ->
           [updateGroupJobConditions(s, "Suspended", "False") EXCEPT !.start = s.start + 1]
      [] OTHER -> s

\* updateGroupJobFailedStatus: completionTime stamped when unset and Failed
\* True (the launcher's reason and the last failed pod's message left out);
\* SyncStatus counts it in mpi_operator_jobs_failed_total
updateGroupJobFailedStatus(s) ==
    updateGroupJobConditions([s EXCEPT !.completion = TRUE], "Failed", "True")

updateGroupJobStatus(j, s, l, w) ==
    LET s1 == suspendedCondition(j, s)
        done(c) == l # NoObj /\ l.cond = c
        s2 == CASE done("Complete") ->
                     updateGroupJobConditions([s1 EXCEPT !.completion = TRUE],
                                              "Succeeded", "True")
                [] done("Failed") -> updateGroupJobFailedStatus(s1)
                [] OTHER -> s1
        evict   == Quantify(DOMAIN w, LAMBDA i : w[i].phase = "Failed" /\ w[i].evicted)
        running == Quantify(DOMAIN w, LAMBDA i : w[i].phase = "Running")
        s3 == IF evict > 0 THEN updateGroupJobConditions(s2, "Failed", "True") ELSE s2
        s4 == CASE isGroupJobSuspended(j) ->
                     updateGroupJobConditions(s3, "Running", "False")
                [] l # NoObj /\ launcherPodsCnt >= 1 /\ running = Cardinality(DOMAIN w) ->
                     updateGroupJobConditions(s3, "Running", "True")
                [] OTHER -> s3
    IN [status |-> s4, succ |-> done("Complete"), fail |-> done("Failed")]

SyncStatus ==
    /\ pc = "Status"
    /\ LET r == updateGroupJobStatus(snap, st, lLocal, wLocal) IN
       /\ succeeded' = IF r.succ THEN IncCapped(succeeded) ELSE succeeded
       /\ failed' = IF r.fail THEN IncCapped(failed) ELSE failed
       /\ IF r.status # st THEN WriteStatus(r.status)
                           ELSE Finish(FALSE) /\ UNCHANGED job
    /\ UNCHANGED <<launcher, lpod, pods, pg, deps, cacheVars, created,
                   launcherCreates, userOps, errs>>

\* the first write of the current step fails (network, timeout, webhook)
SyncFails ==
    /\ pc \notin {"Idle"}
    /\ errs < MaxTransientErrors
    /\ errs' = errs + 1
    /\ Finish(TRUE)
    /\ UNCHANGED <<storeVars, cacheVars, metricVars, userOps>>

(***************************************************************************)
(* Informers: a cache copy catches up with the store, and the event is     *)
(* routed: the job's own events enqueue it; a dependent enqueues the job   *)
(* iff its controller reference is the job (a deleted object through its   *)
(* tombstone); the launcher's pod through the cached launcher Job.         *)
(***************************************************************************)
Enqueue(yes) == dirty' = (dirty \/ yes)

\* handleObject: the controller reference is the job, and the job is in
\* the job lister (an orphan's event is ignored)
Owned(new, old) == LET o == IF new # NoObj THEN new ELSE old
                   IN o # NoObj /\ o.owner = "self" /\ jobC # NoObj

InformerUnchanged(c) ==
    /\ UNCHANGED c
    /\ UNCHANGED <<storeVars, processing, passVars, metricVars, userOps, errs>>

JobInformer ==
    /\ jobC # job /\ jobC' = job /\ Enqueue(TRUE)
    /\ InformerUnchanged(<<launcherC, lpodC, podsC, pgC, depsC>>)

LauncherInformer ==
    /\ launcherC # launcher /\ launcherC' = launcher
    /\ Enqueue(Owned(launcher, launcherC))
    /\ InformerUnchanged(<<jobC, lpodC, podsC, pgC, depsC>>)

LauncherPodInformer ==
    /\ lpodC # lpod /\ lpodC' = lpod
    /\ Enqueue(Owned(launcherC, NoObj))
    /\ InformerUnchanged(<<jobC, launcherC, podsC, pgC, depsC>>)

PodInformer(i) ==
    /\ podsC[i] # pods[i] /\ podsC' = [podsC EXCEPT ![i] = pods[i]]
    /\ Enqueue(Owned(pods[i], podsC[i]))
    /\ InformerUnchanged(<<jobC, launcherC, lpodC, pgC, depsC>>)

PodGroupInformer ==
    /\ pgC # pg /\ pgC' = pg /\ Enqueue(jobC # NoObj)
    /\ InformerUnchanged(<<jobC, launcherC, lpodC, podsC, depsC>>)

\* handleObject for a dependent: only one controlled by the job is routed
DepOwned(new, old) == LET o == IF new # NoObj THEN new ELSE old
                      IN o # ForeignDep /\ jobC # NoObj

DepInformer(k) ==
    /\ depsC[k] # deps[k] /\ depsC' = [depsC EXCEPT ![k] = deps[k]]
    /\ Enqueue(DepOwned(deps[k], depsC[k]))
    /\ InformerUnchanged(<<jobC, launcherC, lpodC, podsC, pgC>>)

Informer ==
    \/ JobInformer \/ LauncherInformer \/ LauncherPodInformer
    \/ \E i \in PodIdx : PodInformer(i)
    \/ PodGroupInformer
    \/ \E k \in ToSet(DepKinds) : DepInformer(k)

(***************************************************************************)
(* Environment.                                                            *)
(***************************************************************************)
\* a user flips spec.runPolicy.suspend or changes the worker replicas
UserSuspend ==
    /\ "suspend" \in UserOps /\ userOps < MaxUserOps
    /\ job' = [job EXCEPT !.suspend = ~@]
    /\ userOps' = userOps + 1

UserScale(r) ==
    /\ "scale" \in UserOps /\ userOps < MaxUserOps
    /\ r # job.replicas
    /\ job' = [job EXCEPT !.replicas = r]
    /\ userOps' = userOps + 1

\* the kubelet runs, readies and fails (or evicts) the job's worker pods
SelfPod(i) == pods[i] # NoObj /\ pods[i].owner = "self"

PodRun(i) ==
    /\ SelfPod(i) /\ pods[i].phase = "Pending"
    /\ pods' = [pods EXCEPT ![i].phase = "Running"]

PodReady(i) ==
    /\ SelfPod(i) /\ pods[i].phase = "Running" /\ ~pods[i].ready
    /\ pods' = [pods EXCEPT ![i].ready = TRUE]

PodFail(i, reason) ==
    /\ SelfPod(i) /\ pods[i].phase = "Running"
    /\ pods' = [pods EXCEPT ![i].phase = "Failed", ![i].ready = FALSE,
                            ![i].evicted = (reason = "Evicted")]

\* the Job controller runs the launcher's pod unless suspended, removes it
\* when suspended, and records the outcome once the pod has terminated;
\* the TTL controller deletes a finished launcher
SelfLauncher == launcher # NoObj /\ launcher.owner = "self"

LauncherPodStart ==
    /\ SelfLauncher /\ ~launcher.suspend /\ launcher.cond = "None" /\ ~lpod
    /\ lpod' = TRUE /\ UNCHANGED launcher

LauncherPodStop ==
    /\ SelfLauncher /\ launcher.suspend /\ lpod
    /\ lpod' = FALSE /\ UNCHANGED launcher

LauncherFinish(c) ==
    /\ SelfLauncher /\ launcher.cond = "None" /\ lpod
    /\ lpod' = FALSE /\ launcher' = [launcher EXCEPT !.cond = c]

LauncherTTLDelete ==
    /\ TTLDeletesLauncher /\ SelfLauncher /\ isJobFinished(launcher)
    /\ launcher' = NoObj /\ UNCHANGED lpod

\* a user deletes a dependent of another owner that holds the job's name
ForeignDepDelete(k) ==
    /\ deps[k] = ForeignDep /\ deps' = [deps EXCEPT ![k] = NoObj]

Environment ==
    \/ /\ \/ UserSuspend
          \/ \E r \in 1 .. MaxReplicas : UserScale(r)
       /\ UNCHANGED <<launcher, lpod, pods, pg, deps>>
    \/ /\ \E i \in PodIdx : PodRun(i) \/ PodReady(i) \/ \E f \in PodFailures : PodFail(i, f)
       /\ UNCHANGED <<job, launcher, lpod, pg, deps, userOps>>
    \/ /\ \/ LauncherPodStart \/ LauncherPodStop
          \/ \E c \in LauncherOutcomes : LauncherFinish(c)
          \/ LauncherTTLDelete
       /\ UNCHANGED <<job, pods, pg, deps, userOps>>
    \/ /\ \E k \in ForeignDeps : ForeignDepDelete(k)
       /\ UNCHANGED <<job, launcher, lpod, pods, pg, userOps>>

EnvUnchanged == UNCHANGED <<cacheVars, queueVars, passVars, metricVars, errs>>

Controller ==
    \/ SyncFinishedJob \/ SyncBegin
    \/ SyncDeps \/ SyncWorkers \/ SyncLauncher \/ SyncAlign
    \/ SyncSuspend \/ SyncCleanup \/ SyncStatus

Next ==
    \/ Controller
    \/ SyncFails
    \/ Informer
    \/ Environment /\ EnvUnchanged

(***************************************************************************)
(* Fairness: the worker goroutine keeps taking keys and runs each step of  *)
(* a pass (runWorker loops until shutdown), and every informer delivers    *)
(* its watch events.  Users, the kubelet, the Job controller and failures  *)
(* get none: they may stop at any time.                                    *)
(***************************************************************************)
Fairness ==
    /\ WF_vars(Controller)
    /\ WF_vars(JobInformer) /\ WF_vars(LauncherInformer)
    /\ WF_vars(LauncherPodInformer) /\ WF_vars(PodGroupInformer)
    /\ \A i \in PodIdx : WF_vars(PodInformer(i))
    /\ \A k \in ToSet(DepKinds) : WF_vars(DepInformer(k))

Spec == Init /\ [][Next]_vars /\ Fairness
(***************************************************************************)
(* Properties.                                                             *)
(***************************************************************************)
Steps == {"Idle", "Deps", "Workers", "Launcher", "Align", "Suspend",
          "Status", "Cleanup"}

TypeOK ==
    /\ job \in JobRec /\ jobC \in JobRec \cup {NoObj}
    /\ launcher \in LauncherRec \cup {NoObj} /\ launcherC \in LauncherRec \cup {NoObj}
    /\ lpod \in BOOLEAN /\ lpodC \in BOOLEAN
    /\ pods \in [PodIdx -> PodRec \cup {NoObj}]
    /\ podsC \in [PodIdx -> PodRec \cup {NoObj}]
    /\ pg \in BOOLEAN /\ pgC \in BOOLEAN
    /\ deps \in [ToSet(DepKinds) -> DepData \cup {ForeignDep, NoObj}]
    /\ depsC \in [ToSet(DepKinds) -> DepData \cup {ForeignDep, NoObj}]
    /\ dirty \in BOOLEAN /\ processing = (pc # "Idle")
    /\ pc \in Steps /\ snap \in JobRec \cup {NoObj} /\ st \in Status
    /\ lLocal \in LauncherRec \cup {NoObj}
    /\ \E n \in 0 .. MaxReplicas : wLocal \in [0 .. n - 1 -> PodRec]
    /\ {created, succeeded, failed, launcherCreates} \subseteq 0 .. CountCap
    /\ userOps \in 0 .. MaxUserOps /\ errs \in 0 .. MaxTransientErrors

\* the job's status records a finished launcher with a completion time:
\* syncHandler stops reconciling it (only the clean-up of its pods remains)
Completed(j) == isFinished(j.status) /\ j.status.completion

LauncherDone == SelfLauncher /\ isJobFinished(launcher)

\* A pass only deletes a worker pod whose name index is at or above the
\* replicas it read (getOrCreateWorker's scale-down), or when the job it
\* read is suspended, or when cleaning up a finished job (deleteWorkerPods).
ScaleDownDeletesOnlySurplus ==
    [][\A i \in PodIdx :
         (pods[i] # NoObj /\ pods'[i] = NoObj)
            => (i >= snap.replicas \/ snap.suspend \/ pc = "Cleanup")]_vars

\* Under LauncherCreationPolicy WaitForWorkersReady, the launcher Job is
\* only made runnable (created unsuspended, or switched from suspended to
\* unsuspended) by a pass that saw all of the job's workers Ready.
LauncherWaitsForReadyWorkers ==
    [][(/\ LauncherCreationPolicy = "WaitForWorkersReady"
        /\ launcher' # NoObj /\ launcher'.owner = "self" /\ ~launcher'.suspend
        /\ (launcher = NoObj \/ launcher.suspend))
         => /\ DOMAIN wLocal = 0 .. snap.replicas - 1
            /\ \A i \in DOMAIN wLocal : wLocal[i].ready]_vars

\* Objects named like the job's dependents but owned by someone else are
\* never updated or deleted by the controller (MessageResourceExists): not
\* the launcher Job, not a worker pod, and not a Service, ConfigMap or
\* Secret, which only their owner may delete.
ForeignObjectsUntouched ==
    [][/\ (launcher # NoObj /\ launcher.owner = "foreign") => launcher' = launcher
       /\ \A i \in PodIdx :
            (pods[i] # NoObj /\ pods[i].owner = "foreign") => pods'[i] = pods[i]
       /\ \A k \in DOMAIN deps :
            deps[k] = ForeignDep => deps'[k] \in {ForeignDep, NoObj}]_vars

\* A job that stays suspended ends with none of its worker pods pending or
\* running (cleanUpWorkerPods on every pass of a suspended job).
SuspendReleasesWorkers ==
    <>[](job.suspend /\ ~Completed(job))
        => <>[](\A i \in PodIdx : SelfPod(i) => pods[i].phase \notin {"Pending", "Running"})

\* The launcher Job's suspend flag ends equal to the job's as long as the
\* job is not completed (the alignment step of syncHandler).
LauncherFollowsSuspend ==
    <>[](SelfLauncher /\ ~Completed(job) => launcher.suspend = job.suspend)

\* A running, unfinished job ends with exactly its worker pods 0..replicas-1
\* (created by getOrCreateWorker, surplus ones removed on scale-down).
WorkersConverge ==
    <>[](~job.suspend /\ ~Completed(job) /\ ~LauncherDone
           => \A i \in PodIdx : (pods[i] # NoObj) <=> (i < job.replicas))

\* Once users, pods and the launcher stop changing, the ConfigMap holds the
\* hostfile of the job's worker replicas and the discover_hosts.sh of the
\* pods Running now, as long as the job is not finished and no Job or
\* ConfigMap of another owner holds the job's names (a conflict fails
\* every pass): every pod event queues a pass whose getOrCreateConfigMap
\* rewrites the data, and an update rejected for a stale cached copy is
\* retried once the ConfigMap's own informer event arrives.  (The lister
\* also returns running pods of another owner, whose events handleObject
\* drops; the property is checked on the job's own pods.)
ConfigMapFollowsWorkers ==
    "ConfigMap" \in ToSet(DepKinds) =>
        <>[]((/\ ~Completed(job) /\ ~LauncherDone /\ (launcher = NoObj \/ SelfLauncher)
              /\ deps["ConfigMap"] # ForeignDep) =>
                deps["ConfigMap"] = [replicas |-> job.replicas,
                                     running |-> getRunningWorkerPods(pods)])

\* Every dependent ends up existing, as long as the job is not finished and
\* no Job of another owner holds the launcher's name: a Service, ConfigMap
\* or Secret of another owner fails each pass (MessageResourceExists), and
\* once a user deletes it the job's own one is created, although the
\* deletion is not routed to the job (handleObject skips an object the job
\* does not control): only the rate-limited requeue of the failed pass
\* brings the job back.
DependentsRecreated ==
    <>[](~Completed(job) /\ (launcher = NoObj \/ SelfLauncher)
           => \A k \in DOMAIN deps : deps[k] # NoObj)

\* The job's Suspended condition ends True exactly when it is suspended.
StatusTracksSuspend ==
    <>[](~Completed(job) => ((job.status.conds["Suspended"] = "True") <=> job.suspend))

\* The launcher Job is created once per job: a later pass never creates a
\* second one (spec: single-launcher invariant; the launcher == nil branch
\* of syncHandler).
LauncherCreatedOnce == launcherCreates <= 1

\* Once the job's status says Succeeded it never says Running True: the
\* Running condition of updateGroupJobStatus needs a running launcher pod.
SucceededNeverRunning ==
    job.status.conds["Succeeded"] = "True" => job.status.conds["Running"] # "True"

\* The mpi_operator_jobs_created_total counter counts each job once (it is
\* incremented with the Created condition of the first pass).
CreatedCountedOnce == created <= 1

\* A completed job under CleanPodPolicy Running or All ends with no worker
\* pod pending or running and no PodGroup (the finished branch of
\* syncHandler).
CompletionReleasesWorkers ==
    <>[](Completed(job) => /\ \A i \in PodIdx : SelfPod(i) =>
                                   pods[i].phase \notin {"Pending", "Running"}
                          /\ ~pg)

(***************************************************************************)
(* Refinement: the stored job status, read through the mapping below,      *)
(* behaves as JobLifecycle allows.                                         *)
(***************************************************************************)
Lifecycle == INSTANCE JobLifecycle WITH
    admitted  <- job.status.conds["Created"] = "True",
    outcome   <- {o \in {"Succeeded", "Failed"} : job.status.conds[o] = "True"},
    completed <- job.status.completion

\* Every status write (doUpdateJobStatus, through updateGroupJobStatus or
\* the clean-up of a finished job) carries Created, keeps the outcomes
\* already stored, writes completionTime only with an outcome, and none
\* follows the completion: a pass that read an older job copy, or that
\* counted the job as created again, never takes the stored status back.
ImplementsLifecycle == Lifecycle!Spec

====

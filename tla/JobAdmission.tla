---------------------------- MODULE JobAdmission ----------------------------
(***************************************************************************)
(* The admission prefix of syncHandler (pkg/controller/                    *)
(* mpi_job_controller.go): a pass first skips a job managed by another     *)
(* controller or being deleted, then runs ValidateGroupJob (pkg/apis/      *)
(* kubeflow/validation/validation.go) and, on errors, records a warning    *)
(* event and returns nil without requeueing; only a valid job goes on to   *)
(* the reconciliation of GroupJobController.  Users edit the job; each     *)
(* edit is an update event that queues the key again.                      *)
(*                                                                         *)
(* A job spec is a record over small domains.  The job name is kept as     *)
(* what IsDNS1035Label looks at: its length, whether it starts with a      *)
(* letter, whether it holds a dot (the API server already admits it as a   *)
(* DNS subdomain: lower-case letters, digits, '-' and '.').  A field left  *)
(* nil is NoObj.  Schema defaulting (scheme.Scheme.Default) is not in the  *)
(* repository; the domains are the values a stored spec can hold after it. *)
(***************************************************************************)
EXTENDS Integers, Sequences, FiniteSets

CONSTANTS
    NameLens,         \* lengths of job names
    NameStarts,       \* subset of {"letter", "digit"}
    NameDots,         \* subset of BOOLEAN: the name holds a '.'
    LauncherReplicas, \* values of launcher replicas (NoObj: nil)
    WorkerReplicas,   \* values of worker replicas (NoObj: nil)
    WorkerSpecs,      \* subset of BOOLEAN: a worker replica spec exists
    RestartPolicies,  \* restart policies of the replica specs
    Containers,       \* container counts of the pod templates
    SlotsValues,      \* slotsPerWorker (NoObj: nil)
    SSHPaths,         \* sshAuthMountPath values
    Implementations,  \* mpiImplementation values
    CleanPolicies,    \* cleanPodPolicy values (NoObj: nil)
    OptionalInts,     \* ttlSecondsAfterFinished/activeDeadline/backoffLimit
    ManagedBys,       \* runPolicy.managedBy (NoObj: nil)
    MaxEdits,         \* bound on user edits
    NoObj

KubeflowJobController == "kubeflow.org/mpi-operator"
MultiKueueController  == "kueue.x-k8s.io/multikueue"

(***************************************************************************)
(* The stored job.                                                         *)
(***************************************************************************)
ReplicaSpecs(R) == [replicas: R, restart: RestartPolicies, containers: Containers]

Specs ==
    [name: [len: NameLens, start: NameStarts, dot: NameDots],
     launcher: ReplicaSpecs(LauncherReplicas) \cup {NoObj},
     worker: (IF TRUE \in WorkerSpecs THEN ReplicaSpecs(WorkerReplicas) ELSE {})
             \cup (IF FALSE \in WorkerSpecs THEN {NoObj} ELSE {}),
     slots: SlotsValues, sshPath: SSHPaths, impl: Implementations,
     clean: CleanPolicies, ttl: OptionalInts, deadline: OptionalInts,
     backoff: OptionalInts, managedBy: ManagedBys, deleting: BOOLEAN]

VARIABLES
    job,      \* the GroupJob in the cache (its spec and deletionTimestamp)
    queued,   \* the job's key waits in the work queue
    verdict,  \* what the last pass did: "none", "skip", "reject", "proceed"
    edits     \* user edits so far

vars == <<job, queued, verdict, edits>>

(***************************************************************************)
(* validation.go.  Each validator gives the set of field paths it reports. *)
(***************************************************************************)
validRestartPolicies    == {"Never", "OnFailure"}
validCleanPolicies      == {"None", "Running", "All"}
validMPIImplementations == {"OpenMPI", "Intel", "MPICH"}
validManagedBy          == {MultiKueueController, KubeflowJobController}

\* apimachinery IsDNS1035Label on <name>-worker-<index>: at most 63
\* bytes, a letter first, only letters, digits and '-'.
RECURSIVE digits(_)
digits(n) == IF n < 10 THEN 1 ELSE 1 + digits(n \div 10)

workerHostname(j, i) == [len |-> j.name.len + 8 + digits(i),
                         start |-> j.name.start, dot |-> j.name.dot]

IsDNS1035Label(h) == h.len <= 63 /\ h.start = "letter" /\ ~h.dot

\* the worker count validateGroupJobName assumes: 1 unless set above 0
nameReplicas(j) ==
    IF j.worker # NoObj /\ j.worker.replicas # NoObj /\ j.worker.replicas > 0
    THEN j.worker.replicas ELSE 1

\* variant: the first worker's hostname checked instead of the last one
validateGroupJobNameFirst(j) ==
    IF IsDNS1035Label(workerHostname(j, 0)) THEN {} ELSE {"metadata.name"}

validateGroupJobName(j) ==
    IF IsDNS1035Label(workerHostname(j, nameReplicas(j) - 1))
    THEN {} ELSE {"metadata.name"}

NonNegative(v, path) == IF v # NoObj /\ v < 0 THEN {path} ELSE {}

validateReplicaSpec(r, path) ==
    (IF r.replicas = NoObj THEN {path \o ".replicas"} ELSE {})
    \cup (IF r.restart \notin validRestartPolicies THEN {path \o ".restartPolicy"} ELSE {})
    \cup (IF r.containers = 0 THEN {path \o ".template.spec.containers"} ELSE {})

validateLauncherReplicaSpec(r) ==
    IF r = NoObj THEN {"launcher"}
    ELSE validateReplicaSpec(r, "launcher")
         \cup (IF r.replicas # NoObj /\ r.replicas # 1 THEN {"launcher.replicas"} ELSE {})

validateWorkerReplicaSpec(r) ==
    IF r = NoObj THEN {}
    ELSE validateReplicaSpec(r, "worker")
         \cup (IF r.replicas # NoObj /\ r.replicas <= 0 THEN {"worker.replicas"} ELSE {})

validateRunPolicy(j) ==
    (IF j.clean = NoObj \/ j.clean \notin validCleanPolicies THEN {"cleanPodPolicy"} ELSE {})
    \cup NonNegative(j.ttl, "ttlSecondsAfterFinished")
    \cup NonNegative(j.deadline, "activeDeadlineSeconds")
    \cup NonNegative(j.backoff, "backoffLimit")
    \cup (IF j.managedBy # NoObj /\ j.managedBy \notin validManagedBy THEN {"managedBy"} ELSE {})

validateGroupJobSpec(j) ==
    validateLauncherReplicaSpec(j.launcher) \cup validateWorkerReplicaSpec(j.worker)
    \cup (IF j.slots = NoObj THEN {"slotsPerWorker"} ELSE NonNegative(j.slots, "slotsPerWorker"))
    \cup validateRunPolicy(j)
    \cup (IF j.sshPath = "" THEN {"sshAuthMountPath"} ELSE {})
    \cup (IF j.impl \notin validMPIImplementations THEN {"mpiImplementation"} ELSE {})

ValidateGroupJob(j) == validateGroupJobName(j) \cup validateGroupJobSpec(j)

\* managedByExternalController
managedByExternalController(m) == m # NoObj /\ m # KubeflowJobController

workerReplicas(j) ==
    IF j.worker # NoObj /\ j.worker.replicas # NoObj THEN j.worker.replicas ELSE 0

Init ==
    /\ job \in Specs
    /\ queued = TRUE          \* the add event of the job
    /\ verdict = "none"
    /\ edits = 0

(***************************************************************************)
(* syncHandler up to the validation: skip a job managed by another         *)
(* controller, then one being deleted, then reject an invalid one (event,  *)
(* return nil: no requeue); otherwise the pass goes on.                    *)
(***************************************************************************)
SyncAdmission ==
    /\ queued
    /\ queued' = FALSE
    /\ verdict' = CASE managedByExternalController(job.managedBy) -> "skip"
                    [] job.deleting                                -> "skip"
                    [] ValidateGroupJob(job) # {}                  -> "reject"
                    [] OTHER                                       -> "proceed"
    /\ UNCHANGED <<job, edits>>

(***************************************************************************)
(* Users: an edit of the mutable fields, or the deletion (which sets the   *)
(* deletionTimestamp); each is an update event that queues the key.        *)
(***************************************************************************)
Edit(j) ==
    /\ edits < MaxEdits /\ ~job.deleting /\ j # job
    /\ job' = j /\ queued' = TRUE /\ edits' = edits + 1
    /\ UNCHANGED verdict

UserScale(r) == job.worker # NoObj /\ Edit([job EXCEPT !.worker.replicas = r])

UserManagedBy(m) == Edit([job EXCEPT !.managedBy = m])

UserDelete == Edit([job EXCEPT !.deleting = TRUE])

Next ==
    \/ SyncAdmission
    \/ \E r \in WorkerReplicas : UserScale(r)
    \/ \E m \in ManagedBys : UserManagedBy(m)
    \/ UserDelete

Spec == Init /\ [][Next]_vars /\ WF_vars(SyncAdmission)

(***************************************************************************)
(* Properties.                                                             *)
(***************************************************************************)
TypeOK ==
    /\ job \in Specs
    /\ queued \in BOOLEAN
    /\ verdict \in {"none", "skip", "reject", "proceed"}
    /\ edits \in 0 .. MaxEdits

\* A pass lets a job through validation only if the names it will create
\* from it are DNS-1035 labels: the Service <name> and every worker pod
\* <name>-worker-0 .. <name>-worker-(replicas-1), whose hostnames these are
\* (validateGroupJobName checks the longest one only).
AdmittedNamesAreLabels ==
    (verdict = "proceed" /\ ~queued) =>
        /\ IsDNS1035Label(job.name)
        /\ \A i \in 0 .. workerReplicas(job) - 1 :
              IsDNS1035Label(workerHostname(job, i))

====


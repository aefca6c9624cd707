--------------------------- MODULE ConfigMapSync ---------------------------
(***************************************************************************)
(* The ConfigMap <job>-config of one GroupJob and its two entries, as      *)
(* kept by getOrCreateConfigMap in pkg/controller/mpi_job_controller.go:   *)
(*                                                                         *)
(*  - hostfile: built by newConfigMap from the worker replica count: the   *)
(*    launcher when it runs as a worker, then <job>-worker-0 .. R-1;       *)
(*  - discover_hosts.sh: built by updateDiscoverHostsInConfigMap from the  *)
(*    Running pods the worker selector lists in the pod cache, sorted by   *)
(*    name.                                                                *)
(*                                                                         *)
(* Store, caches and work queue are those of GroupJobController, reduced   *)
(* to the objects this step reads; creating and deleting worker pods (the  *)
(* worker step of the same pass) and the kubelet are the environment.      *)
(*                                                                         *)
(* Names are byte strings compared as Go compares strings.  All names      *)
(* share the prefix "<job>-", so a name is kept from the first byte after  *)
(* it: "launcher" as 'l' and "worker-<i>" as 'w' followed by the decimal   *)
(* digits of i; this keeps the order of every pair of names.  The          *)
(* per-implementation line syntax (" slots=N", ":N", "echo ") and the      *)
(* service domain are the same on every line and are left out.            *)
(***************************************************************************)
EXTENDS Integers, Sequences, SequencesExt, FiniteSets

CONSTANTS
    MaxReplicas,          \* largest worker replica count a user may set
    InitReplicas,         \* replicas of the job as created
    RunLauncherAsWorker,  \* spec.runLauncherAsWorker
    ForeignPods,          \* worker names held by Running pods that carry
                          \* the worker labels but another owner
    ForeignConfigMap,     \* set of possible initial flags: <job>-config
                          \* exists and is owned by someone else
    MaxEnvOps,            \* bound on pod and replica changes
    NoObj                 \* model value: object absent

PodIdx == 0 .. MaxReplicas - 1

ASSUME /\ MaxReplicas \in Nat \ {0}
       /\ InitReplicas \in 1 .. MaxReplicas
       /\ RunLauncherAsWorker \in BOOLEAN
       /\ ForeignPods \subseteq PodIdx
       /\ ForeignConfigMap \subseteq BOOLEAN /\ ForeignConfigMap # {}
       /\ MaxEnvOps \in Nat

VARIABLES
    replicas, pods, cm,       \* store: worker replicas, pods, the ConfigMap
    replicasC, podsC, cmC,    \* informer caches of them
    dirty,                    \* the job's key is queued
    envOps                    \* environment steps taken

vars == <<replicas, pods, cm, replicasC, podsC, cmC, dirty, envOps>>

Phases == {"Pending", "Running", "Failed"}
PodRec == [owner: {"self", "foreign"}, phase: Phases]

(***************************************************************************)
(* Names and their order.                                                  *)
(***************************************************************************)
\* fmt's %d: the decimal digits of n as bytes '0'..'9'.
RECURSIVE Itoa(_)
Itoa(n) == IF n < 10 THEN <<48 + n>>
           ELSE Itoa(n \div 10) \o <<48 + (n % 10)>>

launcherName == <<108>>

\* workerName: <job>-worker-<index>.
workerName(i) == <<119>> \o Itoa(i)

\* Go's a < b on strings: byte-wise, a proper prefix first.
RECURSIVE StrLess(_, _)
StrLess(a, b) ==
    IF b = <<>> THEN FALSE
    ELSE IF a = <<>> THEN TRUE
    ELSE IF Head(a) # Head(b) THEN Head(a) < Head(b)
    ELSE StrLess(Tail(a), Tail(b))

(***************************************************************************)
(* The content builders.                                                   *)
(***************************************************************************)
launcherHost == IF RunLauncherAsWorker THEN <<launcherName>> ELSE <<>>

\* newConfigMap: the hostfile lists the replicas in index order.
newConfigMap(R) ==
    [owner |-> "self",
     hostfile |-> launcherHost \o [k \in 1 .. R |-> workerName(k - 1)],
     discover |-> <<>>]

\* getRunningWorkerPods: the selector is on labels only, so every Running
\* pod named like a worker is listed, whoever owns it.
getRunningWorkerPods(pl) == {i \in PodIdx : pl[i] # NoObj /\ pl[i].phase = "Running"}

updateDiscoverHostsInConfigMapUnsorted(c, list) ==
    [c EXCEPT !.discover = launcherHost \o list]

\* updateDiscoverHostsInConfigMap: sort.Slice of the listed pods by name.
updateDiscoverHostsInConfigMap(c, list) ==
    [c EXCEPT !.discover = launcherHost \o SortSeq(list, StrLess)]

\* The content getOrCreateConfigMap computes from the caches; the lister
\* returns the pods in no particular order.
DesiredFrom(R, list) ==
    updateDiscoverHostsInConfigMap(newConfigMap(R), list)

ListOrders(pl) ==
    {[k \in DOMAIN s |-> workerName(s[k])] : s \in SetToSeqs(getRunningWorkerPods(pl))}


\* metav1.IsControlledBy(cm, mpiJob)
controlledBy(c) == c.owner = "self"

dataEqualHostfileOnly(a, b) == a.hostfile = b.hostfile

\* equality.Semantic.DeepEqual(cm.Data, newCM.Data)
dataEqual(a, b) == a.hostfile = b.hostfile /\ a.discover = b.discover

ForeignCM == [owner |-> "foreign", hostfile |-> <<>>, discover |-> <<>>]

Init ==
    /\ replicas = InitReplicas
    /\ pods = [i \in PodIdx |-> IF i \in ForeignPods
                                THEN [owner |-> "foreign", phase |-> "Running"]
                                ELSE NoObj]
    /\ cm \in {IF f THEN ForeignCM ELSE NoObj : f \in ForeignConfigMap}
    \* the informers have synced before the workers start (Run)
    /\ replicasC = replicas /\ podsC = pods /\ cmC = cm
    /\ dirty = TRUE
    /\ envOps = 0

(***************************************************************************)
(* The controller: getOrCreateConfigMap in a pass of the job's key.  A     *)
(* pass that returns an error re-adds the key; one that gets past the      *)
(* ConfigMap is taken to finish (the other steps are GroupJobController's).*)
(* The Update is sent with the cached object's resourceVersion and is      *)
(* rejected when the store has moved on.                                   *)
(***************************************************************************)
Fail == UNCHANGED cm /\ dirty' = TRUE

SyncConfigMap ==
    /\ dirty
    /\ \E list \in ListOrders(podsC) :
         LET newCM == DesiredFrom(replicasC, list) IN
         \/ /\ cmC = NoObj
            /\ IF cm = NoObj THEN cm' = newCM /\ dirty' = FALSE
                             ELSE Fail                    \* AlreadyExists
         \/ /\ cmC # NoObj /\ ~controlledBy(cmC)
            /\ Fail                                       \* ErrResourceExists
         \/ /\ cmC # NoObj /\ controlledBy(cmC) /\ dataEqual(cmC, newCM)
            /\ UNCHANGED cm /\ dirty' = FALSE
         \/ /\ cmC # NoObj /\ controlledBy(cmC) /\ ~dataEqual(cmC, newCM)
            /\ IF cm = cmC THEN cm' = [cmC EXCEPT !.hostfile = newCM.hostfile,
                                                  !.discover = newCM.discover]
                               /\ dirty' = FALSE
                           ELSE Fail                      \* Conflict
    /\ UNCHANGED <<replicas, pods, replicasC, podsC, cmC, envOps>>

(***************************************************************************)
(* Informers: each refreshes its cache and routes the change to the job's  *)
(* key (handleObject / handleObjectUpdate): pods and ConfigMaps only when  *)
(* the job controls them, the GroupJob always.                             *)
(***************************************************************************)
JobInformer ==
    /\ replicasC # replicas
    /\ replicasC' = replicas /\ dirty' = TRUE
    /\ UNCHANGED <<replicas, pods, cm, podsC, cmC, envOps>>

PodInformer(i) ==
    /\ podsC[i] # pods[i]
    /\ podsC' = [podsC EXCEPT ![i] = pods[i]]
    /\ LET o == IF pods[i] # NoObj THEN pods[i] ELSE podsC[i]
       IN  dirty' = (dirty \/ o.owner = "self")
    /\ UNCHANGED <<replicas, pods, cm, replicasC, cmC, envOps>>

ConfigMapInformer ==
    /\ cmC # cm
    /\ cmC' = cm
    /\ LET o == IF cm # NoObj THEN cm ELSE cmC
       IN  dirty' = (dirty \/ controlledBy(o))
    /\ UNCHANGED <<replicas, pods, cm, replicasC, podsC, envOps>>

(***************************************************************************)
(* Environment: a user scaling the workers, the worker step creating and   *)
(* deleting worker pods to match, the kubelet running and failing them.    *)
(***************************************************************************)
EnvStep == envOps < MaxEnvOps /\ envOps' = envOps + 1
EnvUnchanged == UNCHANGED <<cm, replicasC, podsC, cmC, dirty>>

UserScale(r) ==
    /\ EnvStep /\ r # replicas /\ replicas' = r
    /\ UNCHANGED pods /\ EnvUnchanged

SelfPod(i) == pods[i] # NoObj /\ pods[i].owner = "self"

WorkerCreated(i) ==
    /\ EnvStep /\ i < replicas /\ pods[i] = NoObj
    /\ pods' = [pods EXCEPT ![i] = [owner |-> "self", phase |-> "Pending"]]
    /\ UNCHANGED replicas /\ EnvUnchanged

WorkerDeleted(i) ==
    /\ EnvStep /\ i >= replicas /\ SelfPod(i)
    /\ pods' = [pods EXCEPT ![i] = NoObj]
    /\ UNCHANGED replicas /\ EnvUnchanged

PodPhase(i, from, to) ==
    /\ EnvStep /\ SelfPod(i) /\ pods[i].phase = from
    /\ pods' = [pods EXCEPT ![i].phase = to]
    /\ UNCHANGED replicas /\ EnvUnchanged

Environment ==
    \/ \E r \in 1 .. MaxReplicas : UserScale(r)
    \/ \E i \in PodIdx : \/ WorkerCreated(i) \/ WorkerDeleted(i)
                         \/ PodPhase(i, "Pending", "Running")
                         \/ PodPhase(i, "Running", "Failed")

Informer == JobInformer \/ ConfigMapInformer \/ \E i \in PodIdx : PodInformer(i)

Next == SyncConfigMap \/ Informer \/ Environment

Fairness ==
    /\ WF_vars(SyncConfigMap)
    /\ WF_vars(JobInformer) /\ WF_vars(ConfigMapInformer)
    /\ \A i \in PodIdx : WF_vars(PodInformer(i))

Spec == Init /\ [][Next]_vars /\ Fairness

(***************************************************************************)
(* Properties.                                                             *)
(***************************************************************************)
CMRec == [owner: {"self", "foreign"}, hostfile: Seq(Seq(0 .. 127)),
          discover: Seq(Seq(0 .. 127))]

TypeOK ==
    /\ replicas \in 1 .. MaxReplicas /\ replicasC \in 1 .. MaxReplicas
    /\ pods \in [PodIdx -> PodRec \cup {NoObj}]
    /\ podsC \in [PodIdx -> PodRec \cup {NoObj}]
    /\ cm \in CMRec \cup {NoObj} /\ cmC \in CMRec \cup {NoObj}
    /\ dirty \in BOOLEAN /\ envOps \in 0 .. MaxEnvOps

OwnedCM == cm # NoObj /\ cm.owner = "self"

\* Strictly increasing in Go's string order.
StrSorted(s) == \A k \in 1 .. Len(s) - 1 : StrLess(s[k], s[k + 1])

\* The content the store's state calls for (the sort makes it the same for
\* every listing order).
Desired == DesiredFrom(replicas, SetToSortSeq(
               {workerName(i) : i \in getRunningWorkerPods(pods)}, StrLess))

\* discover_hosts.sh, whatever order the pod lister returned the Running
\* pods in, lists its hosts in increasing name order, each once, so the
\* file does not change while the set of Running pods does not
\* (updateDiscoverHostsInConfigMap's sort.Slice).
DiscoverHostsSorted == OwnedCM => StrSorted(cm.discover)

\* Once users and pods stop changing, the ConfigMap comes to exist and to
\* hold the hostfile of the current replica count and the discover_hosts.sh
\* of the pods Running now, and keeps it: no pod event, stale cache or
\* rejected Create or Update leaves the file behind for good.  A ConfigMap
\* of that name the job does not control is left as it is.
ConfigMapConverges ==
    <>[](cm = Desired \/ cm = ForeignCM)

====


# TLA+ models of the GroupJob controller

This directory models the reconciliation engine in
`src/pkg/controller/mpi_job_controller.go`, the `GroupJob` controller of
this fork of mpi-operator, and checks it with TLC. The model covers one
GroupJob with its launcher Job, its worker pods, a PodGroup and its
Service/ConfigMap/Secret. It runs against a cluster store and against the
controller's lagging informer caches of that store. Two smaller modules look
closer at parts the engine model abstracts: the admission of a job
(`ValidateGroupJob` in `src/pkg/apis/kubeflow/validation/validation.go` and
the early returns of `syncHandler`), and the content of the ConfigMap
(hostfile and `discover_hosts.sh`). An abstract module states what the stored
status promises, and the engine is shown to implement it.

## 1. Inventory of the system

### Components

| Part | Source | State | Operations |
|---|---|---|---|
| Work queue | `processNextWorkItem`, `runWorker` (491-546) | per key: dirty, processing | Get, Done, Forget, AddRateLimited on error |
| Event routing | informer handlers (376-445), `addGroupJob`/`enqueueGroupJob` (1175-1194), `handleObject`/`handleObjectUpdate` (1201-1268) | one lister per kind | a cache catches up; the owning job is enqueued if it is cached; the launcher pod is routed through its cached Job |
| Sync engine | `syncHandler` (553-701) with `getLauncherJob`, `getOrCreateService/ConfigMap/SSHAuthSecret/PodGroups/Worker`, `cleanUpWorkerPods`, `deleteWorkerPods`, `deletePodGroups` | the job copy, locals `launcher` and `worker` | create, update and delete of dependents, launcher creation, launcher suspend alignment, clean-up |
| Status state machine | `updateGroupJobStatus` (1053-1139), `updateGroupJobFailedStatus`; `setCondition`/`isFinished` live outside `src/` | conditions Created, Suspended, Running, Succeeded, Failed; startTime; completionTime | recomputed each pass, written only if changed, with a resourceVersion check |
| Gang scheduling | `getOrCreatePodGroups`, `deletePodGroups`; the backends are outside `src/` | PodGroup | created while running; deleted on suspend and clean-up |
| Object builders | `newWorker`, `newLauncherJob`, `newConfigMap` (1278-1319), `updateDiscoverHostsInConfigMap` (1322-1342), `newSSHAuthSecret`, ... | - | pure |
| Validation | `validation.go` (29-161), with the admission early returns of `syncHandler` (582-597) | - | pure; decides whether a pass goes on |
| Registration, apply configurations | `register.go`, `applyconfiguration/` | - | generated or static |

### How the parts interact

- Users edit the job's spec: suspend, and worker replicas.
- The kubelet runs the worker pods, marks them Ready, and fails or evicts them.
- The Job controller runs the launcher's pod and records Complete or Failed. The TTL controller may then delete the finished launcher.
- Each change reaches the controller through an informer. The informer refreshes its cache and enqueues the job's key.
- The worker takes the key and runs one `syncHandler` pass. The pass reads only caches and writes to the store.

Two consequences follow:

- Every decision of a pass may rest on state that is out of date.
- Every write may fail with AlreadyExists or NotFound, or be rejected on a stale resourceVersion.

### Hard behaviours, at the lines where they bite

`PROJECT.json` lists each one under `hazards`:

- **Stale caches.** Examples: AlreadyExists when creating a worker the cache does not show yet (976-985); the launcher being created a second time (663-665); Running being decided from a stale launcher-pod cache (1128).
- **Partial failures.** Examples: the created counter being counted before the write (605); the success and failure counters (1088, 1171).
- **Ordering.** Status writes from a stale job copy (1136, guarded by the resourceVersion check).
- **Protocol sequences.** Examples: suspend, scale and resume in a row (657-691, 1021); the wait-for-workers gate, which is bypassed on resume (664, 680).
- **Off-by-one and ownership in scale-down.** See lines 957-973.
- **Index-label edge.** A worker-labelled pod without the index label ends `getOrCreateWorker` with nil, nil (961).
- **ConfigMap content.** The pod list comes in any order and is sorted by name (1324); the hostfile is in index order (1294); the selector matches pods of any owner (805); the update uses the cached resourceVersion (864). The last is checked in the engine model by `ConfigMapFollowsWorkers`, on the job's own pods. Running pods of another owner are listed too, against the doc comment at 799, and `handleObject` drops their events (1244), so the ConfigMap may keep a stale entry for one of them; no listed run checks that.
- **Ownership conflicts.** A Secret of another owner fails every pass after the Service and ConfigMap were written (911). Its deletion is not routed to the job, so only the requeue of the failed pass recovers.
- **Name length.** Only the last worker's hostname is checked against the 63-byte limit (validation.go 63).
- **Liveness.** Suspended workers must be released, workers must converge, and a completed job must be cleaned up.

## 2. Modules

| Module | What it is |
|---|---|
| `GroupJobController.tla` | The whole engine for one job. It contains the store, the caches, the queue, the pass split into steps, the informers and the environment, with the properties of the engine. |
| `MCGroupJobController.tla` | Instantiation for TLC: the sets given to the set-valued constants. |
| `JobLifecycle.tla` | Abstract: what the stored status promises (Created first, outcomes that stay, completionTime only with an outcome and final). `GroupJobController` instantiates it with a refinement mapping of `job.status` and checks `ImplementsLifecycle`. |
| `JobAdmission.tla`, `MCJobAdmission.tla` | `ValidateGroupJob` and the skip/reject/proceed decision of `syncHandler`, under user edits of replicas, managedBy and deletion. |
| `ConfigMapSync.tla`, `MCConfigMapSync.tla` | `getOrCreateConfigMap` with `newConfigMap`, `getRunningWorkerPods` and `updateDiscoverHostsInConfigMap`, against a pod and ConfigMap cache, with worker creation, deletion and phase changes. |

### JobAdmission

State: `job` (a record of the spec fields validation reads, plus the
deletion flag), `queued`, `verdict` (what the last pass decided) and `edits`.
The validators are set-valued operators named after the Go functions; each
returns the set of field paths it would report. `SyncAdmission` is
`syncHandler` lines 582-597: skip when `managedByExternalController`, skip
when deleting, reject (event, no requeue) when `ValidateGroupJob` is not
empty, else proceed. `Edit` is the job informer's update handler: every
edit queues the key. The name is abstracted to what `IsDNS1035Label` looks
at: its length, whether it starts with a letter, whether it holds a dot (the
API server admits it as a DNS subdomain already); `workerHostname` adds
`-worker-` and the decimal digits of the index (`digits`, RECURSIVE).

### ConfigMapSync

State: the store (`replicas`, `pods`, `cm`), the caches (`replicasC`,
`podsC`, `cmC`), the queue bit `dirty`, and a bound `envOps`. Host names are
byte sequences (`launcherName`, `workerName(i)` built by the RECURSIVE
`Itoa`), compared byte-wise by `StrLess` as Go compares strings; the
namespace, service suffix and slots are left out because they are equal for
every host of a job. `SyncConfigMap` is one `getOrCreateConfigMap` call:
create (or AlreadyExists), foreign owner (error), equal data (done), or an
update that conflicts when the cache is stale. `ListOrders` gives every
order the lister may return the running pods in, and the pass picks one.


### State

| Variables | Meaning |
|---|---|
| `job, launcher, lpod, pods, pg, deps` | What the store holds. `lpod` is "the launcher's pod is Running". `pods[i]` is the pod named `<job>-worker-i`. |
| `jobC, launcherC, lpodC, podsC, pgC, depsC` | The listers. |
| `dirty, processing` | The work queue for the job's key. |
| `pc, snap, st, lLocal, wLocal` | The pass in progress: its step, the job copy, the status being built, and the locals `launcher` and `worker`. |
| `created, succeeded, failed, launcherCreates` | History: the Prometheus counters and the launcher creations. |
| `userOps, errs` | Bounds on user edits and on failed API calls. |

### Actions and the code they model

The map in `PROJECT.json` gives the exact line ranges.

- **`SyncBegin`** models `syncHandler` up to `getLauncherJob`:
  - the Created condition and its counter;
  - the startTime stamp;
  - the launcher lookup, whose conflict error ends the pass.
- **`SyncFinishedJob` and `SyncCleanup`** model the finished branch: `cleanUpWorkerPods`, then the unconditional status write.
- **`SyncDeps`** models the Service, ConfigMap and Secret get-or-create, in order, followed by `getOrCreatePodGroups`, which creates a PodGroup only when its lister has none (AlreadyExists when the store has one) and otherwise returns the cached one. A dependent holds `DepData`:
  - the ConfigMap holds the hostfile's worker count and the set of workers `discover_hosts.sh` lists. `newDepData` builds it from the snapshot's replicas and `getRunningWorkerPods` of the pod cache.
  - An existing ConfigMap whose data differs (`depUpToDate`) is updated. The update conflicts when the cached copy is stale, and the pass ends with an error.
  - The Service selector and the Secret keys depend only on the job's name, so they are never updated.
  - A dependent of another owner (`ForeignDeps`, `ForeignDep`) fails the `IsControlledBy` check (`depControlledBy`). The pass ends with an error and leaves that dependent alone; the dependents before it have already been written.
- **`SyncWorkers`** models `getOrCreateWorker`. The surplus delete is by label; a listed pod without the index label ends the function with no workers and no error (`UnlabelledPods`). After it comes the create loop, which ends at the first AlreadyExists or pod of another owner.
- **`SyncLauncher`** models launcher creation under the creation policy.
- **`SyncAlign`** models the suspend alignment, an Update that may conflict.
- **`SyncSuspend`** models the clean-up of a suspended job.
- **`SyncStatus`** models `updateGroupJobStatus`, with `updateGroupJobFailedStatus` for a failed launcher, and the counters they increment.
- **`SyncFails`**: any write of the current step fails transiently. The pass returns an error and the key is re-added.
- **Informers**: `JobInformer`, `LauncherInformer`, `LauncherPodInformer`, `PodInformer(i)`, `PodGroupInformer`, `DepInformer(k)`. `DepInformer` routes a change to the job only for a dependent the job controls (`DepOwned`, from `handleObject`), so the deletion of a dependent of another owner does not enqueue the job.
- **Environment**: `UserSuspend`, `UserScale`, `PodRun`, `PodReady`, `PodFail`, `LauncherPodStart`, `LauncherPodStop`, `LauncherFinish`, `LauncherTTLDelete`, `ForeignDepDelete` (a user removes a dependent of another owner, as the spec's ownership-conflict rule expects).

A pass is split at the points where it writes to the store. Between two of its steps, caches, users, the kubelet and the Job controller may all move. The pass still reads every cache at the step where the code reads it.

### Abstractions

- **Objects** are records of the fields the control flow reads: owner, suspend, condition, index label, phase, Ready, evicted.
- **Status** keeps the five conditions. Each condition is "None", "True" or "False". It also keeps a startTime counter, which counts re-stamps, and a completionTime flag.
  - Replica-status counters, reasons and messages are left out.
  - Because of that, a pass that would write only changed counters writes nothing in the model.
- **Dependents** (`DepKinds`) are created in code order.
  - Most runs use only the Service, because the three kinds share one control flow. `core_suspend` uses only the ConfigMap, whose content follows the worker.
  - `foreign_objects` uses all three, with a Secret of another owner present or not when the job is created.
  - Pods of another owner keep their phase: the kubelet actions apply to the job's own pods only. No property of a passing run reads the phase of a foreign pod.
  - The ConfigMap's content is updated as the code does (see `SyncDeps`). The Service selector and the Secret keys are fixed by the job's name, and the PodGroup spec is not modelled.
- **`setCondition` and `isFinished`** live outside `src/`. They are modelled from the spec as `updateGroupJobConditions` and `isFinished`. Setting Succeeded or Failed turns an existing Running condition False.

### Fairness

- `ConfigMapSync` and `JobAdmission` use the same rule: weak fairness on the sync action (and, in `ConfigMapSync`, on each informer), none on users and pods.
- `WF_vars(Controller)`: `runWorker` loops for ever, so a taken key's pass runs to its end, and a dirty key is eventually taken.
- `WF` on every informer: watches deliver their events.
- Users, the kubelet, the Job controller, the TTL controller and failures get no fairness. They may stop at any point.

`CHECK_DEADLOCK FALSE` is set in every config: once the job has converged, the controller is idle and waits for events, which is the system's normal resting state.

## 3. Runs

Each run is `tlc -workers 2 -config <cfg> MC<Module>`; `PROJECT.json` names the module of each.

### Passing runs

| Run | Properties | Shows |
|---|---|---|
| `core_suspend` | `TypeOK`, `SuspendReleasesWorkers`, `LauncherFollowsSuspend`, `StatusTracksSuspend`, `ConfigMapFollowsWorkers` | A job created running or suspended, with one flip of the suspend flag, converges: its worker is released while suspended, the launcher and the Suspended condition follow the flag, and the ConfigMap ends listing the worker exactly when it runs, across update conflicts from a stale cached copy. |
| `wait_scale` | `ScaleDownDeletesOnlySurplus`, `WorkersConverge` | Under WaitForWorkersReady with gang scheduling and a scale-down from two workers to one, scale-down deletes only names at or above the replicas, and the workers converge to exactly 0..replicas-1 through AlreadyExists from lagging caches. |
| `completion` | `CompletionReleasesWorkers` | Under CleanPodPolicy All, a completed job's workers and PodGroup are eventually removed. This holds across one failed API call and the failing delete of a stale PodGroup. |
| `ttl_completion` | `ImplementsLifecycle` | Every status write, including those of passes working from a stale job copy and after the TTL deletes the launcher, is a step of `JobLifecycle`: Created first, outcomes never retracted, completionTime only with an outcome and never changed afterwards. |
| `foreign_objects` | `ForeignObjectsUntouched`, `DependentsRecreated` | A launcher, worker pod or Secret of another owner is never written, also when a pod lacks the index label. When a user deletes the Secret of another owner, the job gets all its dependents: the deletion event never reaches the job, and only the rate-limited requeue of the failed pass brings it back. |

### Violation runs

Each violation run is a finding in `PROJECT.json`.

| Run | Property | What the code does |
|---|---|---|
| `wait_resume` | `LauncherWaitsForReadyWorkers` | A job created suspended gets its launcher at once, because `worker` is nil and 0 == 0. Resuming then starts the launcher before any worker exists. This contradicts spec §8 and the integration test TestGroupJobWaitWorkers. |
| `scale_launcher_worker` | `ScaleDownDeletesOnlySurplus` | With `runLauncherAsWorker`, labels are index+1, so scale-down deletes the last wanted worker. |
| `suspend_after_scale_down` | `SuspendReleasesWorkers` | When a scale-down lands before a suspend, the surplus worker keeps running for as long as the job is suspended: `deleteWorkerPods` walks only 0..replicas-1. |
| `stale_launcher_pod` | `SucceededNeverRunning` | Running True is recorded after Succeeded, from a stale launcher-pod cache and a nil worker slice, and it is never corrected. |
| `created_metric` | `CreatedCountedOnce` | The created counter counts a job again when its first pass fails. |
| `ttl_relaunch` | `LauncherCreatedOnce` | If the TTL removes the launcher before its completion is recorded, a second launcher is created. |
| `foreign_scale_down` | `ForeignObjectsUntouched` | Scale-down deletes a pod of another owner. |

### Configurations of the new modules

`ConfigMapSync` and `JobAdmission` come with one configuration each; they
are not yet among the runs of `PROJECT.json`, and
are run by hand with `tlc -workers 2 -config <cfg> MC<Module>`:

| Config | Properties | Shows |
|---|---|---|
| `cm_converge.cfg` (`MCConfigMapSync`) | `DiscoverHostsSorted`, `ConfigMapConverges` | With up to three workers created, deleted and changing phase, lagging caches and a ConfigMap that may belong to someone else, `discover_hosts.sh` is always sorted and the ConfigMap converges to the content for the current replicas and running pods (or stays the foreign one). About 22 thousand distinct states, a few seconds. |
| `admission_names.cfg` (`MCJobAdmission`) | `AdmittedNamesAreLabels` | With names of length 1, 54 and 55 and worker counts 0, 1, 10 and 11, edited twice, a job lets a pass proceed only if the Service name and every worker hostname are DNS-1035 labels. About 8 thousand distinct states. |

Replacing `updateDiscoverHostsInConfigMap` by a version without the sort,
`dataEqual` by a comparison of the hostfile only, or `validateGroupJobName`
by a check of the first worker's hostname makes TLC find the respective
property violated.

### Bounds, and why they are enough

- **Replicas.** Runs use `MaxReplicas` = 2 where a property is about several workers or scaling: wait_scale and the scale-down runs; `foreign_objects` uses 3, so that two names held by pods of another owner sit beside the job's own. The other runs use 1.
  - Two names are the least that make "surplus", "the last wanted worker" and "a later worker" distinct.
- **User edits.** Each run allows one edit (`MaxUserOps` = 1), or two where the scenario needs scale followed by suspend. Combined with a choice of initial suspend flag, one edit covers both suspend and resume.
- **Failed API calls.** `MaxTransientErrors` = 1 is enough to put every step's error path, and the stale-cache AlreadyExists paths that follow it, in reach.
- **Counters.** The counters saturate at 2, which is all the "counted once" properties need.
- **Environment events.** `LauncherOutcomes` and `PodFailures` bound which events the environment may produce. The suspend-after-scale-down run excludes both, and `foreign_objects` excludes pod failures. Neither a finished launcher nor a failed pod changes what those runs are about. Every other run allows both.
- **ConfigMap.** `MaxReplicas` = 3 with 2 initially and five environment steps: enough for a scale-up, a scale-down and phase changes of two workers between passes, so the lister can return two running pods in either order.
- **Admission.** Name lengths 1, 54 and 55 put the worker hostnames on both sides of 63 bytes (55 + 8 = 63 for index 0..9; 54 + 8 + 2 = 64 for index 10), and replicas 0, 1, 10, 11 cross the nil/zero default and the digit change.
- **Size.** Every passing run finishes in under two and a half minutes, with between 2.5 thousand and 1 million distinct states.

Each property of a passing run has a mutant in `PROJECT.json`: a variant of one mapped definition, defined just before it in the module, of the kind a plausible bug would produce. TLC finds the property violated when the variant replaces the definition.

## 4. Not modelled, and why

- **Admission inside the engine model.** `GroupJobController` assumes a valid, unmanaged job that is not being deleted; `JobAdmission` models those early returns on their own. A job edited from valid to invalid stops being reconciled while its pods stay; checking what that leaves behind needs the two composed, which the engine's state space does not allow at present.
- **Job deletion and owner-reference garbage collection.** Deletion only sets a flag that makes passes skip; the collection of dependents is done by the API server, outside this repository.
- **Updates of the Service selector, the Secret keys and the PodGroup spec.** The selector and the keys follow from the job's name alone, so in a model with one job they never change. The PodGroup spec (scheduler options) is outside the control flow the properties are about.
- **Schema defaulting** (`scheme.Scheme.Default`) is not in the repository; the admission domains are the values a stored job can hold after it.
- **Several workers on different keys.** The queue never hands one key to two workers, and jobs share no state in the core. One job with one key is therefore the unit that matters.
- **Outside the model:** scheme registration and generated apply configurations, SSH key generation (cryptography), events, logging and metric export beyond the counters.

## 5. Plan for later work

1. Compose admission with the engine for a job edited into an invalid one, if a small enough instance exists.
2. The host-name order of `ConfigMapSync` inside the engine, if its state space allows it.
3. Two worker goroutines with distinct keys, to confirm per-key isolation.
4. A liveness property for `JobAdmission`'s skip of a job whose managedBy changes back.

\* Suspend and resume of a job created suspended or running (liveness), with
\* the ConfigMap as the dependent that follows the running worker.
CONSTANTS
    MaxReplicas = 1
    InitReplicas = 1
    InitSuspended <- MC_InitSuspended_any
    LauncherCreationPolicy = "AtStartup"
    CleanPodPolicy = "Running"
    RunLauncherAsWorker = FALSE
    GangScheduling = FALSE
    ForeignLauncher <- MC_Bool_no
    ForeignPods <- MC_ForeignPods_none
    UnlabelledPods <- MC_ForeignPods_none
    ForeignDeps <- MC_ForeignDeps_none
    UserOps <- MC_UserOps_suspend
    MaxUserOps = 1
    TTLDeletesLauncher = FALSE
    MaxTransientErrors = 0
    LauncherOutcomes <- MC_Outcomes_all
    PodFailures <- MC_PodFailures_all
    DepKinds <- MC_DepKinds_cm
    NoObj = NoObj
SPECIFICATION Spec
CHECK_DEADLOCK FALSE
INVARIANT TypeOK
PROPERTIES
    SuspendReleasesWorkers
    LauncherFollowsSuspend
    StatusTracksSuspend
    ConfigMapFollowsWorkers

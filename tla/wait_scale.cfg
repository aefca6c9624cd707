\* WaitForWorkersReady launcher creation while a user scales the workers
\* down, with gang scheduling: only surplus workers are deleted, and the
\* workers converge to the replicas.
CONSTANTS
    MaxReplicas = 2
    InitReplicas = 2
    InitSuspended <- MC_InitSuspended_no
    LauncherCreationPolicy = "WaitForWorkersReady"
    CleanPodPolicy = "Running"
    RunLauncherAsWorker = FALSE
    GangScheduling = TRUE
    ForeignLauncher <- MC_Bool_no
    ForeignPods <- MC_ForeignPods_none
    UnlabelledPods <- MC_ForeignPods_none
    ForeignDeps <- MC_ForeignDeps_none
    UserOps <- MC_UserOps_scale
    MaxUserOps = 1
    TTLDeletesLauncher = FALSE
    MaxTransientErrors = 0
    LauncherOutcomes <- MC_Outcomes_all
    PodFailures <- MC_PodFailures_all
    DepKinds <- MC_DepKinds_one
    NoObj = NoObj
SPECIFICATION Spec
CHECK_DEADLOCK FALSE
PROPERTIES
    ScaleDownDeletesOnlySurplus
    WorkersConverge

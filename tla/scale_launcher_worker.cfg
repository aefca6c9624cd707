\* Scale-down of a job that runs the launcher as a worker.
CONSTANTS
    MaxReplicas = 2
    InitReplicas = 2
    InitSuspended <- MC_InitSuspended_no
    LauncherCreationPolicy = "AtStartup"
    CleanPodPolicy = "Running"
    RunLauncherAsWorker = TRUE
    GangScheduling = FALSE
    ForeignLauncher <- MC_Bool_no
    ForeignPods <- MC_ForeignPods_none
    UnlabelledPods <- MC_ForeignPods_none
    ForeignDeps <- MC_ForeignDeps_none
    UserOps <- MC_UserOps_scale
    MaxUserOps = 1
    TTLDeletesLauncher = FALSE
    MaxTransientErrors = 0
    LauncherOutcomes <- MC_Outcomes_all
    PodFailures <- MC_PodFailures_all
    DepKinds <- MC_DepKinds_one
    NoObj = NoObj
SPECIFICATION Spec
CHECK_DEADLOCK FALSE
PROPERTIES
    ScaleDownDeletesOnlySurplus

\* A running job scaled down and then suspended before a pass sees it.
CONSTANTS
    MaxReplicas = 2
    InitReplicas = 2
    InitSuspended <- MC_InitSuspended_no
    LauncherCreationPolicy = "AtStartup"
    CleanPodPolicy = "Running"
    RunLauncherAsWorker = FALSE
    GangScheduling = FALSE
    ForeignLauncher <- MC_Bool_no
    ForeignPods <- MC_ForeignPods_none
    UnlabelledPods <- MC_ForeignPods_none
    ForeignDeps <- MC_ForeignDeps_none
    UserOps <- MC_UserOps_both
    MaxUserOps = 2
    TTLDeletesLauncher = FALSE
    MaxTransientErrors = 0
    LauncherOutcomes <- MC_Outcomes_none
    PodFailures <- MC_PodFailures_none
    DepKinds <- MC_DepKinds_one
    NoObj = NoObj
SPECIFICATION Spec
CHECK_DEADLOCK FALSE
PROPERTIES
    SuspendReleasesWorkers

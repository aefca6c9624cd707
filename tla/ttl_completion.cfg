\* A job run to completion whose launcher Job is deleted by the TTL
\* controller once finished, so that later passes may find no launcher.
CONSTANTS
    MaxReplicas = 1
    InitReplicas = 1
    InitSuspended <- MC_InitSuspended_no
    LauncherCreationPolicy = "AtStartup"
    CleanPodPolicy = "Running"
    RunLauncherAsWorker = FALSE
    GangScheduling = FALSE
    ForeignLauncher <- MC_Bool_no
    ForeignPods <- MC_ForeignPods_none
    UnlabelledPods <- MC_ForeignPods_none
    ForeignDeps <- MC_ForeignDeps_none
    UserOps <- MC_UserOps_none
    MaxUserOps = 0
    TTLDeletesLauncher = TRUE
    MaxTransientErrors = 0
    LauncherOutcomes <- MC_Outcomes_all
    PodFailures <- MC_PodFailures_all
    DepKinds <- MC_DepKinds_one
    NoObj = NoObj
SPECIFICATION Spec
CHECK_DEADLOCK FALSE
PROPERTIES
    ImplementsLifecycle

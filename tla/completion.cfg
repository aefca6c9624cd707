\* A job run to completion with gang scheduling and clean-up of all pods,
\* across a failed API call.
CONSTANTS
    MaxReplicas = 1
    InitReplicas = 1
    InitSuspended <- MC_InitSuspended_no
    LauncherCreationPolicy = "AtStartup"
    CleanPodPolicy = "All"
    RunLauncherAsWorker = FALSE
    GangScheduling = TRUE
    ForeignLauncher <- MC_Bool_no
    ForeignPods <- MC_ForeignPods_none
    UnlabelledPods <- MC_ForeignPods_none
    ForeignDeps <- MC_ForeignDeps_none
    UserOps <- MC_UserOps_none
    MaxUserOps = 0
    TTLDeletesLauncher = FALSE
    MaxTransientErrors = 1
    LauncherOutcomes <- MC_Outcomes_all
    PodFailures <- MC_PodFailures_all
    DepKinds <- MC_DepKinds_one
    NoObj = NoObj
SPECIFICATION Spec
CHECK_DEADLOCK FALSE
PROPERTIES
    CompletionReleasesWorkers

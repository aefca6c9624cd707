\* A pod of another owner carries the name and labels of a worker the job scales away.
CONSTANTS
    MaxReplicas = 2
    InitReplicas = 2
    InitSuspended <- MC_InitSuspended_no
    LauncherCreationPolicy = "AtStartup"
    CleanPodPolicy = "Running"
    RunLauncherAsWorker = FALSE
    GangScheduling = FALSE
    ForeignLauncher <- MC_Bool_no
    ForeignPods <- MC_ForeignPods_last
    UnlabelledPods <- MC_ForeignPods_none
    ForeignDeps <- MC_ForeignDeps_none
    UserOps <- MC_UserOps_scale
    MaxUserOps = 1
    TTLDeletesLauncher = FALSE
    MaxTransientErrors = 0
    LauncherOutcomes <- MC_Outcomes_all
    PodFailures <- MC_PodFailures_all
    DepKinds <- MC_DepKinds_one
    NoObj = NoObj
SPECIFICATION Spec
CHECK_DEADLOCK FALSE
PROPERTIES
    ForeignObjectsUntouched

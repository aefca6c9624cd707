\* A launcher Job or worker pods of another owner already exist, one of
\* them without a replica-index label, while users suspend and resume the
\* job; finished pods are kept.  A Secret of another owner may exist until
\* a user deletes it; the job must then get its own.
CONSTANTS
    MaxReplicas = 3
    InitReplicas = 2
    InitSuspended <- MC_InitSuspended_no
    LauncherCreationPolicy = "AtStartup"
    CleanPodPolicy = "None"
    RunLauncherAsWorker = FALSE
    GangScheduling = FALSE
    ForeignLauncher <- MC_Bool_any
    ForeignPods <- MC_ForeignPods_two
    UnlabelledPods <- MC_ForeignPods_last
    ForeignDeps <- MC_ForeignDeps_secret
    UserOps <- MC_UserOps_suspend
    MaxUserOps = 1
    TTLDeletesLauncher = FALSE
    MaxTransientErrors = 1
    LauncherOutcomes <- MC_Outcomes_all
    PodFailures <- MC_PodFailures_none
    DepKinds <- MC_DepKinds_all
    NoObj = NoObj
SPECIFICATION Spec
CHECK_DEADLOCK FALSE
PROPERTIES
    ForeignObjectsUntouched
    DependentsRecreated

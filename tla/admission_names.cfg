\* Job names near the DNS label limit with worker counts near ten, edits of
\* the replicas and of managedBy, and deletion.
CONSTANTS
    NameLens <- MC_NameLens_edge
    NameStarts <- MC_Starts_any
    NameDots <- MC_Bool_any
    LauncherReplicas <- MC_Launchers_one
    WorkerReplicas <- MC_Workers_edge
    WorkerSpecs <- MC_Bool_any
    RestartPolicies <- MC_Restart_never
    Containers <- MC_Containers_one
    SlotsValues <- MC_Slots_one
    SSHPaths <- MC_SSH_set
    Implementations <- MC_Impl_openmpi
    CleanPolicies <- MC_Clean_none
    OptionalInts <- MC_Ints_unset
    ManagedBys <- MC_Managed_known
    MaxEdits = 2
    NoObj = NoObj
SPECIFICATION Spec
CHECK_DEADLOCK FALSE
INVARIANT AdmittedNamesAreLabels

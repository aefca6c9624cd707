\* discover_hosts.sh and the hostfile follow scaling and pod phases; the
\* ConfigMap may exist already, owned by someone else.
CONSTANTS
    MaxReplicas = 3
    InitReplicas = 2
    RunLauncherAsWorker = TRUE
    ForeignPods <- MC_Foreign_none
    ForeignConfigMap <- MC_Bool_any
    MaxEnvOps = 5
    NoObj = NoObj
SPECIFICATION Spec
CHECK_DEADLOCK FALSE
INVARIANT DiscoverHostsSorted
PROPERTY ConfigMapConverges

---------------------- MODULE MCGroupJobController ----------------------
(***************************************************************************)
(* Model-checking instance of GroupJobController: two worker names, a     *)
(* bounded number of user edits and failed API calls.  The policies are   *)
(* chosen per run in the .cfg files.                                       *)
(***************************************************************************)
EXTENDS GroupJobController

MC_UserOps_suspend == {"suspend"}
MC_UserOps_scale   == {"scale"}
MC_UserOps_both    == {"suspend", "scale"}
MC_UserOps_none    == {}
MC_InitSuspended_any == {FALSE, TRUE}
MC_InitSuspended_no  == {FALSE}
MC_ForeignPods_none  == {}
MC_ForeignPods_last  == {MaxReplicas - 1}
MC_ForeignPods_two   == {MaxReplicas - 2, MaxReplicas - 1}
MC_DepKinds_all == <<"Service", "ConfigMap", "Secret">>
MC_DepKinds_one == <<"Service">>
MC_DepKinds_cm == <<"ConfigMap">>
MC_ForeignDeps_none == {}
MC_ForeignDeps_secret == {"Secret"}
MC_InitSuspended_yes == {TRUE}
MC_Bool_any == {FALSE, TRUE}
MC_Bool_no == {FALSE}
MC_Outcomes_all == {"Complete", "Failed"}
MC_Outcomes_none == {}
MC_PodFailures_all == {"Error", "Evicted"}
MC_PodFailures_none == {}
====

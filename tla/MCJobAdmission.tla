--------------------------- MODULE MCJobAdmission ---------------------------
(***************************************************************************)
(* Model-checking instance of JobAdmission: the field domains are chosen   *)
(* per run in the .cfg files.                                              *)
(***************************************************************************)
EXTENDS JobAdmission

\* job names around the 63-byte limit of <name>-worker-<i>
MC_NameLens_edge   == {1, 54, 55}
MC_NameLens_short  == {10}
MC_Starts_any      == {"letter", "digit"}
MC_Starts_letter   == {"letter"}
MC_Bool_any        == BOOLEAN
MC_Bool_no         == {FALSE}
MC_Bool_yes        == {TRUE}
\* worker replicas around one and ten (one and two digits for the last index)
MC_Workers_edge    == {NoObj, 0, 1, 10, 11}
MC_Workers_small   == {0, 1}
MC_Launchers_one   == {1}
MC_Launchers_any   == {NoObj, 1, 2}
MC_Restart_never   == {"Never"}
MC_Restart_all     == {"Never", "OnFailure", "ExitCode"}
MC_Containers_one  == {1}
MC_Slots_one       == {1}
MC_SSH_set         == {"/root/.ssh"}
MC_Impl_openmpi    == {"OpenMPI"}
MC_Clean_none      == {"None"}
MC_Ints_unset      == {NoObj}
MC_Managed_known   == {NoObj, KubeflowJobController, MultiKueueController}
MC_Managed_unset   == {NoObj, KubeflowJobController}
====

-------------------------- MODULE MCConfigMapSync --------------------------
(***************************************************************************)
(* Model-checking instance of ConfigMapSync; the sizes are chosen per run  *)
(* in the .cfg files.                                                      *)
(***************************************************************************)
EXTENDS ConfigMapSync

MC_Foreign_none == {}
MC_Foreign_last == {MaxReplicas - 1}
MC_Bool_any == BOOLEAN
MC_Bool_no  == {FALSE}
====

---------------------------- MODULE JobLifecycle ----------------------------
(***************************************************************************)
(* What the stored status of a GroupJob promises over the job's life,      *)
(* whatever the passes that write it saw:                                  *)
(*                                                                         *)
(*  - every status written carries Created=True (admission);               *)
(*  - an outcome, Succeeded=True or Failed=True, once written stays;       *)
(*  - completionTime is only written together with an outcome, and once    *)
(*    it is written the status no longer changes in these respects.        *)
(*                                                                         *)
(* GroupJobController implements it under the mapping of its job.status   *)
(* (ImplementsLifecycle there).                                            *)
(***************************************************************************)
VARIABLES
    admitted,   \* Created=True is stored
    outcome,    \* the outcome conditions stored as True
    completed   \* completionTime is stored

vars == <<admitted, outcome, completed>>

Outcomes == {"Succeeded", "Failed"}

TypeOK ==
    /\ admitted \in BOOLEAN
    /\ outcome \subseteq Outcomes
    /\ completed \in BOOLEAN

Init == admitted = FALSE /\ outcome = {} /\ completed = FALSE

\* One status write, by a pass of a job that has not completed.
Record ==
    /\ ~completed
    /\ admitted' = TRUE
    /\ outcome \subseteq outcome' /\ outcome' \subseteq Outcomes
    /\ completed' \in BOOLEAN
    /\ completed' => outcome' # {}

Spec == Init /\ [][Record]_vars

====

---------------------------- MODULE HpoLifecycle ----------------------------
(***************************************************************************)
(* What a hyperparameter study promises to the pages that show it: its     *)
(* status only moves forward, CREATED -> RUNNING -> one terminal status,   *)
(* a terminal status is final, and only a study whose cancellation was     *)
(* requested is CANCELED.                                                  *)
(*                                                                         *)
(* abmem/models/enums.py (HPOStatus) and the docstrings of run_study and   *)
(* request_cancel in abmem/services/hpo/hpo_service.py state this          *)
(* contract; HpoStudy is the code that has to keep it.                     *)
(***************************************************************************)

VARIABLES
  status,    \* HPOStudy.status
  cancel     \* HPOStudy.cancel_requested

vars == <<status, cancel>>

Terminal == {"FINISHED", "FAILED", "CANCELED"}
HPOStatus == {"CREATED", "RUNNING"} \cup Terminal

TypeOK == status \in HPOStatus /\ cancel \in BOOLEAN

Init == status = "CREATED" /\ cancel = FALSE

\* A process takes the study over.
Begin == /\ status = "CREATED"
         /\ status' = "RUNNING"
         /\ UNCHANGED cancel

\* The study ends. Only a study that ran can be FINISHED.
End == /\ \/ status = "CREATED" /\ status' \in {"FAILED", "CANCELED"}
          \/ status = "RUNNING" /\ status' \in Terminal
       /\ status' = "CANCELED" => cancel
       /\ UNCHANGED cancel

\* A user asks for cancellation. The request is never taken back, and it may
\* arrive at a study that has just ended.
RequestCancel == cancel' = TRUE /\ UNCHANGED status

Next == Begin \/ End \/ RequestCancel

Spec == Init /\ [][Next]_vars
=============================================================================

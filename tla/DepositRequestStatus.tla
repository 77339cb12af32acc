------------------------ MODULE DepositRequestStatus ------------------------
(***************************************************************************)
(* The status of a deposit request and the two tables that move it.        *)
(*                                                                         *)
(* Everything here is pure: the tables of domain/deposit_request_status.ts *)
(* are total functions of the current status, evaluated by the lifecycle   *)
(* service while the row of the request is locked.                         *)
(***************************************************************************)

RequestStatuses ==
    {"incomplete", "processing", "validated", "blocked", "expired_incomplete"}

PipelineEvents ==
    {"all_expected_documents_clean", "expected_document_became_not_clean",
     "access_link_blocked", "access_link_expired"}

\* The only user action, client_finished_deposit, has one row in its table;
\* from any other status the call throws.
MayFinishDeposit(status) == status = "incomplete"

AfterFinishedDeposit == "processing"

\* Total: an event that has no row for the current status leaves it unchanged.
AfterPipelineEvent(status, event) ==
    CASE event = "all_expected_documents_clean" /\ status = "processing"
            -> "validated"
      [] event = "expected_document_became_not_clean"
            /\ status \in {"processing", "validated"}
            -> "incomplete"
      [] event = "access_link_blocked" /\ status \in {"incomplete", "processing"}
            -> "blocked"
      [] event = "access_link_expired" /\ status = "incomplete"
            -> "expired_incomplete"
      [] OTHER -> status
=============================================================================

--------------------------- MODULE ClientActions ----------------------------
(***************************************************************************)
(* What the client does: reserve a slot and upload the file, remove a file *)
(* (ClientFileRemovalService), declare the deposit finished                *)
(* (apply_client_action); and what may happen to the client's access link. *)
(***************************************************************************)
EXTENDS DepositState

\* authorize: refused while the document has an occupant.  The new row is
\* "pending_upload" and occupies nothing, so that several may coexist.
Reserve(f) ==
    /\ row[f] = "none"
    /\ OccupantOf(DocumentOf[f]) = {}
    /\ row' = [row EXCEPT ![f] = "pending_upload"]
    /\ age' = [age EXCEPT ![f] = 0]
    /\ ticket' = [ticket EXCEPT ![f] = TicketLifetime]
    /\ UNCHANGED <<status, quarantine, verified, posted, crossed, job, deliveries,
                   arrival, worker, removal, finish, lost, faults>>

\* What the post comes in the middle of: a scan that has already answered for the
\* object it replaces, a removal that has already emptied the quarantine.
Crossed(f) ==
    {x \in {"scan", "removal"} :
        \/ x = "scan" /\ worker.file = f /\ worker.pc \in {"detect", "promote"}
        \/ x = "removal" /\ removal[f].pc \in {"drop_second", "done"}}

\* The browser posts the bytes to the object storage; nothing tells the
\* application.  The signed policy names the key and its expiry, nothing else: until
\* then the client may post again and replace the object, or put it back, whatever
\* has become of the row.
Upload(f) ==
    /\ ticket[f] > 0
    /\ \E c \in Contents[f] : /\ quarantine' = [quarantine EXCEPT ![f] = c]
                             /\ posted' = [posted EXCEPT ![f] = @ \cup {c}]
    /\ crossed' = [crossed EXCEPT ![f] = @ \cup Crossed(f)]
    /\ UNCHANGED <<status, row, age, verified, ticket, job, deliveries, arrival,
                   worker, removal, finish, lost, faults>>

\* Ages stop where nothing reads them any more: past both delays, or once the
\* file has its verdict or is gone.
Ages(f) == age[f] < MaxAge /\ row[f] \in {"pending_upload", "pending_scan"}

Tick ==
    /\ \E f \in Files : Ages(f) \/ ticket[f] > 0
    /\ age' = [f \in Files |-> IF Ages(f) THEN age[f] + 1 ELSE age[f]]
    /\ ticket' = [f \in Files |-> IF ticket[f] > 0 THEN ticket[f] - 1 ELSE 0]
    /\ UNCHANGED <<status, row, quarantine, verified, posted, crossed, job,
                   deliveries, arrival, worker, removal, finish, lost, faults>>

-----------------------------------------------------------------------------
Removing(f, pc) == removal[f].pc = pc

RemovalGoto(f, pc) == removal' = [removal EXCEPT ![f].pc = pc]

RemovalUnchanged == UNCHANGED <<age, uploads, job, deliveries, arrival, worker,
                                finish, faults>>

\* find_for_access_link: everything decided below looks at this row.
StartRemoval(f) ==
    /\ Removing(f, "idle")
    /\ HasRow(f)
    /\ Cardinality({g \in Files : removal[g].pc \notin {"idle", "done"}})
          < MaxRemovals
    /\ removal' = [removal EXCEPT ![f] = [pc |-> "view", seen |-> row[f]]]
    /\ UNCHANGED <<status, row, quarantine, verified, lost>>
    /\ RemovalUnchanged

\* find_client_view, then plan_deposited_file_removal: a request that is not
\* incomplete is frozen.
PlanRemoval(f) ==
    /\ Removing(f, "view")
    /\ removal' = [removal EXCEPT
          ![f] = IF status = "incomplete" THEN [@ EXCEPT !.pc = "delete_row"]
                                          ELSE IdleRemoval]
    /\ UNCHANGED <<status, row, quarantine, verified, lost>>
    /\ RemovalUnchanged

\* The plan made from the row that was read: a clean file reopens the request,
\* and a file that had not been uploaded has no object to delete.
AfterRemovedRow(seen) ==
    CASE seen = "clean"          -> "reopen"
      [] seen = "pending_upload" -> "idle"
      [] OTHER                   -> "drop_first"

RemoveRow(f) ==
    /\ Removing(f, "delete_row")
    /\ DeleteRow(f, "removed")
    /\ removal' = [removal EXCEPT
          ![f] = [IdleRemoval EXCEPT !.pc = AfterRemovedRow(removal[f].seen)]]
    /\ UNCHANGED <<status, quarantine, verified>>
    /\ RemovalUnchanged

ReopenAfterRemoval(f) ==
    /\ Removing(f, "reopen")
    /\ ApplyPipelineEvent("expected_document_became_not_clean")
    /\ RemovalGoto(f, "drop_first")
    /\ UNCHANGED <<row, quarantine, verified, lost>>
    /\ RemovalUnchanged

\* delete_stored_object_wherever_it_lives: the quarantine, then the verified
\* bucket.  Mutated: in the other order.
BugBucketAt(pc) == IF pc = "drop_first" THEN "verified" ELSE "quarantine"
BucketAt(pc)    == IF pc = "drop_first" THEN "quarantine" ELSE "verified"

RemoveObject(f) ==
    LET pc == removal[f].pc IN
    /\ pc \in {"drop_first", "drop_second"}
    /\ quarantine' = IF BucketAt(pc) = "quarantine" THEN Without(quarantine, f) ELSE quarantine
    /\ verified' = IF BucketAt(pc) = "verified" THEN Without(verified, f) ELSE verified
    /\ RemovalGoto(f, IF pc = "drop_first" THEN "drop_second" ELSE "done")
    /\ UNCHANGED <<status, row, lost>>
    /\ RemovalUnchanged

RemovalStep(f) ==
    \/ PlanRemoval(f)
    \/ RemoveRow(f)
    \/ ReopenAfterRemoval(f)
    \/ RemoveObject(f)

FinishUnchanged == UNCHANGED <<row, age, quarantine, verified, uploads, job,
                               deliveries, arrival, worker, removal,
                               lost, faults>>

\* In any other status the action throws and the client gets a conflict.
FinishDeposit ==
    /\ finish = "idle"
    /\ MayFinishDeposit(status)
    /\ status' = AfterFinishedDeposit
    /\ finish' = "completion"
    /\ FinishUnchanged

\* Mutated: the question is left to the verdicts, which may all have come.
BugAfterFinishRead == "idle"
AfterFinishRead    == IF Complete THEN "validate" ELSE "idle"

FinishReadCompletion ==
    /\ finish = "completion"
    /\ finish' = AfterFinishRead
    /\ UNCHANGED status
    /\ FinishUnchanged

FinishValidate ==
    /\ finish = "validate"
    /\ ApplyPipelineEvent("all_expected_documents_clean")
    /\ finish' = "idle"
    /\ FinishUnchanged

FinishStep == FinishReadCompletion \/ FinishValidate

\* The client at the door: the last allowed PIN attempt failed, or the link is
\* found to be expired.
LinkEnds ==
    /\ status \in {"incomplete", "processing"}
    /\ \E e \in LinkEvents : ApplyPipelineEvent(e)
    /\ UNCHANGED finish
    /\ FinishUnchanged
=============================================================================

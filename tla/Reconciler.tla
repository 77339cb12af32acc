----------------------------- MODULE Reconciler -----------------------------
(***************************************************************************)
(* The reconciliation pass: missed arrivals, overdue scans, stale objects, *)
(* expired requests, in this order (DepositReconciliationService).         *)
(***************************************************************************)
EXTENDS ObjectArrival, ScanWorker

PassUnchanged == UNCHANGED <<status, age, verified, uploads, deliveries, removal,
                             finish, faults>>

\* is_deposited_file_upload_reservation_abandoned.  Mutated: whatever the age;
\* and never.
BugIsAbandoned(f)      == TRUE
BugNeverIsAbandoned(f) == FALSE
IsAbandoned(f)         == age[f] > ReservationGrace

\* list_scans_pending_since_before.  Mutated: no scan is ever overdue.
BugIsOverdue(f) == FALSE
IsOverdue(f)    == row[f] = "pending_scan" /\ age[f] > ScanOverdue

\* The rows of the open reservations are listed, and the clock is read.
StartPass ==
    /\ Doing("idle")
    /\ LET open == {f \in Files : row[f] = "pending_upload"} IN
       worker' = [pc |-> "recover", file |-> NoFile, left |-> 0, todo |-> open,
                  lapsed |-> {f \in open : IsAbandoned(f)}]
    /\ UNCHANGED <<row, quarantine, job, arrival, lost>>
    /\ PassUnchanged

\* describe_object finds an object: its arrival is recorded as if announced.
RecoverArrival(f) ==
    /\ Doing("recover") /\ At(Worker, "idle")
    /\ f \in worker.todo
    /\ InQuarantine(f)
    /\ worker' = [worker EXCEPT !.todo = @ \ {f}]
    /\ StartArrival(Worker, f)
    /\ UNCHANGED <<row, quarantine, job, lost>>
    /\ PassUnchanged

\* describe_object finds none: the reservation is abandoned, or still young.
ExamineReservation(f) ==
    /\ Doing("recover") /\ At(Worker, "idle")
    /\ f \in worker.todo
    /\ ~InQuarantine(f)
    /\ worker' = IF f \in worker.lapsed
                 THEN [worker EXCEPT !.pc = "discard", !.file = f]
                 ELSE [worker EXCEPT !.todo = @ \ {f}]
    /\ UNCHANGED <<row, quarantine, job, arrival, lost>>
    /\ PassUnchanged

DiscardReservation ==
    /\ Doing("discard")
    /\ DeleteRow(worker.file, "abandoned")
    /\ worker' = [worker EXCEPT !.pc = "recover", !.todo = @ \ {worker.file},
                                !.file = NoFile]
    /\ UNCHANGED <<quarantine, job, arrival>>
    /\ PassUnchanged

ListOverdueScans ==
    /\ Doing("recover") /\ At(Worker, "idle")
    /\ worker.todo = {}
    /\ worker' = [pc |-> "requeue", file |-> NoFile, left |-> 0,
                  todo |-> {f \in Files : IsOverdue(f)}, lapsed |-> {}]
    /\ UNCHANGED <<row, quarantine, job, arrival, lost>>
    /\ PassUnchanged

RequeueScan(f) ==
    /\ Doing("requeue")
    /\ f \in worker.todo
    /\ job' = [job EXCEPT ![f] = MaxAttempts]
    /\ worker' = [worker EXCEPT !.todo = @ \ {f}]
    /\ UNCHANGED <<row, quarantine, arrival, lost>>
    /\ PassUnchanged

ListQuarantine ==
    /\ Doing("requeue")
    /\ worker.todo = {}
    /\ worker' = [worker EXCEPT !.pc = "collect", !.todo = {f \in Files : InQuarantine(f)}]
    /\ UNCHANGED <<row, quarantine, job, arrival, lost>>
    /\ PassUnchanged

\* No row claims the object, or a row that has its verdict.
ExamineObject(f) ==
    /\ Doing("collect")
    /\ f \in worker.todo
    /\ worker' = IF HasRow(f) /\ row[f] \notin Terminal
                 THEN [worker EXCEPT !.todo = @ \ {f}]
                 ELSE [worker EXCEPT !.pc = "collect_delete", !.file = f]
    /\ UNCHANGED <<row, quarantine, job, arrival, lost>>
    /\ PassUnchanged

CollectObject ==
    /\ Doing("collect_delete")
    /\ quarantine' = Without(quarantine, worker.file)
    /\ worker' = [worker EXCEPT !.pc = "collect", !.todo = @ \ {worker.file},
                                !.file = NoFile]
    /\ UNCHANGED <<row, job, arrival, lost>>
    /\ PassUnchanged

\* Last, the request is closed if its link has expired: a matter of the link's
\* date, on which nothing else here depends.
CloseExpired ==
    /\ Doing("collect")
    /\ worker.todo = {}
    /\ \/ /\ "access_link_expired" \in LinkEvents
          /\ ApplyPipelineEvent("access_link_expired")
       \/ UNCHANGED status
    /\ EndJob
    /\ UNCHANGED <<row, age, quarantine, verified, uploads, job, deliveries,
                   arrival, removal, finish, lost, faults>>

PassStep ==
    \/ \E f \in Files : \/ RecoverArrival(f)
                        \/ ExamineReservation(f)
                        \/ RequeueScan(f)
                        \/ ExamineObject(f)
    \/ DiscardReservation
    \/ ListOverdueScans
    \/ ListQuarantine
    \/ CollectObject
    \/ CloseExpired
=============================================================================

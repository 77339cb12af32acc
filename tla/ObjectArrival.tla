--------------------------- MODULE ObjectArrival ----------------------------
(***************************************************************************)
(* Recording the arrival of an object: ObjectArrivalRecordingService,      *)
(* called by the webhook and by the reconciliation.                        *)
(***************************************************************************)
EXTENDS DepositState

At(r, pc) == arrival[r].pc = pc

Goto(r, pc) == arrival' = [arrival EXCEPT ![r].pc = pc]

EndArrival(r) == arrival' = [arrival EXCEPT ![r] = IdleArrival]

StartArrival(r, f) ==
    arrival' = [arrival EXCEPT
                   ![r] = [pc |-> "find", file |-> f, awaiting |-> FALSE]]

\* The storage announces an object, possibly late, possibly again, or never.
Deliver(h, f) ==
    /\ At(h, "idle")
    /\ Uploaded(f)
    /\ deliveries[f] < MaxDeliveries
    /\ deliveries' = [deliveries EXCEPT ![f] = @ + 1]
    /\ StartArrival(h, f)
    /\ UNCHANGED <<status, row, age, quarantine, verified, uploads, job, worker,
                   removal, finish, lost, faults>>

\* was_still_awaiting_its_object.  Mutated: asked of the row after the save.
BugAwaitsObject(f) == row[f] = "pending_scan"
AwaitsObject(f)    == row[f] = "pending_upload"

FindArrivedFile(r) ==
    LET f == arrival[r].file IN
    /\ At(r, "find")
    /\ arrival' = [arrival EXCEPT
          ![r].pc = IF HasRow(f) THEN "save" ELSE "drop",
          ![r].awaiting = AwaitsObject(f)]
    /\ UNCHANGED <<status, row, age, quarantine, verified, uploads, job,
                   deliveries, worker, removal, finish, lost, faults>>

\* save_state writes what was decided from the row read one step earlier,
\* whatever its status has become; only the unique index can refuse.
SaveArrival(r) ==
    LET f == arrival[r].file IN
    /\ At(r, "save")
    /\ IndexAllows(f) \/ ~HasRow(f)
    /\ Save(f, "pending_scan")
    /\ age' = [age EXCEPT ![f] = IF HasRow(f) THEN 0 ELSE @]
    /\ lost' = lost \cup LosesClean(f)
    /\ Goto(r, IF arrival[r].awaiting THEN "journal" ELSE "enqueue")
    /\ UNCHANGED <<status, quarantine, verified, uploads, job, deliveries,
                   worker, removal, finish, faults>>

RefuseArrival(r) ==
    LET f == arrival[r].file IN
    /\ At(r, "save")
    /\ HasRow(f) /\ ~IndexAllows(f)
    /\ Goto(r, "discard")
    /\ UNCHANGED <<status, row, age, quarantine, verified, uploads, job,
                   deliveries, worker, removal, finish, lost, faults>>

DiscardSuperseded(r) ==
    /\ At(r, "discard")
    /\ DeleteRow(arrival[r].file, "superseded")
    /\ Goto(r, "drop")
    /\ UNCHANGED <<status, age, quarantine, verified, uploads, job, deliveries,
                   worker, removal, finish, faults>>

\* The object of a file that has no row, or whose row was just discarded.
DropArrivedObject(r) ==
    /\ At(r, "drop")
    /\ quarantine' = Without(quarantine, arrival[r].file)
    /\ EndArrival(r)
    /\ UNCHANGED <<status, row, age, verified, uploads, job, deliveries, worker,
                   removal, finish, lost, faults>>

JournalizeReception(r) ==
    /\ At(r, "journal")
    /\ Goto(r, "enqueue")
    /\ UNCHANGED <<status, row, age, quarantine, verified, uploads, job,
                   deliveries, worker, removal, finish, lost, faults>>

\* The key of the job is the file: a queued job is replaced, and its attempts
\* start afresh.
EnqueueScan(r) ==
    /\ At(r, "enqueue")
    /\ job' = [job EXCEPT ![arrival[r].file] = MaxAttempts]
    /\ EndArrival(r)
    /\ UNCHANGED <<status, row, age, quarantine, verified, uploads, deliveries,
                   worker, removal, finish, lost, faults>>

RecorderStep(r) ==
    \/ FindArrivedFile(r)
    \/ SaveArrival(r)
    \/ RefuseArrival(r)
    \/ DiscardSuperseded(r)
    \/ DropArrivedObject(r)
    \/ JournalizeReception(r)
    \/ EnqueueScan(r)
=============================================================================

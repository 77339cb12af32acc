---------------------------- MODULE DepositState ----------------------------
(***************************************************************************)
(* The shared state of the deposit of one request: rows of the database,   *)
(* objects of the two buckets, the scan queue, and where each actor is.    *)
(*                                                                         *)
(* PostgreSQL statements, object storage calls and enqueuings are atomic;  *)
(* nothing makes two of them atomic together, except the status transition *)
(* of the request, which locks its row.                                    *)
(***************************************************************************)
EXTENDS Integers, FiniteSets, DepositRequestStatus

CONSTANTS
    Documents,         \* the expected documents of the request
    Files,             \* the rows deposited_file that may come to exist
    DocumentOf,        \* DocumentOf[f]: the expected document f is meant for
    Handlers,          \* the webhook requests that may be served at once
    Worker,            \* the worker process, which also records arrivals
    NoFile,            \* not a file
    MaxAttempts,       \* attempts of a scan job
    TicketLifetime,    \* lifetime of the upload ticket, in ticks
    ReservationGrace,  \* UPLOAD_RESERVATION_GRACE_MINUTES, in ticks
    ScanOverdue,       \* SCAN_OVERDUE_AFTER_MINUTES, in ticks
    Contents,          \* Contents[f]: kinds of content the client may post
    LinkEvents,        \* what may happen to the access link
    MaxDeliveries,     \* bound: notifications delivered for one object
    MaxRemovals,       \* bound: removals in progress at once
    MaxFaults          \* bound: exceptions, crashes and scanner outages

Recorders == Handlers \cup {Worker}

MaxAge == ReservationGrace + 1

ContentKinds == {"healthy", "virus", "nonconforming"}

ASSUME ConstantAssumption ==
    /\ DocumentOf \in [Files -> Documents]
    /\ NoFile \notin Files
    /\ Worker \notin Handlers
    /\ MaxAttempts \in Nat \ {0}
    /\ TicketLifetime \in Nat \ {0}
    /\ ReservationGrace \in Nat
    /\ ScanOverdue \in Nat
    /\ LinkEvents \subseteq {"access_link_blocked", "access_link_expired"}
    /\ MaxDeliveries \in Nat
    /\ MaxRemovals \in Nat
    /\ MaxFaults \in Nat

ASSUME ContentsAssumption == Contents \in [Files -> SUBSET ContentKinds]

\* reconcile_deposits.ts asks for this order of the two delays.
ASSUME GraceAssumption == /\ TicketLifetime <= ReservationGrace
                          /\ ScanOverdue <= ReservationGrace

VARIABLES
    status,      \* status of the request
    row,         \* row[f]: status of the row, or why there is none
    age,         \* age[f]: ticks since created_at, since uploaded_at once recorded
    quarantine,  \* quarantine[f]: content of its object in that bucket, or "none"
    verified,    \* verified[f]: content of its object in that bucket, or "none"
    ticket,      \* ticket[f]: ticks left to the upload ticket, 0 without one
    posted,      \* history: posted[f], what the client has posted so far
    crossed,     \* history: crossed[f], what a repeated post came in the middle of
    job,         \* job[f]: attempts left to the queued scan of f, 0 without one
    deliveries,  \* deliveries[f]: notifications delivered so far
    arrival,     \* arrival[r]: the arrival that recorder r is recording
    worker,      \* the job the worker is running
    removal,     \* removal[f]: the client's removal of f
    finish,      \* step of the client's "deposit finished" request
    lost,        \* history: documents whose clean file has been deleted or reset
    faults       \* faults so far

uploads == <<ticket, posted, crossed>>

vars == <<status, row, age, quarantine, verified, uploads, job, deliveries,
          arrival, worker, removal, finish, lost, faults>>

-----------------------------------------------------------------------------
(***************************************************************************)
(* Rows.  A deleted row is never inserted again; "removed", "superseded"   *)
(* and "abandoned" only remember which code path deleted it.               *)
(***************************************************************************)
FileStatuses == {"pending_upload", "pending_scan", "clean", "infected", "rejected"}
Deleted      == {"removed", "superseded", "abandoned"}
Occupying    == {"pending_scan", "clean"}

\* should_quarantine_object_be_collected.  The mutated form lets the sweep
\* delete the objects of files that still wait for their verdict.
BugTerminal == {"pending_scan", "clean", "infected", "rejected"}
Terminal    == {"clean", "infected", "rejected"}

HasRow(f) == row[f] \in FileStatuses

InQuarantine(f) == quarantine[f] # "none"

InVerified(f) == verified[f] # "none"

Uploaded(f) == posted[f] # {}

\* delete_object succeeds on an object that is not there.
Without(bucket, f) == [bucket EXCEPT ![f] = "none"]

OccupantOf(d) == {f \in Files : DocumentOf[f] = d /\ row[f] \in Occupying}

\* The partial unique index lets f become an occupant of its document.  Mutated:
\* without the index.
BugIndexAllows(f) == TRUE
IndexAllows(f) == OccupantOf(DocumentOf[f]) \subseteq {f}

HasCleanFile(d) == \E f \in Files : DocumentOf[f] = d /\ row[f] = "clean"

\* Mutated: a file that occupies its document counts before its verdict.
BugComplete == Documents # {} /\ \A d \in Documents : OccupantOf(d) # {}
Complete == Documents # {} /\ \A d \in Documents : HasCleanFile(d)

\* History: the document of f if an update of its row takes a clean file away.
LosesClean(f) == IF row[f] = "clean" THEN {DocumentOf[f]} ELSE {}

\* An UPDATE or a DELETE that finds no row does nothing, and says nothing.
\* Mutated: an update that inserts the row it does not find; one that is forgotten.
BugSave(f, s) == row' = [row EXCEPT ![f] = s]
BugSaveNothing(f, s) == UNCHANGED row
Save(f, s) == row' = [row EXCEPT ![f] = IF HasRow(f) THEN s ELSE @]

DeleteRow(f, why) == /\ row' = [row EXCEPT ![f] = IF HasRow(f) THEN why ELSE @]
                     /\ lost' = lost \cup LosesClean(f)

ApplyPipelineEvent(e) == status' = AfterPipelineEvent(status, e)

-----------------------------------------------------------------------------
(***************************************************************************)
(* Local states of the actors.                                             *)
(***************************************************************************)
ArrivalSteps == {"idle", "find", "save", "discard", "drop", "journal", "enqueue"}

ScanSteps == {"scan", "detect", "promote", "unquarantine", "save_clean",
              "completion", "validate", "drop_infected", "save_infected",
              "save_rejected", "drop_rejected", "reopen"}

PassSteps == {"recover", "discard", "requeue", "collect", "collect_delete"}

RemovalSteps == {"idle", "view", "delete_row", "reopen", "drop_first",
                 "drop_second", "done"}

IdleArrival == [pc |-> "idle", file |-> NoFile, awaiting |-> FALSE]

IdleWorker == [pc |-> "idle", file |-> NoFile, left |-> 0,
               todo |-> {}, lapsed |-> {}]

IdleRemoval == [pc |-> "idle", seen |-> "none"]

TypeOK ==
    /\ status \in RequestStatuses
    /\ row \in [Files -> FileStatuses \cup Deleted \cup {"none"}]
    /\ age \in [Files -> 0..MaxAge]
    /\ quarantine \in [Files -> ContentKinds \cup {"none"}]
    /\ verified \in [Files -> ContentKinds \cup {"none"}]
    /\ ticket \in [Files -> 0..TicketLifetime]
    /\ posted \in [Files -> SUBSET ContentKinds]
    /\ crossed \in [Files -> SUBSET {"scan", "removal"}]
    /\ job \in [Files -> 0..MaxAttempts]
    /\ deliveries \in [Files -> 0..MaxDeliveries]
    /\ arrival \in [Recorders -> [pc : ArrivalSteps, file : Files \cup {NoFile},
                                  awaiting : BOOLEAN]]
    /\ \A r \in Recorders : arrival[r].pc # "idle" => arrival[r].file \in Files
    /\ worker \in [pc : ScanSteps \cup PassSteps \cup {"idle"},
                   file : Files \cup {NoFile}, left : 0..MaxAttempts,
                   todo : SUBSET Files, lapsed : SUBSET Files]
    /\ worker.pc \in ScanSteps \cup {"discard", "collect_delete"}
          => worker.file \in Files
    /\ removal \in [Files -> [pc : RemovalSteps,
                              seen : FileStatuses \cup {"none"}]]
    /\ finish \in {"idle", "completion", "validate"}
    /\ lost \subseteq Documents
    /\ faults \in 0..MaxFaults

Init ==
    /\ status = "incomplete"
    /\ row = [f \in Files |-> "none"]
    /\ age = [f \in Files |-> 0]
    /\ quarantine = [f \in Files |-> "none"]
    /\ verified = [f \in Files |-> "none"]
    /\ ticket = [f \in Files |-> 0]
    /\ posted = [f \in Files |-> {}]
    /\ crossed = [f \in Files |-> {}]
    /\ job = [f \in Files |-> 0]
    /\ deliveries = [f \in Files |-> 0]
    /\ arrival = [r \in Recorders |-> IdleArrival]
    /\ worker = IdleWorker
    /\ removal = [f \in Files |-> IdleRemoval]
    /\ finish = "idle"
    /\ lost = {}
    /\ faults = 0
=============================================================================

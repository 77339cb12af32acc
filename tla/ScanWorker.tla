----------------------------- MODULE ScanWorker -----------------------------
(***************************************************************************)
(* The worker process runs one job at a time (SCAN_CONCURRENCY = 1), so a  *)
(* scan and a reconciliation pass never overlap.  This is the scan:        *)
(* DepositedFileScanService, run as a job of graphile-worker.              *)
(***************************************************************************)
EXTENDS DepositState

Doing(pc) == worker.pc = pc

Proceed(pc) == worker' = [worker EXCEPT !.pc = pc]

EndJob == worker' = IdleWorker

\* A job that fails is run again while it has attempts left, unless another
\* enqueuing has replaced it meanwhile.
FailScan ==
    /\ job' = [job EXCEPT ![worker.file] = IF @ = 0 THEN worker.left ELSE @]
    /\ EndJob

ScanUnchanged == UNCHANGED <<age, uploads, deliveries, arrival, removal, finish,
                             faults>>

\* Mutated: a job is run again after its last attempt.
BugHasJob(f) == TRUE
HasJob(f)    == job[f] > 0

\* DepositedFileScanService.scan: the job is taken and the row is read.
StartScan(f) ==
    /\ Doing("idle")
    /\ HasJob(f)
    /\ row[f] = "pending_scan"
    /\ job' = [job EXCEPT ![f] = 0]
    /\ worker' = [pc |-> "scan", file |-> f, left |-> job[f] - 1,
                  todo |-> {}, lapsed |-> {}]
    /\ UNCHANGED <<status, row, quarantine, verified, lost>>
    /\ ScanUnchanged

NothingToScan(f) ==
    /\ Doing("idle")
    /\ HasJob(f)
    /\ row[f] # "pending_scan"
    /\ job' = [job EXCEPT ![f] = 0]
    /\ UNCHANGED <<status, row, quarantine, verified, lost, worker>>
    /\ ScanUnchanged

\* The object is streamed to clamd, which answers "clean" or "infected".
\* Mutated: the verdict is not looked at.
BugAfterScan(f) == "detect"
AfterScan(f)    == IF quarantine[f] = "virus" THEN "drop_infected" ELSE "detect"

ScanStoredObject ==
    /\ Doing("scan")
    /\ InQuarantine(worker.file)
    /\ Proceed(AfterScan(worker.file))
    /\ UNCHANGED <<status, row, quarantine, verified, lost, job>>
    /\ ScanUnchanged

\* The head of the object is read again for its type; then its conformity to
\* the expected document is decided.  Mutated: the row is written before the
\* object is promoted.
BugAfterDetection(f) == IF quarantine[f] = "nonconforming" THEN "save_rejected"
                                                        ELSE "save_clean"
AfterDetection(f)    == IF quarantine[f] = "nonconforming" THEN "save_rejected"
                                                        ELSE "promote"

DetectType ==
    /\ Doing("detect")
    /\ InQuarantine(worker.file)
    /\ Proceed(AfterDetection(worker.file))
    /\ UNCHANGED <<status, row, quarantine, verified, lost, job>>
    /\ ScanUnchanged

\* open_object_stream, read_object_prefix and the copy of promote_object throw
\* on an object that is not in the quarantine any more.
ObjectMissing ==
    /\ worker.pc \in {"scan", "detect", "promote"}
    /\ ~InQuarantine(worker.file)
    /\ FailScan
    /\ UNCHANGED <<status, row, quarantine, verified, lost>>
    /\ ScanUnchanged

\* promote_object copies first ...
CopyToVerified ==
    /\ Doing("promote")
    /\ InQuarantine(worker.file)
    /\ verified' = [verified EXCEPT ![worker.file] = quarantine[worker.file]]
    /\ Proceed("unquarantine")
    /\ UNCHANGED <<status, row, quarantine, lost, job>>
    /\ ScanUnchanged

\* ... and removes from the quarantine next.
RemoveFromQuarantine ==
    /\ Doing("unquarantine")
    /\ quarantine' = Without(quarantine, worker.file)
    /\ Proceed("save_clean")
    /\ UNCHANGED <<status, row, verified, lost, job>>
    /\ ScanUnchanged

\* The verdict is written over the row the scan began with, whatever happened
\* to the row since.  (OneOccupant says that the index never objects here.)
SaveClean ==
    /\ Doing("save_clean")
    /\ Save(worker.file, "clean")
    /\ lost' = IF HasRow(worker.file) THEN lost \ {DocumentOf[worker.file]}
                                      ELSE lost
    /\ Proceed("completion")
    /\ UNCHANGED <<status, quarantine, verified, job>>
    /\ ScanUnchanged

ScanReadCompletion ==
    /\ Doing("completion")
    /\ IF Complete THEN Proceed("validate") ELSE EndJob
    /\ UNCHANGED <<status, row, quarantine, verified, lost, job>>
    /\ ScanUnchanged

ScanValidate ==
    /\ Doing("validate")
    /\ ApplyPipelineEvent("all_expected_documents_clean")
    /\ EndJob
    /\ UNCHANGED <<row, quarantine, verified, lost, job>>
    /\ ScanUnchanged

\* An infected object is deleted before the row says so, ...
DropInfectedObject ==
    /\ Doing("drop_infected")
    /\ quarantine' = Without(quarantine, worker.file)
    /\ Proceed("save_infected")
    /\ UNCHANGED <<status, row, verified, lost, job>>
    /\ ScanUnchanged

SaveInfected ==
    /\ Doing("save_infected")
    /\ Save(worker.file, "infected")
    /\ Proceed("reopen")
    /\ UNCHANGED <<status, quarantine, verified, lost, job>>
    /\ ScanUnchanged

\* ... a rejected one after.
SaveRejected ==
    /\ Doing("save_rejected")
    /\ Save(worker.file, "rejected")
    /\ Proceed("drop_rejected")
    /\ UNCHANGED <<status, quarantine, verified, lost, job>>
    /\ ScanUnchanged

DropRejectedObject ==
    /\ Doing("drop_rejected")
    /\ quarantine' = Without(quarantine, worker.file)
    /\ Proceed("reopen")
    /\ UNCHANGED <<status, row, verified, lost, job>>
    /\ ScanUnchanged

NoticeCompletenessLost ==
    /\ Doing("reopen")
    /\ ApplyPipelineEvent("expected_document_became_not_clean")
    /\ EndJob
    /\ UNCHANGED <<row, quarantine, verified, lost, job>>
    /\ ScanUnchanged

ScanStep ==
    \/ ScanStoredObject
    \/ DetectType
    \/ ObjectMissing
    \/ CopyToVerified
    \/ RemoveFromQuarantine
    \/ SaveClean
    \/ ScanReadCompletion
    \/ ScanValidate
    \/ DropInfectedObject
    \/ SaveInfected
    \/ SaveRejected
    \/ DropRejectedObject
    \/ NoticeCompletenessLost
=============================================================================

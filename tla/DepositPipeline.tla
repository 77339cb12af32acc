--------------------------- MODULE DepositPipeline ---------------------------
(***************************************************************************)
(* One deposit request, from the reservation of an upload slot to the      *)
(* verdict on the file and the validation of the request.                  *)
(*                                                                         *)
(* Five kinds of actors work on the same rows and objects, and every await *)
(* of the code is a point where the others may step in:                    *)
(*                                                                         *)
(*   - the client's HTTP requests: reserve a slot, remove a file, declare  *)
(*     the deposit finished (and, outside the API, the upload itself);     *)
(*   - the webhook handlers that record the arrival of an object;          *)
(*   - the worker process, which runs one job at a time: the scan of a     *)
(*     file, or a reconciliation pass;                                     *)
(*   - the access link, which may get blocked or expire;                   *)
(*   - time.                                                               *)
(*                                                                         *)
(* PostgreSQL statements, object storage calls and enqueuings are atomic;  *)
(* nothing makes two of them atomic together, except the status transition *)
(* of the request, which locks its row.  Any actor may stop between two    *)
(* steps (an exception, a crash of its process), at most MaxFaults times.  *)
(***************************************************************************)
EXTENDS ClientActions, Reconciler

-----------------------------------------------------------------------------
(***************************************************************************)
(* Faults: an exception or a crash between two steps of an actor.          *)
(***************************************************************************)
Fault == /\ faults < MaxFaults
         /\ faults' = faults + 1
         /\ UNCHANGED <<status, row, age, quarantine, verified, uploads,
                        deliveries, lost>>

\* A webhook that does not answer 202: the storage may announce again.
HandlerFails(h) ==
    /\ ~At(h, "idle")
    /\ EndArrival(h)
    /\ Fault
    /\ UNCHANGED <<job, worker, removal, finish>>

\* clamd cannot be reached, or the worker stops in the middle of a scan.
ScanFails ==
    /\ worker.pc \in ScanSteps
    /\ FailScan
    /\ Fault
    /\ UNCHANGED <<arrival, removal, finish>>

PassFails ==
    /\ worker.pc \in PassSteps
    /\ EndJob
    /\ EndArrival(Worker)
    /\ Fault
    /\ UNCHANGED <<job, removal, finish>>

\* A removal that is cut short keeps no trace; the client may ask again.
RemovalFails(f) ==
    /\ removal[f].pc \notin {"idle", "done"}
    /\ removal' = [removal EXCEPT ![f] = IdleRemoval]
    /\ Fault
    /\ UNCHANGED <<arrival, job, worker, finish>>

FinishFails ==
    /\ finish # "idle"
    /\ finish' = "idle"
    /\ Fault
    /\ UNCHANGED <<arrival, job, worker, removal>>

-----------------------------------------------------------------------------
Next ==
    \/ Tick
    \/ \E f \in Files : \/ Reserve(f)
                        \/ Upload(f)
                        \/ StartScan(f)
                        \/ NothingToScan(f)
                        \/ StartRemoval(f)
                        \/ RemovalStep(f)
                        \/ RemovalFails(f)
    \/ \E h \in Handlers, f \in Files : Deliver(h, f)
    \/ \E r \in Recorders : RecorderStep(r)
    \/ \E h \in Handlers : HandlerFails(h)
    \/ ScanStep
    \/ ScanFails
    \/ StartPass
    \/ PassStep
    \/ PassFails
    \/ FinishDeposit
    \/ FinishStep
    \/ FinishFails
    \/ LinkEnds

\* What was started is carried on (but for the faults), the clock runs, and
\* the job queue, which is first come first served, forgets neither a queued
\* scan nor the periodic pass.  Nothing obliges the client to act, nor the
\* storage to deliver a notification.
Fairness ==
    /\ WF_vars(Tick)
    /\ \A r \in Recorders : WF_vars(RecorderStep(r))
    /\ WF_vars(ScanStep)
    /\ WF_vars(PassStep)
    /\ \A f \in Files : /\ SF_vars(StartScan(f) \/ NothingToScan(f))
                        /\ WF_vars(RemovalStep(f))
    /\ SF_vars(StartPass)
    /\ WF_vars(FinishStep)

Spec == Init /\ [][Next]_vars

FairSpec == Spec /\ Fairness
-----------------------------------------------------------------------------
(***************************************************************************)
(* What the code promises, and keeps.                                      *)
(***************************************************************************)

\* A file shown as clean can be downloaded: its object is in the verified
\* bucket, from which downloads are served.  apply_verdict moves the object
\* before the row announces it; a removal deletes the row before the object.
CleanIsStored == \A f \in Files : row[f] = "clean" => InVerified(f)

\* Nothing enters the verified bucket but what passed the scan and the check of its
\* type, whatever happens to the rows meanwhile: unless the client posted again
\* while the scan had answered and the copy was not made.  promote_object copies
\* whatever the key holds by then.
OnlyHealthyVerified ==
    \A f \in Files :
        InVerified(f) => verified[f] = "healthy" \/ "scan" \in crossed[f]

\* "UN document attendu, UNE piece": concurrent reservations, late arrivals and
\* verdicts written without a look at the row never give a document two
\* occupants, and the verdict of a scan never runs into the unique index.
OneOccupant ==
    \A f, g \in Files :
        /\ DocumentOf[f] = DocumentOf[g]
        /\ row[f] \in Occupying
        /\ row[g] \in Occupying
        => f = g

\* A healthy file that reached the storage is never lost, nor judged
\* otherwise: unless the client removed it, posted something else in its place, or
\* another file took it, the row and the object remain, in spite of the two sweeps
\* that delete rows and objects they find abandoned, and of every crash.
HealthyDepositKept ==
    \A f \in Files :
        /\ posted[f] = {"healthy"}
        /\ row[f] \notin {"removed", "superseded"}
        => /\ row[f] \in {"pending_upload", "pending_scan", "clean"}
           /\ InQuarantine(f) \/ InVerified(f)

\* A request is only validated when every expected document has had a clean
\* file: one that is missing now was clean, and has been deleted or put back
\* to scan since.
ValidatedWasComplete ==
    status = "validated" =>
        /\ Documents # {}
        /\ \A d \in Documents : HasCleanFile(d) \/ d \in lost

\* Once a removal that had something to delete is over, the file is in no bucket,
\* even if the worker was promoting the object while it was deleted: the quarantine
\* is emptied first.  Only a post that follows that emptying can leave something:
\* the ticket outlives the row.
RemovedIsGone ==
    \A f \in Files :
        removal[f].pc = "done" =>
            \/ ~InQuarantine(f) /\ ~InVerified(f)
            \/ "removal" \in crossed[f]

\* What the list, the buckets and the history amount to for a reader.
LifeOf(s) == IF s \in {"removed", "superseded"} THEN "withdrawn" ELSE s

Life == [f \in Files |-> LifeOf(row[f])]

Stored == {f \in Files : InQuarantine(f) \/ InVerified(f)}

VouchedFor == {d \in Documents : HasCleanFile(d) \/ d \in lost}

Erased == {f \in Files : removal[f].pc = "done"}

Promise == INSTANCE DepositPromise
    WITH life <- Life, kept <- Stored, served <- verified, vouched <- VouchedFor, erased <- Erased

\* Whoever crosses whom, and wherever an actor stops, the deposit moves as
\* DepositPromise allows: one file per document, a verdict on something the client
\* posted, nothing healthy deleted unless it was withdrawn or posted over, nothing
\* served or back from a deletion that a post in the middle does not explain, no
\* validation before every document had a clean file.
DepositPromised == Promise!Spec

\* A file only moves forward: its row does not come back from a deletion, a verdict
\* is only left for another scan or a deletion, a file is found clean when it can be
\* downloaded already, what is downloaded under a clean row is not exchanged
\* whatever is posted, and what is stored is only deleted after its row or when
\* something not healthy was posted.
MovesForward(f) ==
    /\ Life[f] \in {"withdrawn", "abandoned"} => Life'[f] = Life[f]
    /\ Life[f] \in {"clean", "infected", "rejected"} =>
          Life'[f] \in {Life[f], "pending_scan", "withdrawn"}
    /\ Life[f] # "clean" /\ Life'[f] = "clean" =>
          Life[f] = "pending_scan" /\ InVerified(f)
    /\ Life[f] = "clean" => verified'[f] = verified[f]
    /\ f \in Stored \ Stored' => Life[f] = "withdrawn" \/ posted[f] # {"healthy"}

FilesMoveForward == [][\A f \in Files : MovesForward(f)]_vars

\* Every object leaves the quarantine: judged, removed, superseded or collected,
\* even when the notification was lost, a job failed or an actor crashed.
QuarantineDrains == \A f \in Files : InQuarantine(f) ~> ~InQuarantine(f)

\* A reservation does not stay open: its object arrives and is noticed, or the
\* sweep gives it up.
ReservationCloses ==
    \A f \in Files : row[f] = "pending_upload" ~> row[f] # "pending_upload"

\* Without faults a file of which only healthy contents were posted is found clean,
\* unless the client removed it or another file was first.
HealthyFileJudged ==
    \A f \in Files :
        posted[f] = {"healthy"} ~> \/ row[f] \in {"clean", "removed", "superseded"}
                                  \/ posted[f] # {"healthy"}

\* Without faults a finished request whose documents are all clean does not
\* stay in processing: whichever of the verdict and of the client comes last
\* asks the question again (apply_client_action).
CompletenessNoticed ==
    status = "processing" /\ Complete ~> ~(status = "processing" /\ Complete)

-----------------------------------------------------------------------------
(***************************************************************************)
(* What its comments and tests promise, and it does not keep.              *)
(***************************************************************************)

\* No file stays stuck waiting for its verdict (README.md of the portal, and
\* reconcile_deposits.ts, above the class).  A repeated notification puts a
\* clean file back to pending_scan, though its object has left the quarantine.
NoFileStuck ==
    \A f \in Files : row[f] = "pending_scan" ~> row[f] # "pending_scan"
=============================================================================

--------------------------- MODULE DepositJournal ---------------------------
(***************************************************************************)
(* The deposit pipeline together with the part of the activity journal     *)
(* that speaks of receptions: one entry deposited_file_received each time  *)
(* a recorder goes through JournalizeReception.  The journal is append     *)
(* only and nothing in the pipeline reads it.                              *)
(***************************************************************************)
EXTENDS DepositPipeline

\* As many webhooks at once as the API accepts connections.
ASSUME HandlersAssumption == IsFiniteSet(Handlers)

VARIABLE received  \* received[f]: entries "deposited_file_received" of f

journalVars == <<vars, received>>

Journalizes(f) ==
    \E r \in Recorders : /\ arrival[r].file = f
                         /\ arrival[r].pc = "journal"
                         /\ arrival'[r].pc = "enqueue"

JournalInit == Init /\ received = [f \in Files |-> 0]

RecordReception ==
    received' = [f \in Files |->
                    IF Journalizes(f) THEN received[f] + 1 ELSE received[f]]

JournalNext == Next /\ RecordReception

JournalSpec == JournalInit /\ [][JournalNext]_journalVars

FairJournalSpec == JournalSpec /\ Fairness

\* Unless a request or the worker stops half way, every file whose arrival was
\* recorded is journalized as received, whichever of the webhook and of the
\* sweep recorded it and however late the other one comes (record).
EveryReceptionJournalized ==
    \A f \in Files : row[f] = "pending_scan" ~> received[f] > 0 \/ faults > 0

\* Only what was uploaded is journalized as received, and again only by recorders
\* that have read the row together: a notification repeated afterwards, or a sweep,
\* adds no entry, and neither does one that starts again after a fault
\* (was_still_awaiting_its_object).
ReceptionsBounded ==
    \A f \in Files : received[f] > 0 => /\ Uploaded(f)
                                       /\ received[f] <= Cardinality(Recorders)
=============================================================================

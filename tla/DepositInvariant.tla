-------------------------- MODULE DepositInvariant --------------------------
(***************************************************************************)
(* The inductive invariant of DepositPipeline: what each actor may rely on *)
(* between two of its steps, whatever the others do.  Every conjunct is    *)
(* needed by the proofs of DepositPipeline_proofs.                         *)
(***************************************************************************)
EXTENDS DepositPipeline

Gone(f) == row[f] \in Deleted

\* A row tells what happened to its object: the buckets hold what was posted, and
\* nothing is recorded or judged before; an open reservation that has been used
\* finds its object in the quarantine; a file is infected or rejected for something
\* posted; and a reservation is only abandoned when nothing can arrive any more.
RowsTellTheTruth ==
    \A f \in Files :
        /\ InQuarantine(f) => quarantine[f] \in posted[f]
        /\ InVerified(f) => verified[f] \in posted[f]
        /\ row[f] = "none" => ~Uploaded(f) /\ ticket[f] = 0
        /\ row[f] \in {"pending_scan", "clean", "infected", "rejected"} => Uploaded(f)
        /\ row[f] = "pending_upload" /\ Uploaded(f) => InQuarantine(f)
        /\ row[f] = "pending_upload" /\ ticket[f] > 0 => age[f] + ticket[f] = TicketLifetime
        /\ row[f] = "infected" => "virus" \in posted[f]
        /\ row[f] = "rejected" => "nonconforming" \in posted[f]
        /\ row[f] = "abandoned" => ~Uploaded(f) /\ ticket[f] = 0

\* A recorder works on an object that was uploaded, and only drops the object
\* of a file without a row.
RecordersKnow ==
    \A r \in Recorders :
        /\ arrival[r].pc # "idle" => Uploaded(arrival[r].file)
        /\ arrival[r].pc = "drop" => Gone(arrival[r].file)

\* Until its verdict is written, the file under scan waits for it or has no row
\* any more.  What the worker saw in the object is what the key still holds, or a
\* post has crossed the scan.
ScanKnows ==
    LET f == worker.file IN
    /\ worker.pc \in ScanSteps => Uploaded(f) /\ row[f] # "pending_upload"
    /\ worker.pc \in {"scan", "detect", "promote", "unquarantine", "save_clean",
                      "drop_infected", "save_infected", "save_rejected"}
          => row[f] = "pending_scan" \/ Gone(f)
    /\ worker.pc = "detect" => quarantine[f] # "virus" \/ "scan" \in crossed[f]
    /\ worker.pc = "promote" =>
          quarantine[f] \in {"healthy", "none"} \/ "scan" \in crossed[f]
    /\ worker.pc \in {"unquarantine", "save_clean"} => InVerified(f) \/ Gone(f)
    /\ worker.pc \in {"drop_infected", "save_infected"} => "virus" \in posted[f]
    /\ worker.pc \in {"save_rejected", "drop_rejected"} => "nonconforming" \in posted[f]
    /\ worker.pc = "reopen" => posted[f] \cap {"virus", "nonconforming"} # {}

\* While a pass goes through the reservations, no scan runs: an object that has
\* arrived stays in the quarantine unless the row goes.
PassKnows ==
    /\ worker.pc \in {"recover", "discard"} =>
          /\ \A f \in worker.lapsed : row[f] # "none" /\ (Uploaded(f) \/ ticket[f] = 0)
          /\ \A f \in worker.todo :
                /\ row[f] # "none"
                /\ Uploaded(f) => InQuarantine(f) \/ Gone(f)
    /\ worker.pc = "discard" =>
          /\ worker.file \in worker.todo
          /\ Gone(worker.file) \/ (~Uploaded(worker.file) /\ ticket[worker.file] = 0)
    /\ worker.pc \in {"collect", "collect_delete"} =>
          \A f \in worker.todo : Uploaded(f)
    /\ worker.pc = "collect_delete" =>
          /\ Uploaded(worker.file)
          /\ row[worker.file] # "pending_upload"
          /\ \/ posted[worker.file] # {"healthy"}
             \/ InVerified(worker.file)
             \/ Gone(worker.file)

\* A removal deletes objects after the row, the quarantine first; what it has
\* deleted does not come back, unless it was posted again since.
RemovalKnows ==
    \A f \in Files :
        LET pc == removal[f].pc IN
        /\ pc \in {"view", "delete_row"} => row[f] # "none"
        /\ pc \in {"view", "delete_row"} /\ removal[f].seen # "pending_upload"
              => Uploaded(f)
        /\ pc \in {"reopen", "drop_first", "drop_second", "done"}
              => Gone(f) /\ Uploaded(f)
        /\ pc \in {"drop_second", "done"} =>
              ~InQuarantine(f) \/ "removal" \in crossed[f]
        /\ pc = "done" => ~InVerified(f) \/ "removal" \in crossed[f]

\* Every document has a clean file, or had one.
Vouched == /\ Documents # {}
           /\ \A d \in Documents : HasCleanFile(d) \/ d \in lost

\* Whoever is about to validate the request has seen it complete.
ValidationKnows ==
    /\ worker.pc = "validate" => Vouched
    /\ finish = "validate" => Vouched
    /\ status = "validated" => Vouched

\* The inductive invariant of the pipeline, from which every safety property of
\* DepositPipeline follows.
IInv ==
    /\ TypeOK
    /\ RowsTellTheTruth
    /\ RecordersKnow
    /\ ScanKnows
    /\ PassKnows
    /\ RemovalKnows
    /\ ValidationKnows
    /\ CleanIsStored
    /\ OnlyHealthyVerified
    /\ OneOccupant
    /\ HealthyDepositKept
=============================================================================

------------------------ MODULE DepositJournal_proofs ------------------------
(***************************************************************************)
(* Proofs about DepositJournal.  The journal adds nothing to what the      *)
(* pipeline does, so that its invariant carries over; what is proved here  *)
(* is how many times one reception may be told, for any number of files,   *)
(* handlers, deliveries and faults.                                        *)
(***************************************************************************)
EXTENDS DepositJournal, DepositPipeline_proofs, FiniteSetTheorems

\* The recorders that have read the row of f as awaiting its object, and have not
\* told of its reception yet.
Eager(f) == {r \in Recorders : /\ arrival[r].file = f
                               /\ \/ arrival[r].pc = "journal"
                                  \/ arrival[r].pc = "save" /\ arrival[r].awaiting}

\* The inductive invariant: an entry is told by a recorder that was eager while
\* the row was awaiting its object, nobody becomes eager afterwards, and nobody has
\* told anything before the row was saved.
JournalKnown ==
    \A f \in Files :
        /\ received[f] \in Nat
        /\ received[f] > 0 => Uploaded(f)
        /\ row[f] = "pending_upload" =>
              /\ received[f] = 0
              /\ \A r \in Recorders : arrival[r].file = f => arrival[r].pc # "journal"
        /\ received[f] + Cardinality(Eager(f)) <= Cardinality(Recorders)

\* There are finitely many recorders, and so finitely many eager ones.
LEMMA FiniteRecorders ==
    ASSUME NEW S \in SUBSET Recorders
    PROVE  /\ IsFiniteSet(Recorders) /\ IsFiniteSet(S)
           /\ Cardinality(S) \in Nat /\ Cardinality(Recorders) \in Nat
           /\ Cardinality(S) <= Cardinality(Recorders)
<1>1. IsFiniteSet(Recorders)
  BY HandlersAssumption, FS_AddElement DEF Recorders
<1> QED  BY <1>1, FS_Subset, FS_CardinalityType

-----------------------------------------------------------------------------
(***************************************************************************)
(* What one step of the pipeline does to the recorders and to the rows.    *)
(***************************************************************************)
\* Recorder r starts, gives up, or goes on without anything left to tell.
Leaves(r) == arrival'[r].pc \in {"idle", "find", "drop", "discard"}

Reads(r) == /\ arrival[r].pc = "find" /\ arrival'[r].pc = "save"
            /\ arrival'[r].file = arrival[r].file
            /\ arrival'[r].awaiting = AwaitsObject(arrival[r].file)
            /\ row' = row

Writes(r) == /\ arrival[r].pc = "save"
             /\ arrival'[r].file = arrival[r].file
             /\ arrival'[r].pc = IF arrival[r].awaiting THEN "journal" ELSE "enqueue"
             /\ row'[arrival[r].file] # "pending_upload"

Tells(r) == /\ arrival[r].pc = "journal" /\ arrival'[r].pc = "enqueue"
            /\ arrival'[r].file = arrival[r].file
            /\ row' = row

Moves(r) == /\ \A q \in Recorders : q # r => arrival'[q] = arrival[q]
            /\ Leaves(r) \/ Reads(r) \/ Writes(r) \/ Tells(r)

\* The steps of a recorder, in their turn.
LEMMA RecorderMoves ==
    ASSUME TypeOK, NEW r \in Recorders, RecorderStep(r)
    PROVE  Moves(r)
<1> DEFINE f == arrival[r].file
<1>0. arrival[r].pc # "idle" => f \in Files
  BY DEF TypeOK
<1>1. CASE FindArrivedFile(r)
  <2>1. /\ arrival[r].pc = "find" /\ row' = row
        /\ arrival' = [arrival EXCEPT ![r].pc = IF HasRow(f) THEN "save" ELSE "drop",
                                      ![r].awaiting = AwaitsObject(f)]
    BY <1>1 DEF FindArrivedFile, At
  <2>2. /\ \A q \in Recorders : q # r => arrival'[q] = arrival[q]
        /\ arrival'[r].pc = (IF HasRow(f) THEN "save" ELSE "drop")
        /\ arrival'[r].file = f /\ arrival'[r].awaiting = AwaitsObject(f)
    BY <2>1 DEF TypeOK
  <2> QED  BY <2>1, <2>2 DEF Moves, Leaves, Reads
<1>2. CASE SaveArrival(r)
  <2>1. /\ arrival[r].pc = "save" /\ Save(f, "pending_scan")
        /\ Goto(r, IF arrival[r].awaiting THEN "journal" ELSE "enqueue")
    BY <1>2 DEF SaveArrival, At
  <2>2. /\ \A q \in Recorders : q # r => arrival'[q] = arrival[q]
        /\ arrival'[r].pc = (IF arrival[r].awaiting THEN "journal" ELSE "enqueue")
        /\ arrival'[r].file = f
    BY <2>1 DEF TypeOK, Goto
  <2>3. row'[f] # "pending_upload"
    BY <1>0, <2>1 DEF Save, HasRow, FileStatuses, TypeOK
  <2> QED  BY <2>1, <2>2, <2>3 DEF Moves, Writes
<1>3. CASE RefuseArrival(r) \/ DiscardSuperseded(r)
  <2>1. Goto(r, "discard") \/ Goto(r, "drop")
    BY <1>3 DEF RefuseArrival, DiscardSuperseded
  <2> QED  BY <2>1 DEF Moves, Leaves, Goto, TypeOK
<1>4. CASE DropArrivedObject(r) \/ EnqueueScan(r)
  BY <1>4 DEF DropArrivedObject, EnqueueScan, EndArrival, IdleArrival, Moves, Leaves, TypeOK
<1>5. CASE JournalizeReception(r)
  BY <1>5 DEF JournalizeReception, At, Goto, Moves, Tells, TypeOK
<1> QED  BY <1>1, <1>2, <1>3, <1>4, <1>5 DEF RecorderStep

\* A step of the pipeline moves one recorder at most.
LEMMA OneMoves ==
    ASSUME TypeOK, [Next]_vars
    PROVE  arrival' = arrival \/ \E r \in Recorders : Moves(r)
<1>1. CASE \E r \in Recorders : RecorderStep(r)
  BY <1>1, RecorderMoves
<1>2. ASSUME NEW h \in Handlers, HandlerFails(h) \/ (\E f \in Files : Deliver(h, f))
      PROVE  h \in Recorders /\ Moves(h)
  BY <1>2 DEF HandlerFails, Deliver, EndArrival, StartArrival, IdleArrival, Moves, Leaves,
     TypeOK, Recorders
<1>3. ASSUME PassFails \/ (\E f \in Files : RecoverArrival(f))
      PROVE  Worker \in Recorders /\ Moves(Worker)
  BY <1>3 DEF PassFails, RecoverArrival, EndArrival, StartArrival, IdleArrival, Moves, Leaves,
     TypeOK, Recorders
<1>4. ASSUME NEW f \in Files, \/ Reserve(f) \/ Upload(f) \/ StartRemoval(f) \/ RemovalStep(f)
                              \/ RemovalFails(f) \/ StartScan(f) \/ NothingToScan(f)
      PROVE  arrival' = arrival
  BY <1>4 DEF Reserve, Upload, StartRemoval, RemovalStep, PlanRemoval, RemoveRow,
     ReopenAfterRemoval, RemoveObject, RemovalFails, RemovalUnchanged, StartScan,
     NothingToScan, ScanUnchanged
<1>5. ASSUME Tick \/ FinishDeposit \/ FinishStep \/ FinishFails \/ LinkEnds \/ UNCHANGED vars
      PROVE  arrival' = arrival
  BY <1>5 DEF Tick, FinishDeposit, FinishStep, FinishReadCompletion, FinishValidate,
     FinishFails, LinkEnds, FinishUnchanged, vars
<1>6. ASSUME ScanStep \/ ScanFails PROVE arrival' = arrival
  BY <1>6 DEF ScanStep, ScanStoredObject, DetectType, ObjectMissing, CopyToVerified,
     RemoveFromQuarantine, SaveClean, ScanReadCompletion, ScanValidate, DropInfectedObject,
     SaveInfected, SaveRejected, DropRejectedObject, NoticeCompletenessLost, ScanFails,
     ScanUnchanged
<1>7. ASSUME NEW f \in Files, ExamineReservation(f) \/ RequeueScan(f) \/ ExamineObject(f)
      PROVE  arrival' = arrival
  BY <1>7 DEF ExamineReservation, RequeueScan, ExamineObject
<1>8. ASSUME \/ StartPass \/ DiscardReservation \/ ListOverdueScans \/ ListQuarantine
             \/ CollectObject \/ CloseExpired
      PROVE  arrival' = arrival
  BY <1>8 DEF StartPass, DiscardReservation, ListOverdueScans, ListQuarantine, CollectObject,
     CloseExpired
<1> QED  BY <1>1, <1>2, <1>3, <1>4, <1>5, <1>6, <1>7, <1>8 DEF Next, PassStep

\* No row awaits its object but from its insertion on, and no upload is undone.
LEMMA NeverAwaitsAgain ==
    ASSUME IInv, [Next]_vars, NEW f \in Files
    PROVE  /\ row'[f] = "pending_upload" => row[f] \in {"none", "pending_upload"}
           /\ Uploaded(f) => Uploaded(f)'
<1>1. TypeOK /\ Allowed
  BY PromiseStep DEF IInv
<1>2. Uploaded(f) => Uploaded(f)'
  <2>1. ASSUME NEW g \in Files, Promise!Upload(g) PROVE Uploaded(f) => Uploaded(f)'
    BY <1>1, <2>1 DEF Promise!Upload, Uploaded, TypeOK
  <2>2. ASSUME NEW g \in Files,
               \/ Promise!Reserve(g) \/ Promise!Receive(g) \/ Promise!Serve(g)
               \/ Promise!Judge(g) \/ Promise!Withdraw(g) \/ Promise!Abandon(g)
               \/ Promise!Dispose(g) \/ Promise!Erase(g)
        PROVE  posted' = posted
    BY <2>2 DEF Promise!Reserve, Promise!Receive, Promise!Serve, Promise!Judge,
       Promise!Withdraw, Promise!Abandon, Promise!Dispose, Promise!Erase, Promise!Becomes
  <2>3. ASSUME \/ Promise!Finish \/ Promise!Validate \/ Promise!Reopen \/ Promise!Close
               \/ UNCHANGED PromiseVars
        PROVE  posted' = posted
    BY <2>3 DEF Promise!Finish, Promise!Validate, Promise!Reopen, Promise!Close,
       Promise!StatusBecomes, PromiseVars
  <2> QED  BY <1>1, <2>1, <2>2, <2>3 DEF Allowed, Promise!Next, Uploaded
<1>3. /\ Life[f] = LifeOf(row[f]) /\ Life'[f] = LifeOf(row'[f])
      /\ Life = [g \in Files |-> Life[g]]
  BY DEF Life, LifeOf
<1>4. ASSUME Life'[f] = "pending_upload" PROVE Life[f] \in {"none", "pending_upload"}
  <2>1. ASSUME NEW g \in Files, Promise!Reserve(g) PROVE Life[f] \in {"none", "pending_upload"}
    BY <1>3, <1>4, <2>1 DEF Promise!Reserve, Promise!Becomes
  <2>2. ASSUME NEW g \in Files, NEW s, s # "pending_upload", Life' = [Life EXCEPT ![g] = s]
        PROVE  Life[f] = "pending_upload"
    BY <1>3, <1>4, <2>2
  <2>3. ASSUME NEW g \in Files,
               \/ Promise!Receive(g) \/ Promise!Withdraw(g) \/ Promise!Abandon(g)
        PROVE  \E s : s # "pending_upload" /\ Life' = [Life EXCEPT ![g] = s]
    BY <2>3 DEF Promise!Receive, Promise!Withdraw, Promise!Abandon, Promise!Becomes
  <2>4. ASSUME NEW g \in Files, Promise!Judge(g)
        PROVE  \E s : s # "pending_upload" /\ Life' = [Life EXCEPT ![g] = s]
    BY <2>4 DEF Promise!Judge, Promise!Becomes
  <2>5. ASSUME NEW g \in Files,
               Promise!Upload(g) \/ Promise!Serve(g) \/ Promise!Dispose(g) \/ Promise!Erase(g)
        PROVE  Life' = Life
    BY <2>5 DEF Promise!Upload, Promise!Serve, Promise!Dispose, Promise!Erase
  <2>6. ASSUME \/ Promise!Finish \/ Promise!Validate \/ Promise!Reopen \/ Promise!Close
               \/ UNCHANGED PromiseVars
        PROVE  Life' = Life
    BY <2>6 DEF Promise!Finish, Promise!Validate, Promise!Reopen, Promise!Close,
       Promise!StatusBecomes, PromiseVars
  <2> QED  BY <1>1, <1>4, <2>1, <2>2, <2>3, <2>4, <2>5, <2>6 DEF Allowed, Promise!Next
<1>5. /\ row'[f] = "pending_upload" => Life'[f] = "pending_upload"
      /\ Life[f] \in {"none", "pending_upload"} => row[f] \in {"none", "pending_upload"}
  BY <1>3 DEF LifeOf
<1> QED  BY <1>2, <1>4, <1>5

-----------------------------------------------------------------------------
(***************************************************************************)
(* The invariant of the journal.                                           *)
(***************************************************************************)
\* Nothing is told at first.
LEMMA NothingTold == JournalInit => JournalKnown
<1> SUFFICES ASSUME JournalInit, NEW f \in Files
             PROVE  /\ received[f] = 0 /\ row[f] = "none"
                    /\ Cardinality(Eager(f)) = 0 /\ Cardinality(Recorders) \in Nat
  BY DEF JournalKnown
<1>1. received[f] = 0 /\ row[f] = "none"
  BY DEF JournalInit, Init
<1>2. Eager(f) = {}
  BY DEF JournalInit, Init, IdleArrival, Eager
<1> QED  BY <1>1, <1>2, FS_EmptySet, FiniteRecorders

\* An entry is told by the recorder that goes through JournalizeReception.
LEMMA WhoTells ==
    ASSUME NEW r \in Recorders, Moves(r), NEW f \in Files
    PROVE  Journalizes(f) <=> Tells(r) /\ arrival[r].file = f
<1>1. ASSUME Journalizes(f) PROVE Tells(r) /\ arrival[r].file = f
  <2>1. PICK q \in Recorders : /\ arrival[q].file = f /\ arrival[q].pc = "journal"
                               /\ arrival'[q].pc = "enqueue"
    BY <1>1 DEF Journalizes
  <2>2. q = r
    BY <2>1 DEF Moves
  <2> QED  BY <2>1, <2>2 DEF Moves, Leaves, Reads, Writes
<1>2. ASSUME Tells(r), arrival[r].file = f PROVE Journalizes(f)
  BY <1>2 DEF Tells, Journalizes
<1> QED  BY <1>1, <1>2

\* Nobody becomes eager but who reads a row that awaits its object.
LEMMA WhoIsEager ==
    ASSUME NEW r \in Recorders, Moves(r), NEW f \in Files
    PROVE  \/ Eager(f)' \subseteq Eager(f)
           \/ Reads(r) /\ arrival[r].file = f /\ row'[f] = "pending_upload"
<1> SUFFICES ASSUME NEW q \in Eager(f)', q \notin Eager(f)
             PROVE  Reads(r) /\ arrival[r].file = f /\ row'[f] = "pending_upload"
  OBVIOUS
<1>1. /\ q \in Recorders /\ arrival'[q].file = f
      /\ \/ arrival'[q].pc = "journal"
         \/ arrival'[q].pc = "save" /\ arrival'[q].awaiting
  BY DEF Eager, Recorders
<1>2. q = r
  BY <1>1 DEF Eager, Moves
<1>3. ~ Leaves(r) /\ ~ Tells(r)
  BY <1>1, <1>2 DEF Leaves, Tells
<1>4. ~ Writes(r)
  BY <1>1, <1>2 DEF Writes, Eager
<1> QED  BY <1>1, <1>2, <1>3, <1>4 DEF Moves, Reads, AwaitsObject

\* One recorder moves.
LEMMA MoveKnown ==
    ASSUME IInv, JournalKnown, [Next]_vars, RecordReception, NEW r \in Recorders, Moves(r)
    PROVE  JournalKnown'
<1> SUFFICES ASSUME NEW f \in Files
             PROVE  /\ received'[f] \in Nat
                    /\ received'[f] > 0 => Uploaded(f)'
                    /\ row'[f] = "pending_upload" =>
                          /\ received'[f] = 0
                          /\ \A q \in Recorders : arrival'[q].file = f => arrival'[q].pc # "journal"
                    /\ received'[f] + Cardinality(Eager(f)') <= Cardinality(Recorders)
  BY DEF JournalKnown
<1>1. /\ received[f] \in Nat
      /\ received[f] > 0 => Uploaded(f)
      /\ row[f] = "pending_upload" =>
            /\ received[f] = 0
            /\ \A q \in Recorders : arrival[q].file = f => arrival[q].pc # "journal"
      /\ received[f] + Cardinality(Eager(f)) <= Cardinality(Recorders)
  BY DEF JournalKnown
<1>2. /\ row'[f] = "pending_upload" => row[f] \in {"none", "pending_upload"}
      /\ Uploaded(f) => Uploaded(f)'
  BY NeverAwaitsAgain
<1>3. /\ row[f] = "none" => ~ Uploaded(f)
      /\ \A q \in Recorders : arrival[q].pc = "journal" /\ arrival[q].file = f => Uploaded(f)
  BY DEF IInv, RowsTellTheTruth, RecordersKnow
<1>4. row'[f] = "pending_upload" =>
         /\ received[f] = 0
         /\ \A q \in Recorders : arrival[q].file = f => arrival[q].pc # "journal"
  BY <1>1, <1>2, <1>3
<1>5. Eager(f) \in SUBSET Recorders /\ Eager(f)' \in SUBSET Recorders
  BY DEF Eager, Recorders
<1>6. /\ Cardinality(Eager(f)) \in Nat /\ Cardinality(Eager(f)') \in Nat
      /\ Cardinality(Recorders) \in Nat /\ IsFiniteSet(Eager(f))
      /\ Cardinality(Eager(f)') <= Cardinality(Recorders)
  BY <1>5, FiniteRecorders
<1>7. CASE Tells(r) /\ arrival[r].file = f
  <2>1. received'[f] = received[f] + 1
    BY <1>7, WhoTells DEF RecordReception
  <2>2. r \in Eager(f) /\ r \notin Eager(f)' /\ Uploaded(f)
    BY <1>3, <1>7 DEF Tells, Eager
  <2>3. row'[f] # "pending_upload"
    BY <1>4, <1>7 DEF Tells
  <2>4. Eager(f)' \subseteq Eager(f) \ {r}
    BY <1>7, <2>2, <2>3, WhoIsEager
  <2>5. Cardinality(Eager(f)') <= Cardinality(Eager(f)) - 1
    <3>1. /\ IsFiniteSet(Eager(f) \ {r})
          /\ Cardinality(Eager(f) \ {r}) = Cardinality(Eager(f)) - 1
      BY <1>6, <2>2, FS_RemoveElement
    <3> QED  BY <2>4, <3>1, FS_Subset
  <2> QED  BY <1>1, <1>2, <1>6, <2>1, <2>2, <2>3, <2>5
<1>8. CASE ~ (Tells(r) /\ arrival[r].file = f)
  <2>1. received'[f] = received[f]
    BY <1>8, WhoTells DEF RecordReception
  <2>2. row'[f] = "pending_upload" =>
           \A q \in Recorders : arrival'[q].file = f => arrival'[q].pc # "journal"
    <3>1. ASSUME NEW q \in Recorders, q # r, row'[f] = "pending_upload", arrival'[q].file = f
          PROVE  arrival'[q].pc # "journal"
      BY <1>4, <3>1 DEF Moves
    <3>2. ASSUME row'[f] = "pending_upload", arrival'[r].file = f
          PROVE  arrival'[r].pc # "journal"
      BY <3>2 DEF Moves, Leaves, Reads, Writes, Tells
    <3> QED  BY <3>1, <3>2
  <2>3. received[f] + Cardinality(Eager(f)') <= Cardinality(Recorders)
    <3>1. CASE Eager(f)' \subseteq Eager(f)
      <4>1. Cardinality(Eager(f)') <= Cardinality(Eager(f))
        BY <1>6, <3>1, FS_Subset
      <4> QED  BY <1>1, <1>6, <4>1
    <3>2. CASE row'[f] = "pending_upload"
      BY <1>4, <1>6, <3>2
    <3> QED  BY <3>1, <3>2, WhoIsEager
  <2> QED  BY <1>1, <1>2, <1>4, <2>1, <2>2, <2>3
<1> QED  BY <1>7, <1>8

\* Every step keeps the invariant of the journal.
LEMMA JournalStep == IInv /\ JournalKnown /\ [JournalNext]_journalVars => JournalKnown'
<1> SUFFICES ASSUME IInv, JournalKnown, [JournalNext]_journalVars PROVE JournalKnown'
  OBVIOUS
<1>1. CASE UNCHANGED journalVars
  <2>1. UNCHANGED <<received, row, posted, arrival>>
    BY <1>1 DEF journalVars, vars, uploads
  <2> QED  BY <2>1 DEF JournalKnown, Eager, Uploaded
<1>2. CASE Next /\ RecordReception
  <2>1. CASE \E r \in Recorders : Moves(r)
    BY <1>2, <2>1, MoveKnown
  <2>2. CASE arrival' = arrival
    <3>1. ASSUME NEW f \in Files
          PROVE  received'[f] = received[f] /\ Eager(f)' = Eager(f)
      BY <1>2, <2>2, <3>1 DEF RecordReception, Journalizes, Eager
    <3>2. ASSUME NEW f \in Files
          PROVE  /\ row'[f] = "pending_upload" => row[f] \in {"none", "pending_upload"}
                 /\ Uploaded(f) => Uploaded(f)'
      BY <1>2, <3>2, NeverAwaitsAgain
    <3>3. ASSUME NEW f \in Files
          PROVE  /\ row[f] = "none" => ~ Uploaded(f)
                 /\ \A r \in Recorders : arrival[r].pc = "journal" /\ arrival[r].file = f =>
                       Uploaded(f)
      BY <3>3 DEF IInv, RowsTellTheTruth, RecordersKnow
    <3> QED  BY <2>2, <3>1, <3>2, <3>3 DEF JournalKnown
  <2>3. TypeOK
    BY DEF IInv
  <2> QED  BY <1>2, <2>1, <2>2, <2>3, OneMoves
<1> QED  BY <1>1, <1>2 DEF JournalNext

\* The journal only looks on: the pipeline it follows is the pipeline.
LEMMA StillThePipeline == JournalSpec => Spec
<1>1. [JournalNext]_journalVars => [Next]_vars
  BY DEF JournalNext, journalVars
<1> QED  BY <1>1, PTL DEF JournalSpec, JournalInit, Spec

\* The invariants of the pipeline and of its journal hold together.
LEMMA JournalInvariance == JournalSpec => []JournalKnown
BY NothingTold, JournalStep, StillThePipeline, Invariance, PTL DEF JournalSpec

\* However often the storage repeats itself, whoever stops half way, and however
\* many sweeps go by, a reception is journalized after an upload only, and at most
\* once by each recorder that had read the row together with the first.
THEOREM ReceptionsStayBounded == JournalSpec => []ReceptionsBounded
<1>1. JournalKnown => ReceptionsBounded
  <2> SUFFICES ASSUME JournalKnown, NEW f \in Files, received[f] > 0
               PROVE  Uploaded(f) /\ received[f] <= Cardinality(Recorders)
    BY DEF ReceptionsBounded
  <2>1. /\ received[f] \in Nat /\ Uploaded(f)
        /\ received[f] + Cardinality(Eager(f)) <= Cardinality(Recorders)
    BY DEF JournalKnown
  <2>2. Cardinality(Eager(f)) \in Nat /\ Cardinality(Recorders) \in Nat
    BY FiniteRecorders DEF Eager
  <2> QED  BY <2>1, <2>2 DEF Uploaded
<1> QED  BY <1>1, JournalInvariance, PTL
=============================================================================

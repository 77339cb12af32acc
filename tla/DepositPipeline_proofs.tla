----------------------- MODULE DepositPipeline_proofs -----------------------
(***************************************************************************)
(* Proofs about DepositPipeline, for any number of files, documents,       *)
(* webhook handlers, deliveries, removals and faults.                      *)
(*                                                                         *)
(* One lemma per conjunct of the inductive invariant says that every step  *)
(* keeps it.  In each of them, the actions that change none of the         *)
(* variables the conjunct speaks of are put together by actor; every other *)
(* action has a step of its own.                                           *)
(***************************************************************************)
EXTENDS DepositInvariant, TLAPS

USE DEF uploads, InQuarantine, InVerified, Uploaded, Without

\* The tables of the request only lead to statuses of the request.
LEMMA EventType ==
    ASSUME NEW s \in RequestStatuses, NEW e
    PROVE  AfterPipelineEvent(s, e) \in RequestStatuses
BY DEF AfterPipelineEvent, RequestStatuses

\* What a post leaves: another content on the key of a file that has a ticket,
\* longer histories, and the mark of what it has crossed.
LEMMA UploadEffect ==
    ASSUME TypeOK, NEW f \in Files, Upload(f)
    PROVE  /\ ticket[f] # 0
           /\ quarantine' \in [Files -> ContentKinds \cup {"none"}]
           /\ posted' \in [Files -> SUBSET ContentKinds]
           /\ crossed' \in [Files -> SUBSET {"scan", "removal"}]
           /\ quarantine'[f] \in ContentKinds /\ quarantine'[f] \in posted'[f]
           /\ \A g \in Files : posted[g] \subseteq posted'[g] /\ crossed[g] \subseteq crossed'[g]
           /\ \A g \in Files \ {f} : /\ quarantine'[g] = quarantine[g] /\ posted'[g] = posted[g]
                                    /\ crossed'[g] = crossed[g]
           /\ Crossed(f) \subseteq crossed'[f]
<1>1. /\ ticket[f] # 0
      /\ quarantine \in [Files -> ContentKinds \cup {"none"}]
      /\ posted \in [Files -> SUBSET ContentKinds]
      /\ crossed \in [Files -> SUBSET {"scan", "removal"}]
  BY DEF Upload, TypeOK
<1>2. PICK c \in ContentKinds : /\ quarantine' = [quarantine EXCEPT ![f] = c]
                               /\ posted' = [posted EXCEPT ![f] = @ \cup {c}]
  BY ContentsAssumption DEF Upload
<1>3. crossed' = [crossed EXCEPT ![f] = @ \cup Crossed(f)]
  BY DEF Upload
<1>4. Crossed(f) \subseteq {"scan", "removal"}
  BY DEF Crossed
<1> QED  BY <1>1, <1>2, <1>3, <1>4

-----------------------------------------------------------------------------
(***************************************************************************)
(* Init implies the invariant.                                             *)
(***************************************************************************)
\* The initial state is of the right types.
LEMMA TypeInit == Init => TypeOK
BY ConstantAssumption
   DEF Init, TypeOK, IdleArrival, IdleWorker, IdleRemoval, RequestStatuses,
       MaxAge, ArrivalSteps, ScanSteps, PassSteps, RemovalSteps, Recorders

\* Initially there is no row, no object, and nothing in progress.
LEMMA InvInit == Init => IInv
<1> SUFFICES ASSUME Init PROVE IInv
  OBVIOUS
<1>1. /\ \A f \in Files : /\ row[f] = "none" /\ posted[f] = {} /\ ticket[f] = 0
                          /\ quarantine[f] = "none" /\ verified[f] = "none"
      /\ status = "incomplete" /\ finish = "idle"
  BY DEF Init
<1>2. worker.pc = "idle" /\ \A f \in Files : removal[f].pc = "idle"
  BY DEF Init, IdleWorker, IdleRemoval
<1>3. \A r \in Recorders : arrival[r].pc = "idle"
  BY DEF Init, IdleArrival
<1>4. TypeOK
  BY TypeInit
<1>5. RowsTellTheTruth /\ RecordersKnow
  BY <1>1, <1>3 DEF RowsTellTheTruth, RecordersKnow, Uploaded
<1>6. ScanKnows /\ PassKnows
  BY <1>2 DEF ScanKnows, PassKnows, ScanSteps
<1>7. RemovalKnows /\ ValidationKnows
  BY <1>1, <1>2 DEF RemovalKnows, ValidationKnows
<1>8. CleanIsStored /\ OnlyHealthyVerified
  BY <1>1 DEF CleanIsStored, OnlyHealthyVerified
<1>9. OneOccupant /\ HealthyDepositKept
  BY <1>1 DEF OneOccupant, HealthyDepositKept, Occupying
<1> QED  BY <1>4, <1>5, <1>6, <1>7, <1>8, <1>9 DEF IInv

-----------------------------------------------------------------------------
(***************************************************************************)
(* Every step keeps the invariant, one conjunct at a time.                 *)
(***************************************************************************)
\* Every step keeps the types.
LEMMA TypeStep == TypeOK /\ [Next]_vars => TypeOK'
<1> SUFFICES ASSUME TypeOK, [Next]_vars PROVE TypeOK'
  OBVIOUS
<1> USE ConstantAssumption DEF TypeOK, MaxAge, Recorders
<1>1. CASE UNCHANGED vars
  BY <1>1 DEF vars
<1>2. ASSUME NEW f \in Files, Reserve(f) PROVE TypeOK'
  BY <1>2 DEF Reserve, FileStatuses, Deleted, OccupantOf, Occupying
<1>3. ASSUME NEW f \in Files, Upload(f) PROVE TypeOK'
  <2>1. /\ quarantine' \in [Files -> ContentKinds \cup {"none"}]
        /\ posted' \in [Files -> SUBSET ContentKinds]
        /\ crossed' \in [Files -> SUBSET {"scan", "removal"}]
    <3> HIDE DEF TypeOK
    <3> QED  BY <1>3, UploadEffect
  <2> QED  BY <1>3, <2>1 DEF Upload
<1>4. ASSUME NEW f \in Files, StartRemoval(f) PROVE TypeOK'
  <2>1. row[f] \in FileStatuses
    BY <1>4 DEF StartRemoval, HasRow
  <2> QED
    BY <2>1, <1>4 DEF StartRemoval, RemovalUnchanged, RemovalSteps
<1>5. ASSUME NEW f \in Files, PlanRemoval(f) PROVE TypeOK'
  <2>1. removal' \in [Files -> [pc : RemovalSteps, seen : FileStatuses \cup {"none"}]]
    BY <1>5 DEF PlanRemoval, Removing, IdleRemoval, RemovalSteps
  <2> QED  BY <1>5, <2>1 DEF PlanRemoval, RemovalUnchanged
<1>6. ASSUME NEW f \in Files, RemoveRow(f) PROVE TypeOK'
  BY <1>6 DEF RemoveRow, RemovalUnchanged, Removing, DeleteRow, LosesClean,
         AfterRemovedRow, IdleRemoval, FileStatuses, Deleted, RemovalSteps
<1>7. ASSUME NEW f \in Files, ReopenAfterRemoval(f) PROVE TypeOK'
  BY <1>7, EventType DEF ReopenAfterRemoval, RemovalUnchanged, Removing,
         ApplyPipelineEvent, RemovalGoto, RemovalSteps, FileStatuses
<1>8. ASSUME NEW f \in Files, RemoveObject(f) PROVE TypeOK'
  BY <1>8 DEF RemoveObject, RemovalUnchanged, BucketAt, RemovalGoto,
         RemovalSteps, FileStatuses
<1>9. ASSUME NEW f \in Files, RemovalFails(f) PROVE TypeOK'
  BY <1>9 DEF RemovalFails, Fault, IdleRemoval, RemovalSteps, FileStatuses
<1>10. CASE Tick
  BY <1>10 DEF Tick, Ages
<1>11. CASE FinishDeposit
  BY <1>11 DEF FinishDeposit, FinishUnchanged, MayFinishDeposit,
         AfterFinishedDeposit, RequestStatuses
<1>12. CASE FinishReadCompletion
  BY <1>12 DEF FinishReadCompletion, FinishUnchanged, AfterFinishRead, Complete
<1>13. CASE FinishValidate
  BY <1>13, EventType DEF FinishValidate, FinishUnchanged, ApplyPipelineEvent
<1>14. CASE FinishFails
  BY <1>14 DEF FinishFails, Fault
<1>15. CASE LinkEnds
  BY <1>15, EventType DEF LinkEnds, FinishUnchanged, ApplyPipelineEvent
<1>16. ASSUME NEW h \in Handlers, NEW f \in Files, Deliver(h, f) PROVE TypeOK'
  BY <1>16 DEF Deliver, StartArrival, At, ArrivalSteps
<1>17. ASSUME NEW r \in Recorders, FindArrivedFile(r) PROVE TypeOK'
  <2>1. /\ arrival[r].pc = "find"
        /\ \E pc \in {"save", "drop"}, b \in BOOLEAN :
              arrival' = [arrival EXCEPT ![r].pc = pc, ![r].awaiting = b]
    BY <1>17 DEF FindArrivedFile, At, AwaitsObject
  <2>2. /\ arrival' \in [Recorders -> [pc : ArrivalSteps, file : Files \cup {NoFile},
                                       awaiting : BOOLEAN]]
        /\ \A q \in Recorders : arrival'[q].file = arrival[q].file
        /\ \A q \in Recorders : arrival'[q].pc # "idle" => arrival[q].pc # "idle"
    <3>1. arrival \in [Recorders -> [pc : ArrivalSteps, file : Files \cup {NoFile},
                                    awaiting : BOOLEAN]]
      OBVIOUS
    <3> HIDE DEF TypeOK
    <3> QED  BY <2>1, <3>1 DEF ArrivalSteps
  <2> QED  BY <1>17, <2>2 DEF FindArrivedFile
<1>18. ASSUME NEW r \in Recorders, SaveArrival(r) PROVE TypeOK'
  <2>1. arrival[r].file \in Files
    BY <1>18 DEF SaveArrival, At
  <2>2. /\ row' \in [Files -> FileStatuses \cup Deleted \cup {"none"}]
        /\ lost' \subseteq Documents /\ age' \in [Files -> 0..MaxAge]
    BY <1>18, <2>1 DEF SaveArrival, Save, LosesClean, FileStatuses
  <2>3. /\ arrival' \in [Recorders -> [pc : ArrivalSteps, file : Files \cup {NoFile},
                                       awaiting : BOOLEAN]]
        /\ \A q \in Recorders : arrival'[q].file = arrival[q].file
        /\ \A q \in Recorders : arrival'[q].pc # "idle" => arrival[q].pc # "idle"
    <3>1. PICK pc \in {"journal", "enqueue"} :
             arrival[r].pc = "save" /\ arrival' = [arrival EXCEPT ![r].pc = pc]
      BY <1>18 DEF SaveArrival, At, Goto
    <3>2. arrival \in [Recorders -> [pc : ArrivalSteps, file : Files \cup {NoFile},
                                    awaiting : BOOLEAN]]
      OBVIOUS
    <3> HIDE DEF TypeOK, IInv
    <3> QED  BY <3>1, <3>2 DEF ArrivalSteps
  <2> QED  BY <1>18, <2>2, <2>3 DEF SaveArrival
<1>19. ASSUME NEW r \in Recorders, RefuseArrival(r) PROVE TypeOK'
  <2>1. arrival[r].pc = "save" /\ arrival' = [arrival EXCEPT ![r].pc = "discard"]
    BY <1>19 DEF RefuseArrival, At, Goto
  <2>2. /\ arrival' \in [Recorders -> [pc : ArrivalSteps, file : Files \cup {NoFile},
                                       awaiting : BOOLEAN]]
        /\ \A q \in Recorders : arrival'[q].file = arrival[q].file
        /\ \A q \in Recorders : arrival'[q].pc # "idle" => arrival[q].pc # "idle"
    <3>1. arrival \in [Recorders -> [pc : ArrivalSteps, file : Files \cup {NoFile},
                                    awaiting : BOOLEAN]]
      OBVIOUS
    <3> HIDE DEF TypeOK, IInv
    <3> QED  BY <2>1, <3>1 DEF ArrivalSteps
  <2> QED  BY <1>19, <2>2 DEF RefuseArrival
<1>20. ASSUME NEW r \in Recorders, DiscardSuperseded(r) PROVE TypeOK'
  <2>1. arrival[r].file \in Files
    BY <1>20 DEF DiscardSuperseded, At
  <2>2. row' \in [Files -> FileStatuses \cup Deleted \cup {"none"}] /\ lost' \subseteq Documents
    BY <1>20, <2>1 DEF DiscardSuperseded, DeleteRow, LosesClean, Deleted
  <2>3. /\ arrival' \in [Recorders -> [pc : ArrivalSteps, file : Files \cup {NoFile},
                                       awaiting : BOOLEAN]]
        /\ \A q \in Recorders : arrival'[q].file = arrival[q].file
        /\ \A q \in Recorders : arrival'[q].pc # "idle" => arrival[q].pc # "idle"
    BY <1>20 DEF DiscardSuperseded, At, Goto, ArrivalSteps
  <2> QED  BY <1>20, <2>2, <2>3 DEF DiscardSuperseded
<1>21. ASSUME NEW r \in Recorders, DropArrivedObject(r) PROVE TypeOK'
  BY <1>21 DEF DropArrivedObject, At, EndArrival, IdleArrival, ArrivalSteps
<1>22. ASSUME NEW r \in Recorders, JournalizeReception(r) PROVE TypeOK'
  BY <1>22 DEF JournalizeReception, At, Goto, ArrivalSteps
<1>23. ASSUME NEW r \in Recorders, EnqueueScan(r) PROVE TypeOK'
  BY <1>23 DEF EnqueueScan, At, EndArrival, IdleArrival, ArrivalSteps
<1>24. ASSUME NEW h \in Handlers, HandlerFails(h) PROVE TypeOK'
  BY <1>24 DEF HandlerFails, At, EndArrival, IdleArrival, Fault, ArrivalSteps
<1>25. ASSUME NEW f \in Files, StartScan(f) PROVE TypeOK'
  BY <1>25 DEF StartScan, Doing, HasJob, ScanUnchanged, ScanSteps, PassSteps
<1>26. ASSUME NEW f \in Files, NothingToScan(f) PROVE TypeOK'
  BY <1>26 DEF NothingToScan, Doing, HasJob, ScanUnchanged
<1>27. CASE ScanStoredObject
  BY <1>27 DEF ScanStoredObject, Doing, Proceed, ScanUnchanged, AfterScan,
         ScanSteps, PassSteps
<1>28. CASE DetectType
  BY <1>28 DEF DetectType, Doing, Proceed, ScanUnchanged, AfterDetection,
         ScanSteps, PassSteps
<1>29. CASE ObjectMissing
  BY <1>29 DEF ObjectMissing, Doing, Proceed, ScanUnchanged, FailScan, EndJob,
         IdleWorker, ScanSteps, PassSteps
<1>30. CASE CopyToVerified
  BY <1>30 DEF CopyToVerified, Doing, Proceed, ScanUnchanged, ScanSteps,
         PassSteps
<1>31. CASE RemoveFromQuarantine
  BY <1>31 DEF RemoveFromQuarantine, Doing, Proceed, ScanUnchanged, ScanSteps,
         PassSteps
<1>32. CASE SaveClean
  BY <1>32 DEF SaveClean, Doing, Proceed, ScanUnchanged, Save, FileStatuses,
         Deleted, ScanSteps, PassSteps
<1>33. CASE ScanReadCompletion
  <2>1. /\ worker.pc = "completion"
        /\ worker' = [worker EXCEPT !.pc = "validate"] \/ worker' = IdleWorker
    BY <1>33 DEF ScanReadCompletion, Doing, Proceed, EndJob
  <2>2. /\ worker' \in [pc : ScanSteps \cup PassSteps \cup {"idle"},
                        file : Files \cup {NoFile}, left : 0..MaxAttempts,
                        todo : SUBSET Files, lapsed : SUBSET Files]
        /\ worker'.pc \in ScanSteps \cup {"discard", "collect_delete"}
              => worker'.file \in Files
    <3>1. CASE worker' = [worker EXCEPT !.pc = "validate"]
      BY <2>1, <3>1 DEF ScanSteps
    <3>2. CASE worker' = IdleWorker
      BY <3>2 DEF IdleWorker, ScanSteps
    <3> QED  BY <2>1, <3>1, <3>2
  <2> QED  BY <1>33, <2>2 DEF ScanReadCompletion, ScanUnchanged
<1>34. CASE ScanValidate
  BY <1>34, EventType DEF ScanValidate, Doing, Proceed, ScanUnchanged, EndJob,
         IdleWorker, ApplyPipelineEvent, ScanSteps, PassSteps
<1>35. CASE DropInfectedObject
  BY <1>35 DEF DropInfectedObject, Doing, Proceed, ScanUnchanged, ScanSteps,
         PassSteps
<1>36. CASE SaveInfected
  BY <1>36 DEF SaveInfected, Doing, Proceed, ScanUnchanged, Save, FileStatuses,
         Deleted, ScanSteps, PassSteps
<1>37. CASE SaveRejected
  BY <1>37 DEF SaveRejected, Doing, Proceed, ScanUnchanged, Save, FileStatuses,
         Deleted, ScanSteps, PassSteps
<1>38. CASE DropRejectedObject
  BY <1>38 DEF DropRejectedObject, Doing, Proceed, ScanUnchanged, ScanSteps,
         PassSteps
<1>39. CASE NoticeCompletenessLost
  BY <1>39, EventType DEF NoticeCompletenessLost, Doing, Proceed,
         ScanUnchanged, EndJob, IdleWorker, ApplyPipelineEvent, ScanSteps,
         PassSteps
<1>40. CASE ScanFails
  BY <1>40 DEF ScanFails, FailScan, EndJob, IdleWorker, Fault, ScanSteps,
         PassSteps
<1>41. ASSUME NEW f \in Files, RecoverArrival(f) PROVE TypeOK'
  BY <1>41 DEF RecoverArrival, Doing, PassUnchanged, At, StartArrival,
         ScanSteps, PassSteps, ArrivalSteps
<1>42. ASSUME NEW f \in Files, ExamineReservation(f) PROVE TypeOK'
  BY <1>42 DEF ExamineReservation, Doing, PassUnchanged, At, ScanSteps,
         PassSteps
<1>43. ASSUME NEW f \in Files, RequeueScan(f) PROVE TypeOK'
  <2>1. job' \in [Files -> 0..MaxAttempts]
    BY <1>43 DEF RequeueScan
  <2>2. worker' = [worker EXCEPT !.todo = @ \ {f}] /\ worker.pc = "requeue"
    BY <1>43 DEF RequeueScan, Doing
  <2>3. UNCHANGED <<status, row, age, quarantine, verified, uploads,
                    deliveries, arrival, removal, finish, lost, faults>>
    BY <1>43 DEF RequeueScan, PassUnchanged
  <2> QED  BY <2>1, <2>2, <2>3 DEF ScanSteps
<1>44. ASSUME NEW f \in Files, ExamineObject(f) PROVE TypeOK'
  BY <1>44 DEF ExamineObject, Doing, PassUnchanged, Terminal, ScanSteps,
         PassSteps
<1>45. CASE StartPass
  BY <1>45 DEF StartPass, Doing, PassUnchanged, IsAbandoned, ScanSteps,
         PassSteps
<1>46. CASE DiscardReservation
  <2>1. /\ row' \in [Files -> FileStatuses \cup Deleted \cup {"none"}]
        /\ lost' \subseteq Documents
    BY <1>46 DEF DiscardReservation, Doing, DeleteRow, LosesClean, Deleted
  <2>2. /\ worker.pc = "discard"
        /\ worker' = [worker EXCEPT !.pc = "recover",
                                    !.todo = @ \ {worker.file},
                                    !.file = NoFile]
    BY <1>46 DEF DiscardReservation, Doing
  <2>3. UNCHANGED <<status, age, quarantine, verified, uploads, job,
                    deliveries, arrival, removal, finish, faults>>
    BY <1>46 DEF DiscardReservation, PassUnchanged
  <2> QED  BY <2>1, <2>2, <2>3 DEF PassSteps, ScanSteps
<1>47. CASE ListOverdueScans
  BY <1>47 DEF ListOverdueScans, Doing, PassUnchanged, At, IsOverdue,
         ScanSteps, PassSteps
<1>48. CASE ListQuarantine
  BY <1>48 DEF ListQuarantine, Doing, PassUnchanged, ScanSteps, PassSteps
<1>49. CASE CollectObject
  BY <1>49 DEF CollectObject, Doing, PassUnchanged, ScanSteps, PassSteps
<1>50. CASE CloseExpired
  BY <1>50, EventType DEF CloseExpired, Doing, EndJob, IdleWorker,
         ApplyPipelineEvent, ScanSteps, PassSteps
<1>51. CASE PassFails
  BY <1>51 DEF PassFails, EndJob, IdleWorker, EndArrival, IdleArrival, Fault,
         ScanSteps, PassSteps, ArrivalSteps
<1> HIDE DEF TypeOK, MaxAge, Recorders
<1> QED
  BY <1>1, <1>2, <1>3, <1>4, <1>5, <1>6, <1>7, <1>8, <1>9, <1>10,
     <1>11, <1>12, <1>13, <1>14, <1>15, <1>16, <1>17, <1>18, <1>19, <1>20,
     <1>21, <1>22, <1>23, <1>24, <1>25, <1>26, <1>27, <1>28, <1>29, <1>30,
     <1>31, <1>32, <1>33, <1>34, <1>35, <1>36, <1>37, <1>38, <1>39, <1>40,
     <1>41, <1>42, <1>43, <1>44, <1>45, <1>46, <1>47, <1>48, <1>49, <1>50,
     <1>51
     DEF Next, vars, RecorderStep, ScanStep, PassStep, RemovalStep, FinishStep

\* A row and the object of its file keep agreeing.  The delicate steps are
\* those that write a row without looking at it (SaveArrival, the three
\* verdicts) or delete it on old evidence (DiscardReservation).
LEMMA RowsTellTheTruthStep == IInv /\ [Next]_vars => RowsTellTheTruth'
<1> SUFFICES ASSUME IInv, [Next]_vars PROVE RowsTellTheTruth'
  OBVIOUS
<1> USE ConstantAssumption DEF IInv, TypeOK, RowsTellTheTruth, RecordersKnow,
      ScanKnows, PassKnows, RemovalKnows, Gone, Uploaded, Deleted,
      FileStatuses, ScanSteps, MaxAge
<1>1. CASE UNCHANGED <<row, age, uploads, quarantine, verified>>
  BY <1>1
<1>2. ASSUME NEW f \in Files, StartRemoval(f) \/ PlanRemoval(f)
            \/ ReopenAfterRemoval(f) \/ RemovalFails(f)
      PROVE  UNCHANGED <<row, age, uploads, quarantine, verified>>
  BY <1>2 DEF StartRemoval, PlanRemoval, ReopenAfterRemoval, RemovalFails,
         RemovalUnchanged, Fault
<1>3. ASSUME NEW f \in Files, Reserve(f) PROVE RowsTellTheTruth'
  BY <1>3 DEF Reserve, OccupantOf, Occupying
<1>4. ASSUME NEW f \in Files, Upload(f) PROVE RowsTellTheTruth'
  <2>1. PICK c \in Contents[f] : /\ quarantine' = [quarantine EXCEPT ![f] = c]
                                 /\ posted' = [posted EXCEPT ![f] = @ \cup {c}]
    BY <1>4 DEF Upload
  <2>2. c # "none"
    BY <2>1, ContentsAssumption DEF ContentKinds
  <2>3. ticket[f] # 0 /\ UNCHANGED <<row, age, ticket, verified>>
    BY <1>4 DEF Upload
  <2>4. row[f] # "none" /\ row[f] # "abandoned"
    BY <2>3
  <2> QED  BY <2>1, <2>2, <2>3, <2>4
<1>5. ASSUME NEW f \in Files, RemoveRow(f) PROVE RowsTellTheTruth'
  BY <1>5 DEF RemoveRow, RemovalUnchanged, Removing, DeleteRow, HasRow,
         LosesClean, AfterRemovedRow, IdleRemoval
<1>6. ASSUME NEW f \in Files, RemoveObject(f) PROVE RowsTellTheTruth'
  BY <1>6 DEF RemoveObject, RemovalUnchanged, BucketAt, RemovalGoto
<1>7. ASSUME FinishDeposit \/ FinishReadCompletion \/ FinishValidate
            \/ FinishFails \/ LinkEnds
      PROVE  UNCHANGED <<row, age, uploads, quarantine, verified>>
  BY <1>7 DEF FinishDeposit, FinishReadCompletion, FinishValidate, FinishFails,
         LinkEnds, FinishUnchanged, Fault
<1>8. CASE Tick
  <2>1. /\ UNCHANGED <<row, posted, quarantine, verified>>
        /\ \A f \in Files : ticket[f] = 0 => ticket'[f] = 0
    BY <1>8 DEF Tick
  <2>2. ASSUME NEW f \in Files, row[f] = "pending_upload", ticket'[f] > 0
        PROVE  age'[f] + ticket'[f] = TicketLifetime
    <3>1. ticket[f] > 0 /\ ticket'[f] = ticket[f] - 1
      BY <1>8, <2>2 DEF Tick
    <3>2. age[f] + ticket[f] = TicketLifetime
      BY <2>2, <3>1
    <3>3. age[f] < MaxAge
      BY <3>1, <3>2, GraceAssumption
    <3>4. age'[f] = age[f] + 1
      BY <1>8, <2>2, <3>3 DEF Tick, Ages
    <3> QED  BY <3>1, <3>2, <3>4
  <2> QED  BY <2>1, <2>2
<1>9. ASSUME NEW h \in Handlers, NEW f \in Files, Deliver(h, f)
      PROVE  UNCHANGED <<row, age, uploads, quarantine, verified>>
  BY <1>9 DEF Deliver
<1>10. ASSUME NEW r \in Recorders, FindArrivedFile(r) \/ RefuseArrival(r)
            \/ JournalizeReception(r) \/ EnqueueScan(r)
      PROVE  UNCHANGED <<row, age, uploads, quarantine, verified>>
  BY <1>10 DEF FindArrivedFile, RefuseArrival, JournalizeReception, EnqueueScan
<1>11. ASSUME NEW r \in Recorders, SaveArrival(r) PROVE RowsTellTheTruth'
  BY <1>11 DEF SaveArrival, At, Save, HasRow, IndexAllows, OccupantOf,
         LosesClean, Goto
<1>12. ASSUME NEW r \in Recorders, DiscardSuperseded(r) PROVE RowsTellTheTruth'
  BY <1>12 DEF DiscardSuperseded, At, Goto, DeleteRow, HasRow, LosesClean
<1>13. ASSUME NEW r \in Recorders, DropArrivedObject(r) PROVE RowsTellTheTruth'
  BY <1>13 DEF DropArrivedObject, At, EndArrival, IdleArrival
<1>14. ASSUME NEW h \in Handlers, HandlerFails(h)
      PROVE  UNCHANGED <<row, age, uploads, quarantine, verified>>
  BY <1>14 DEF HandlerFails, Fault
<1>15. ASSUME NEW f \in Files, StartScan(f) \/ NothingToScan(f)
      PROVE  UNCHANGED <<row, age, uploads, quarantine, verified>>
  BY <1>15 DEF StartScan, NothingToScan, ScanUnchanged
<1>16. ASSUME ScanStoredObject \/ DetectType \/ ObjectMissing
            \/ ScanReadCompletion \/ ScanValidate \/ NoticeCompletenessLost
            \/ ScanFails
      PROVE  UNCHANGED <<row, age, uploads, quarantine, verified>>
  BY <1>16 DEF ScanStoredObject, DetectType, ObjectMissing, ScanReadCompletion,
         ScanValidate, NoticeCompletenessLost, ScanFails, ScanUnchanged, Fault
<1>17. CASE CopyToVerified
  BY <1>17 DEF CopyToVerified, Doing, Proceed, ScanUnchanged
<1>18. CASE RemoveFromQuarantine
  BY <1>18 DEF RemoveFromQuarantine, Doing, Proceed, ScanUnchanged
<1>19. CASE SaveClean
  BY <1>19 DEF SaveClean, Doing, Proceed, ScanUnchanged, Save, HasRow
<1>20. CASE DropInfectedObject
  BY <1>20 DEF DropInfectedObject, Doing, Proceed, ScanUnchanged
<1>21. CASE SaveInfected
  BY <1>21 DEF SaveInfected, Doing, Proceed, ScanUnchanged, Save, HasRow
<1>22. CASE SaveRejected
  BY <1>22 DEF SaveRejected, Doing, Proceed, ScanUnchanged, Save, HasRow
<1>23. CASE DropRejectedObject
  BY <1>23 DEF DropRejectedObject, Doing, Proceed, ScanUnchanged
<1>24. ASSUME NEW f \in Files, RecoverArrival(f) \/ ExamineReservation(f)
            \/ RequeueScan(f) \/ ExamineObject(f)
      PROVE  UNCHANGED <<row, age, uploads, quarantine, verified>>
  BY <1>24 DEF RecoverArrival, ExamineReservation, RequeueScan, ExamineObject,
         PassUnchanged
<1>25. ASSUME StartPass \/ ListOverdueScans \/ ListQuarantine \/ CloseExpired
            \/ PassFails
      PROVE  UNCHANGED <<row, age, uploads, quarantine, verified>>
  BY <1>25 DEF StartPass, ListOverdueScans, ListQuarantine, CloseExpired,
         PassFails, PassUnchanged, Fault
<1>26. CASE DiscardReservation
  BY <1>26 DEF DiscardReservation, Doing, PassUnchanged, DeleteRow, HasRow,
         LosesClean
<1>27. CASE CollectObject
  BY <1>27 DEF CollectObject, Doing, PassUnchanged
<1> HIDE DEF IInv, TypeOK, RowsTellTheTruth, RecordersKnow, ScanKnows,
         PassKnows, RemovalKnows, Gone, Uploaded, Deleted, FileStatuses,
         ScanSteps, MaxAge
<1> QED
  BY <1>1, <1>2, <1>3, <1>4, <1>5, <1>6, <1>7, <1>8, <1>9, <1>10,
     <1>11, <1>12, <1>13, <1>14, <1>15, <1>16, <1>17, <1>18, <1>19, <1>20,
     <1>21, <1>22, <1>23, <1>24, <1>25, <1>26, <1>27
     DEF Next, vars, RecorderStep, ScanStep, PassStep, RemovalStep, FinishStep

\* A recorder never comes to work on an object that was not uploaded.
LEMMA RecordersKnowStep == IInv /\ [Next]_vars => RecordersKnow'
<1> SUFFICES ASSUME IInv, [Next]_vars PROVE RecordersKnow'
  OBVIOUS
<1> USE ConstantAssumption DEF IInv, TypeOK, RowsTellTheTruth, RecordersKnow,
      Gone, Uploaded, Deleted, FileStatuses, Recorders
<1>1. CASE UNCHANGED <<arrival, row, posted, crossed>>
  BY <1>1
<1>2. ASSUME NEW f \in Files, StartRemoval(f) \/ PlanRemoval(f)
            \/ ReopenAfterRemoval(f) \/ RemoveObject(f) \/ RemovalFails(f)
      PROVE  UNCHANGED <<arrival, row, posted, crossed>>
  BY <1>2 DEF StartRemoval, PlanRemoval, ReopenAfterRemoval, RemoveObject,
         RemovalFails, RemovalUnchanged, Fault
<1>3. ASSUME NEW f \in Files, Reserve(f) PROVE RecordersKnow'
  BY <1>3 DEF Reserve, OccupantOf, Occupying
<1>4. ASSUME NEW f \in Files, Upload(f) PROVE RecordersKnow'
  BY <1>4 DEF Upload
<1>5. ASSUME NEW f \in Files, RemoveRow(f) PROVE RecordersKnow'
  BY <1>5 DEF RemoveRow, RemovalUnchanged, Removing, DeleteRow, HasRow,
         LosesClean, AfterRemovedRow, IdleRemoval
<1>6. ASSUME Tick \/ FinishDeposit \/ FinishReadCompletion \/ FinishValidate
            \/ FinishFails \/ LinkEnds
      PROVE  UNCHANGED <<arrival, row, posted, crossed>>
  BY <1>6 DEF Tick, FinishDeposit, FinishReadCompletion, FinishValidate,
         FinishFails, LinkEnds, FinishUnchanged, Fault
<1>7. ASSUME NEW h \in Handlers, NEW f \in Files, Deliver(h, f)
      PROVE RecordersKnow'
  BY <1>7 DEF Deliver, StartArrival, At
<1>8. ASSUME NEW r \in Recorders, FindArrivedFile(r) PROVE RecordersKnow'
  <2> DEFINE f == arrival[r].file
  <2>1. /\ arrival[r].pc = "find" /\ UNCHANGED <<row, posted, crossed>>
        /\ arrival'[r].file = f
        /\ arrival'[r].pc = "drop" => ~ HasRow(f)
        /\ \A q \in Recorders : q # r => arrival'[q] = arrival[q]
    BY <1>8 DEF FindArrivedFile, At
  <2>2. f \in Files /\ posted[f] # {} /\ row[f] # "none"
    BY <2>1
  <2>3. ~ HasRow(f) => row[f] \in Deleted
    BY <2>2 DEF HasRow
  <2>4. \A q \in Recorders :
           /\ arrival[q].pc # "idle" => posted[arrival[q].file] # {}
           /\ arrival[q].pc = "drop" => row[arrival[q].file] \in Deleted
    OBVIOUS
  <2> HIDE DEF IInv, TypeOK, RowsTellTheTruth
  <2> QED  BY <2>1, <2>2, <2>3, <2>4
<1>9. ASSUME NEW r \in Recorders, SaveArrival(r) PROVE RecordersKnow'
  BY <1>9 DEF SaveArrival, At, Save, HasRow, IndexAllows, OccupantOf,
         LosesClean, Goto
<1>10. ASSUME NEW r \in Recorders, RefuseArrival(r) PROVE RecordersKnow'
  BY <1>10 DEF RefuseArrival, At, Goto
<1>11. ASSUME NEW r \in Recorders, DiscardSuperseded(r) PROVE RecordersKnow'
  BY <1>11 DEF DiscardSuperseded, At, Goto, DeleteRow, HasRow, LosesClean
<1>12. ASSUME NEW r \in Recorders, DropArrivedObject(r) PROVE RecordersKnow'
  BY <1>12 DEF DropArrivedObject, At, EndArrival, IdleArrival
<1>13. ASSUME NEW r \in Recorders, JournalizeReception(r) PROVE RecordersKnow'
  BY <1>13 DEF JournalizeReception, At, Goto
<1>14. ASSUME NEW r \in Recorders, EnqueueScan(r) PROVE RecordersKnow'
  BY <1>14 DEF EnqueueScan, At, EndArrival, IdleArrival
<1>15. ASSUME NEW h \in Handlers, HandlerFails(h) PROVE RecordersKnow'
  BY <1>15 DEF HandlerFails, At, EndArrival, IdleArrival, Fault
<1>16. ASSUME NEW f \in Files, StartScan(f) \/ NothingToScan(f)
      PROVE  UNCHANGED <<arrival, row, posted, crossed>>
  BY <1>16 DEF StartScan, NothingToScan, ScanUnchanged
<1>17. ASSUME ScanStoredObject \/ DetectType \/ ObjectMissing \/ CopyToVerified
            \/ RemoveFromQuarantine \/ ScanReadCompletion \/ ScanValidate
            \/ DropInfectedObject \/ DropRejectedObject
            \/ NoticeCompletenessLost \/ ScanFails
      PROVE  UNCHANGED <<arrival, row, posted, crossed>>
  BY <1>17 DEF ScanStoredObject, DetectType, ObjectMissing, CopyToVerified,
         RemoveFromQuarantine, ScanReadCompletion, ScanValidate,
         DropInfectedObject, DropRejectedObject, NoticeCompletenessLost,
         ScanFails, ScanUnchanged, Fault
<1>18. CASE SaveClean
  BY <1>18 DEF SaveClean, Doing, Proceed, ScanUnchanged, Save, HasRow
<1>19. CASE SaveInfected
  BY <1>19 DEF SaveInfected, Doing, Proceed, ScanUnchanged, Save, HasRow
<1>20. CASE SaveRejected
  BY <1>20 DEF SaveRejected, Doing, Proceed, ScanUnchanged, Save, HasRow
<1>21. ASSUME NEW f \in Files, ExamineReservation(f) \/ RequeueScan(f)
            \/ ExamineObject(f)
      PROVE  UNCHANGED <<arrival, row, posted, crossed>>
  BY <1>21 DEF ExamineReservation, RequeueScan, ExamineObject, PassUnchanged
<1>22. ASSUME NEW f \in Files, RecoverArrival(f) PROVE RecordersKnow'
  BY <1>22 DEF RecoverArrival, Doing, PassUnchanged, At, StartArrival
<1>23. ASSUME StartPass \/ ListOverdueScans \/ ListQuarantine \/ CollectObject
            \/ CloseExpired
      PROVE  UNCHANGED <<arrival, row, posted, crossed>>
  BY <1>23 DEF StartPass, ListOverdueScans, ListQuarantine, CollectObject,
         CloseExpired, PassUnchanged
<1>24. CASE DiscardReservation
  BY <1>24 DEF DiscardReservation, Doing, PassUnchanged, DeleteRow, HasRow,
         LosesClean
<1>25. CASE PassFails
  BY <1>25 DEF PassFails, EndJob, IdleWorker, EndArrival, IdleArrival, Fault
<1> HIDE DEF IInv, TypeOK, RowsTellTheTruth, RecordersKnow, Gone, Uploaded,
         Deleted, FileStatuses, Recorders
<1> QED
  BY <1>1, <1>2, <1>3, <1>4, <1>5, <1>6, <1>7, <1>8, <1>9, <1>10,
     <1>11, <1>12, <1>13, <1>14, <1>15, <1>16, <1>17, <1>18, <1>19, <1>20,
     <1>21, <1>22, <1>23, <1>24, <1>25
     DEF Next, vars, RecorderStep, ScanStep, PassStep, RemovalStep, FinishStep

\* What the worker saw in the object stays true until it writes its verdict: a
\* recorder may write "pending_scan" again, a removal may delete the row, and
\* nothing else touches a file under scan.
LEMMA ScanKnowsStep == IInv /\ [Next]_vars => ScanKnows'
<1> SUFFICES ASSUME IInv, [Next]_vars PROVE ScanKnows'
  OBVIOUS
<1> USE ConstantAssumption DEF IInv, TypeOK, RowsTellTheTruth, RecordersKnow,
      ScanKnows, RemovalKnows, Gone, Uploaded, Deleted, FileStatuses,
      ScanSteps, PassSteps
<1>1. CASE UNCHANGED <<worker, row, posted, crossed, quarantine, verified>>
  BY <1>1
<1>2. ASSUME NEW f \in Files, StartRemoval(f) \/ PlanRemoval(f)
            \/ ReopenAfterRemoval(f) \/ RemovalFails(f)
      PROVE  UNCHANGED <<worker, row, posted, crossed, quarantine, verified>>
  BY <1>2 DEF StartRemoval, PlanRemoval, ReopenAfterRemoval, RemovalFails,
         RemovalUnchanged, Fault
<1>3. ASSUME NEW f \in Files, Reserve(f) PROVE ScanKnows'
  BY <1>3 DEF Reserve, OccupantOf, Occupying
<1>4. ASSUME NEW f \in Files, Upload(f) PROVE ScanKnows'
  <2>1. UNCHANGED <<worker, row, verified>>
    BY <1>4 DEF Upload
  <2>2. /\ \A g \in Files : posted[g] \subseteq posted'[g] /\ crossed[g] \subseteq crossed'[g]
        /\ \A g \in Files : g # f => quarantine'[g] = quarantine[g]
        /\ Crossed(f) \subseteq crossed'[f]
    <3> HIDE DEF TypeOK, IInv
    <3>1. TypeOK
      BY DEF IInv
    <3> QED  BY <1>4, <3>1, UploadEffect
  <2>3. worker.file = f /\ worker.pc \in {"detect", "promote"} => "scan" \in crossed'[f]
    BY <2>2 DEF Crossed
  <2> QED  BY <2>1, <2>2, <2>3
<1>5. ASSUME NEW f \in Files, RemoveRow(f) PROVE ScanKnows'
  BY <1>5 DEF RemoveRow, RemovalUnchanged, Removing, DeleteRow, HasRow,
         LosesClean, AfterRemovedRow, IdleRemoval
<1>6. ASSUME NEW f \in Files, RemoveObject(f) PROVE ScanKnows'
  BY <1>6 DEF RemoveObject, RemovalUnchanged, BucketAt, RemovalGoto
<1>7. ASSUME Tick \/ FinishDeposit \/ FinishReadCompletion \/ FinishValidate
            \/ FinishFails \/ LinkEnds
      PROVE  UNCHANGED <<worker, row, posted, crossed, quarantine, verified>>
  BY <1>7 DEF Tick, FinishDeposit, FinishReadCompletion, FinishValidate,
         FinishFails, LinkEnds, FinishUnchanged, Fault
<1>8. ASSUME NEW h \in Handlers, NEW f \in Files, Deliver(h, f)
      PROVE  UNCHANGED <<worker, row, posted, crossed, quarantine, verified>>
  BY <1>8 DEF Deliver
<1>9. ASSUME NEW r \in Recorders, FindArrivedFile(r) \/ RefuseArrival(r)
            \/ JournalizeReception(r) \/ EnqueueScan(r)
      PROVE  UNCHANGED <<worker, row, posted, crossed, quarantine, verified>>
  BY <1>9 DEF FindArrivedFile, RefuseArrival, JournalizeReception, EnqueueScan
<1>10. ASSUME NEW r \in Recorders, SaveArrival(r) PROVE ScanKnows'
  BY <1>10 DEF SaveArrival, At, Save, HasRow, IndexAllows, OccupantOf,
         LosesClean, Goto
<1>11. ASSUME NEW r \in Recorders, DiscardSuperseded(r) PROVE ScanKnows'
  BY <1>11 DEF DiscardSuperseded, At, Goto, DeleteRow, HasRow, LosesClean
<1>12. ASSUME NEW h \in Handlers, HandlerFails(h)
      PROVE  UNCHANGED <<worker, row, posted, crossed, quarantine, verified>>
  BY <1>12 DEF HandlerFails, Fault
<1>13. ASSUME NEW f \in Files, NothingToScan(f)
      PROVE  UNCHANGED <<worker, row, posted, crossed, quarantine, verified>>
  BY <1>13 DEF NothingToScan, ScanUnchanged
<1>14. ASSUME NEW f \in Files, StartScan(f) PROVE ScanKnows'
  BY <1>14 DEF StartScan, Doing, HasJob, ScanUnchanged
<1>15. CASE ScanStoredObject
  BY <1>15 DEF ScanStoredObject, Doing, Proceed, ScanUnchanged, AfterScan
<1>16. CASE DetectType
  <2>1. /\ UNCHANGED <<row, posted, crossed, quarantine, verified>>
        /\ worker.pc = "detect" /\ quarantine[worker.file] # "none"
    BY <1>16 DEF DetectType, Doing, ScanUnchanged
  <2>2. worker' = [worker EXCEPT !.pc = AfterDetection(worker.file)]
    BY <1>16 DEF DetectType, Proceed
  <2>3. /\ quarantine[worker.file] \in ContentKinds
        /\ quarantine[worker.file] \in posted[worker.file]
    BY <2>1
  <2> QED  BY <2>1, <2>2, <2>3 DEF AfterDetection, ContentKinds
<1>17. CASE ObjectMissing
  BY <1>17 DEF ObjectMissing, Doing, Proceed, ScanUnchanged, FailScan, EndJob,
         IdleWorker
<1>18. CASE CopyToVerified
  BY <1>18 DEF CopyToVerified, Doing, Proceed, ScanUnchanged
<1>19. CASE RemoveFromQuarantine
  BY <1>19 DEF RemoveFromQuarantine, Doing, Proceed, ScanUnchanged
<1>20. CASE SaveClean
  BY <1>20 DEF SaveClean, Doing, Proceed, ScanUnchanged, Save, HasRow
<1>21. CASE ScanReadCompletion
  <2>1. UNCHANGED <<row, posted, crossed, verified>>
    BY <1>21 DEF ScanReadCompletion, ScanUnchanged
  <2>2. CASE worker' = [worker EXCEPT !.pc = "validate"]
    BY <1>21, <2>1, <2>2 DEF ScanReadCompletion, Doing
  <2>3. CASE worker' = IdleWorker
    BY <2>1, <2>3 DEF IdleWorker
  <2> QED BY <1>21, <2>2, <2>3 DEF ScanReadCompletion, Proceed, EndJob
<1>22. CASE ScanValidate
  BY <1>22 DEF ScanValidate, Doing, Proceed, ScanUnchanged, EndJob, IdleWorker,
         ApplyPipelineEvent, AfterPipelineEvent
<1>23. CASE DropInfectedObject
  BY <1>23 DEF DropInfectedObject, Doing, Proceed, ScanUnchanged
<1>24. CASE SaveInfected
  BY <1>24 DEF SaveInfected, Doing, Proceed, ScanUnchanged, Save, HasRow
<1>25. CASE SaveRejected
  BY <1>25 DEF SaveRejected, Doing, Proceed, ScanUnchanged, Save, HasRow
<1>26. CASE DropRejectedObject
  BY <1>26 DEF DropRejectedObject, Doing, Proceed, ScanUnchanged
<1>27. CASE NoticeCompletenessLost
  BY <1>27 DEF NoticeCompletenessLost, Doing, Proceed, ScanUnchanged, EndJob,
         IdleWorker, ApplyPipelineEvent, AfterPipelineEvent
<1>28. CASE ScanFails
  BY <1>28 DEF ScanFails, FailScan, EndJob, IdleWorker, Fault
<1>29. ASSUME NEW f \in Files, RecoverArrival(f) PROVE ScanKnows'
  BY <1>29 DEF RecoverArrival, Doing, PassUnchanged, At, StartArrival
<1>30. ASSUME NEW f \in Files, ExamineReservation(f) PROVE ScanKnows'
  BY <1>30 DEF ExamineReservation, Doing, PassUnchanged, At
<1>31. ASSUME NEW f \in Files, RequeueScan(f) PROVE ScanKnows'
  BY <1>31 DEF RequeueScan, Doing, PassUnchanged
<1>32. ASSUME NEW f \in Files, ExamineObject(f) PROVE ScanKnows'
  BY <1>32 DEF ExamineObject, Doing, PassUnchanged, HasRow, Terminal
<1>33. CASE StartPass
  BY <1>33 DEF StartPass, Doing, PassUnchanged, IsAbandoned
<1>34. CASE DiscardReservation
  BY <1>34 DEF DiscardReservation, Doing, PassUnchanged, DeleteRow, HasRow,
         LosesClean
<1>35. CASE ListOverdueScans
  BY <1>35 DEF ListOverdueScans, Doing, PassUnchanged, At, IsOverdue
<1>36. CASE ListQuarantine
  BY <1>36 DEF ListQuarantine, Doing, PassUnchanged
<1>37. CASE CollectObject
  BY <1>37 DEF CollectObject, Doing, PassUnchanged
<1>38. CASE CloseExpired
  BY <1>38 DEF CloseExpired, Doing, EndJob, IdleWorker, ApplyPipelineEvent,
         AfterPipelineEvent
<1>39. CASE PassFails
  BY <1>39 DEF PassFails, EndJob, IdleWorker, EndArrival, IdleArrival, Fault
<1>40. ASSUME NEW r \in Recorders, DropArrivedObject(r) PROVE ScanKnows'
  BY <1>40 DEF DropArrivedObject
<1> HIDE DEF IInv, TypeOK, RowsTellTheTruth, RecordersKnow, ScanKnows,
         RemovalKnows, Gone, Uploaded, Deleted, FileStatuses, ScanSteps,
         PassSteps
<1> QED
  BY <1>1, <1>2, <1>3, <1>4, <1>5, <1>6, <1>7, <1>8, <1>9, <1>10,
     <1>11, <1>12, <1>13, <1>14, <1>15, <1>16, <1>17, <1>18, <1>19, <1>20,
     <1>21, <1>22, <1>23, <1>24, <1>25, <1>26, <1>27, <1>28, <1>29, <1>30,
     <1>31, <1>32, <1>33, <1>34, <1>35, <1>36, <1>37, <1>38, <1>39, <1>40
     DEF Next, vars, RecorderStep, ScanStep, PassStep, RemovalStep, FinishStep

\* What a pass has listed stays true enough to be acted upon.  StartPass needs
\* GraceAssumption: a reservation it calls abandoned can receive no object.
LEMMA PassKnowsStep == IInv /\ [Next]_vars => PassKnows'
<1> SUFFICES ASSUME IInv, [Next]_vars PROVE PassKnows'
  OBVIOUS
<1> USE ConstantAssumption DEF IInv, TypeOK, RowsTellTheTruth, RecordersKnow,
      ScanKnows, PassKnows, RemovalKnows, CleanIsStored, Gone, Uploaded,
      Deleted, FileStatuses, ScanSteps, PassSteps, MaxAge
<1>1. CASE UNCHANGED <<worker, row, uploads, age, quarantine, verified>>
  BY <1>1
<1>2. ASSUME NEW f \in Files, StartRemoval(f) \/ PlanRemoval(f)
            \/ ReopenAfterRemoval(f) \/ RemovalFails(f)
      PROVE  UNCHANGED <<worker, row, uploads, age, quarantine, verified>>
  BY <1>2 DEF StartRemoval, PlanRemoval, ReopenAfterRemoval, RemovalFails,
         RemovalUnchanged, Fault
<1>3. ASSUME NEW f \in Files, Reserve(f) PROVE PassKnows'
  <2>1. /\ row[f] = "none" /\ row' = [row EXCEPT ![f] = "pending_upload"]
        /\ ticket' = [ticket EXCEPT ![f] = TicketLifetime]
        /\ UNCHANGED <<worker, posted, quarantine, verified>>
    BY <1>3 DEF Reserve
  <2>2. /\ worker.pc \in {"recover", "discard"} => f \notin worker.todo
        /\ worker.pc = "discard" => worker.file # f
    BY <2>1
  <2>3. \A g \in Files \ {f} : row'[g] = row[g] /\ ticket'[g] = ticket[g]
    BY <2>1
  <2>4. posted[f] = {} /\ (\A g \in Files : Gone(g) => Gone(g)') /\ row'[f] # "none"
    BY <2>1
  <2>5. worker.pc \in {"recover", "discard"} => f \notin worker.lapsed
    BY <2>1
  <2> QED  BY <2>1, <2>2, <2>3, <2>4, <2>5
<1>4. ASSUME NEW f \in Files, Upload(f) PROVE PassKnows'
  <2>1. ticket[f] # 0 /\ UNCHANGED <<worker, row, ticket, verified>>
    BY <1>4 DEF Upload
  <2>2. /\ \A g \in Files : g # f => posted'[g] = posted[g] /\ quarantine'[g] = quarantine[g]
        /\ posted'[f] # {} /\ quarantine'[f] # "none"
        /\ posted[f] # {} /\ posted[f] # {"healthy"} => posted'[f] # {"healthy"}
    <3> HIDE DEF TypeOK, IInv
    <3>1. TypeOK
      BY DEF IInv
    <3> QED  BY <1>4, <3>1, UploadEffect DEF ContentKinds
  <2>3. \A g \in Files : posted[g] # {} => posted'[g] # {} /\ (posted[g] # {"healthy"} => posted'[g] # {"healthy"})
    BY <2>2
  <2>4. \A g \in Files : posted'[g] # {} => quarantine'[g] # "none" \/ (posted[g] # {} /\ quarantine'[g] = quarantine[g])
    BY <2>2
  <2>5. \A g \in Files : posted'[g] # {} => posted[g] # {} \/ ticket[g] # 0
    BY <2>1, <2>2
  <2>6. /\ worker.lapsed \subseteq Files /\ worker.todo \subseteq Files
        /\ worker.pc \in {"discard", "collect_delete"} => worker.file \in Files
    OBVIOUS
  <2>7. PassKnows
    OBVIOUS
  <2> HIDE DEF IInv, TypeOK, RowsTellTheTruth, RecordersKnow, ScanKnows,
           RemovalKnows, CleanIsStored, FileStatuses, ScanSteps, PassSteps, MaxAge
  <2> QED  BY <2>1, <2>3, <2>4, <2>5, <2>6, <2>7
<1>5. ASSUME NEW f \in Files, RemoveRow(f) PROVE PassKnows'
  BY <1>5 DEF RemoveRow, RemovalUnchanged, Removing, DeleteRow, HasRow,
         LosesClean, AfterRemovedRow, IdleRemoval
<1>6. ASSUME NEW f \in Files, RemoveObject(f) PROVE PassKnows'
  BY <1>6 DEF RemoveObject, RemovalUnchanged, BucketAt, RemovalGoto
<1>7. ASSUME FinishDeposit \/ FinishReadCompletion \/ FinishValidate
            \/ FinishFails \/ LinkEnds
      PROVE  UNCHANGED <<worker, row, uploads, age, quarantine, verified>>
  BY <1>7 DEF FinishDeposit, FinishReadCompletion, FinishValidate, FinishFails,
         LinkEnds, FinishUnchanged, Fault
<1>8. CASE Tick
  <2>1. /\ UNCHANGED <<worker, row, posted, quarantine, verified>>
        /\ \A f \in Files : ticket[f] = 0 => ticket'[f] = 0
    BY <1>8 DEF Tick
  <2>2. worker.lapsed \subseteq Files /\ worker.todo \subseteq Files
    OBVIOUS
  <2>3. worker.pc = "discard" => worker.file \in Files
    OBVIOUS
  <2>4. PassKnows
    OBVIOUS
  <2> HIDE DEF IInv, TypeOK, RowsTellTheTruth, RecordersKnow, ScanKnows,
           RemovalKnows, CleanIsStored, MaxAge
  <2> QED  BY <2>1, <2>2, <2>3, <2>4
<1>9. ASSUME NEW h \in Handlers, NEW f \in Files, Deliver(h, f)
      PROVE  UNCHANGED <<worker, row, uploads, age, quarantine, verified>>
  BY <1>9 DEF Deliver
<1>10. ASSUME NEW r \in Recorders, FindArrivedFile(r) \/ RefuseArrival(r)
            \/ JournalizeReception(r) \/ EnqueueScan(r)
      PROVE  UNCHANGED <<worker, row, uploads, age, quarantine, verified>>
  BY <1>10 DEF FindArrivedFile, RefuseArrival, JournalizeReception, EnqueueScan
<1>11. ASSUME NEW r \in Recorders, SaveArrival(r) PROVE PassKnows'
  BY <1>11 DEF SaveArrival, At, Save, HasRow, IndexAllows, OccupantOf,
         LosesClean, Goto
<1>12. ASSUME NEW r \in Recorders, DiscardSuperseded(r) PROVE PassKnows'
  BY <1>12 DEF DiscardSuperseded, At, Goto, DeleteRow, HasRow, LosesClean
<1>13. ASSUME NEW r \in Recorders, DropArrivedObject(r) PROVE PassKnows'
  BY <1>13 DEF DropArrivedObject, At, EndArrival, IdleArrival
<1>14. ASSUME NEW h \in Handlers, HandlerFails(h)
      PROVE  UNCHANGED <<worker, row, uploads, age, quarantine, verified>>
  BY <1>14 DEF HandlerFails, Fault
<1>15. ASSUME NEW f \in Files, NothingToScan(f)
      PROVE  UNCHANGED <<worker, row, uploads, age, quarantine, verified>>
  BY <1>15 DEF NothingToScan, ScanUnchanged
<1>16. ASSUME NEW f \in Files, StartScan(f) PROVE PassKnows'
  BY <1>16 DEF StartScan, Doing, HasJob, ScanUnchanged
<1>17. CASE ScanStoredObject
  BY <1>17 DEF ScanStoredObject, Doing, Proceed, ScanUnchanged, AfterScan
<1>18. CASE DetectType
  BY <1>18 DEF DetectType, Doing, Proceed, ScanUnchanged, AfterDetection
<1>19. CASE ObjectMissing
  BY <1>19 DEF ObjectMissing, Doing, Proceed, ScanUnchanged, FailScan, EndJob,
         IdleWorker
<1>20. CASE CopyToVerified
  BY <1>20 DEF CopyToVerified, Doing, Proceed, ScanUnchanged
<1>21. CASE RemoveFromQuarantine
  BY <1>21 DEF RemoveFromQuarantine, Doing, Proceed, ScanUnchanged
<1>22. CASE SaveClean
  BY <1>22 DEF SaveClean, Doing, Proceed, ScanUnchanged, Save, HasRow
<1>23. CASE ScanReadCompletion
  BY <1>23 DEF ScanReadCompletion, Doing, Proceed, ScanUnchanged, Complete,
         EndJob, IdleWorker
<1>24. CASE ScanValidate
  BY <1>24 DEF ScanValidate, Doing, Proceed, ScanUnchanged, EndJob, IdleWorker,
         ApplyPipelineEvent, AfterPipelineEvent
<1>25. CASE DropInfectedObject
  BY <1>25 DEF DropInfectedObject, Doing, Proceed, ScanUnchanged
<1>26. CASE SaveInfected
  BY <1>26 DEF SaveInfected, Doing, Proceed, ScanUnchanged, Save, HasRow
<1>27. CASE SaveRejected
  BY <1>27 DEF SaveRejected, Doing, Proceed, ScanUnchanged, Save, HasRow
<1>28. CASE DropRejectedObject
  BY <1>28 DEF DropRejectedObject, Doing, Proceed, ScanUnchanged
<1>29. CASE NoticeCompletenessLost
  BY <1>29 DEF NoticeCompletenessLost, Doing, Proceed, ScanUnchanged, EndJob,
         IdleWorker, ApplyPipelineEvent, AfterPipelineEvent
<1>30. CASE ScanFails
  BY <1>30 DEF ScanFails, FailScan, EndJob, IdleWorker, Fault
<1>31. ASSUME NEW f \in Files, RecoverArrival(f) PROVE PassKnows'
  BY <1>31 DEF RecoverArrival, Doing, PassUnchanged, At, StartArrival
<1>32. ASSUME NEW f \in Files, ExamineReservation(f) PROVE PassKnows'
  <2>1. /\ worker.pc = "recover" /\ f \in worker.todo /\ quarantine[f] = "none"
        /\ UNCHANGED <<row, uploads, quarantine, verified>>
    BY <1>32 DEF ExamineReservation, Doing, PassUnchanged
  <2>2. CASE f \in worker.lapsed
    <3>1. /\ worker'.pc = "discard" /\ worker'.file = f
          /\ worker'.todo = worker.todo /\ worker'.lapsed = worker.lapsed
      BY <1>32, <2>2 DEF ExamineReservation
    <3>2. Gone(f) \/ (~Uploaded(f) /\ ticket[f] = 0)
      BY <2>1, <2>2
    <3>3. UNCHANGED <<row, posted, ticket, quarantine, verified>>
      BY <2>1
    <3> QED  BY <2>1, <3>1, <3>2, <3>3
  <2>3. CASE f \notin worker.lapsed
    <3>1. worker' = [worker EXCEPT !.todo = @ \ {f}]
      BY <1>32, <2>3 DEF ExamineReservation
    <3> QED  BY <2>1, <3>1
  <2> QED  BY <2>2, <2>3
<1>33. ASSUME NEW f \in Files, RequeueScan(f) PROVE PassKnows'
  BY <1>33 DEF RequeueScan, Doing, PassUnchanged
<1>34. ASSUME NEW f \in Files, ExamineObject(f) PROVE PassKnows'
  BY <1>34 DEF ExamineObject, Doing, PassUnchanged, HasRow, Terminal
<1>35. CASE StartPass
  <2>1. \A f \in worker'.todo : row[f] = "pending_upload"
    BY <1>35 DEF StartPass
  <2>2. \A f \in worker'.lapsed : ticket[f] = 0
    <3> SUFFICES ASSUME NEW f \in worker'.lapsed PROVE ticket[f] = 0
      OBVIOUS
    <3>1. f \in Files /\ row[f] = "pending_upload" /\ age[f] > ReservationGrace
      BY <1>35 DEF StartPass, IsAbandoned
    <3>2. age[f] \in Nat /\ ticket[f] \in Nat
      BY <3>1
    <3>3. ticket[f] > 0 => age[f] + ticket[f] = TicketLifetime
      BY <3>1
    <3> QED  BY <3>1, <3>2, <3>3, GraceAssumption
  <2>3. worker'.pc = "recover"
    BY <1>35 DEF StartPass
  <2> QED  BY <1>35, <2>1, <2>2, <2>3 DEF StartPass, PassUnchanged
<1>36. CASE DiscardReservation
  BY <1>36 DEF DiscardReservation, Doing, PassUnchanged, DeleteRow, HasRow,
         LosesClean
<1>37. CASE ListOverdueScans
  BY <1>37 DEF ListOverdueScans, Doing, PassUnchanged, At, IsOverdue
<1>38. CASE ListQuarantine
  BY <1>38 DEF ListQuarantine, Doing, PassUnchanged
<1>39. CASE CollectObject
  BY <1>39 DEF CollectObject, Doing, PassUnchanged
<1>40. CASE CloseExpired
  BY <1>40 DEF CloseExpired, Doing, EndJob, IdleWorker, ApplyPipelineEvent,
         AfterPipelineEvent
<1>41. CASE PassFails
  BY <1>41 DEF PassFails, EndJob, IdleWorker, EndArrival, IdleArrival, Fault
<1> HIDE DEF IInv, TypeOK, RowsTellTheTruth, RecordersKnow, ScanKnows,
         PassKnows, RemovalKnows, CleanIsStored, Gone, Uploaded, Deleted,
         FileStatuses, ScanSteps, PassSteps, MaxAge
<1> QED
  BY <1>1, <1>2, <1>3, <1>4, <1>5, <1>6, <1>7, <1>8, <1>9, <1>10,
     <1>11, <1>12, <1>13, <1>14, <1>15, <1>16, <1>17, <1>18, <1>19, <1>20,
     <1>21, <1>22, <1>23, <1>24, <1>25, <1>26, <1>27, <1>28, <1>29, <1>30,
     <1>31, <1>32, <1>33, <1>34, <1>35, <1>36, <1>37, <1>38, <1>39, <1>40,
     <1>41
     DEF Next, vars, RecorderStep, ScanStep, PassStep, RemovalStep, FinishStep

\* The order of a removal: the row, the quarantine, the verified bucket.
LEMMA RemovalKnowsStep == IInv /\ [Next]_vars => RemovalKnows'
<1> SUFFICES ASSUME IInv, [Next]_vars PROVE RemovalKnows'
  OBVIOUS
<1> USE ConstantAssumption DEF IInv, TypeOK, RowsTellTheTruth, RecordersKnow,
      RemovalKnows, Gone, Uploaded, Deleted, FileStatuses, RemovalSteps
<1>1. CASE UNCHANGED <<removal, row, posted, crossed, quarantine, verified>>
  BY <1>1
<1>2. ASSUME NEW f \in Files, Reserve(f) PROVE RemovalKnows'
  BY <1>2 DEF Reserve, OccupantOf, Occupying
<1>3. ASSUME NEW f \in Files, Upload(f) PROVE RemovalKnows'
  <2>1. UNCHANGED <<removal, row, verified>>
    BY <1>3 DEF Upload
  <2>2. /\ \A g \in Files : posted[g] \subseteq posted'[g] /\ crossed[g] \subseteq crossed'[g]
        /\ \A g \in Files : g # f => quarantine'[g] = quarantine[g]
        /\ Crossed(f) \subseteq crossed'[f]
    <3> HIDE DEF TypeOK, IInv
    <3>1. TypeOK
      BY DEF IInv
    <3> QED  BY <1>3, <3>1, UploadEffect
  <2>3. removal[f].pc \in {"drop_second", "done"} => "removal" \in crossed'[f]
    BY <2>2 DEF Crossed
  <2> QED  BY <2>1, <2>2, <2>3
<1>4. ASSUME NEW f \in Files, StartRemoval(f) PROVE RemovalKnows'
  BY <1>4 DEF StartRemoval, HasRow, RemovalUnchanged, Removing
<1>5. ASSUME NEW f \in Files, PlanRemoval(f) PROVE RemovalKnows'
  BY <1>5 DEF PlanRemoval, RemovalUnchanged, Removing, IdleRemoval
<1>6. ASSUME NEW f \in Files, RemoveRow(f) PROVE RemovalKnows'
  BY <1>6 DEF RemoveRow, RemovalUnchanged, Removing, DeleteRow, HasRow,
         LosesClean, AfterRemovedRow, IdleRemoval
<1>7. ASSUME NEW f \in Files, ReopenAfterRemoval(f) PROVE RemovalKnows'
  BY <1>7 DEF ReopenAfterRemoval, RemovalUnchanged, Removing,
         ApplyPipelineEvent, AfterPipelineEvent, RemovalGoto
<1>8. ASSUME NEW f \in Files, RemoveObject(f) PROVE RemovalKnows'
  BY <1>8 DEF RemoveObject, RemovalUnchanged, BucketAt, RemovalGoto
<1>9. ASSUME NEW f \in Files, RemovalFails(f) PROVE RemovalKnows'
  BY <1>9 DEF RemovalFails, Fault, IdleRemoval
<1>10. ASSUME Tick \/ FinishDeposit \/ FinishReadCompletion \/ FinishValidate
            \/ FinishFails \/ LinkEnds
      PROVE  UNCHANGED <<removal, row, posted, crossed, quarantine, verified>>
  BY <1>10 DEF Tick, FinishDeposit, FinishReadCompletion, FinishValidate,
         FinishFails, LinkEnds, FinishUnchanged, Fault
<1>11. ASSUME NEW h \in Handlers, NEW f \in Files, Deliver(h, f)
      PROVE  UNCHANGED <<removal, row, posted, crossed, quarantine, verified>>
  BY <1>11 DEF Deliver
<1>12. ASSUME NEW r \in Recorders, FindArrivedFile(r) \/ RefuseArrival(r)
            \/ JournalizeReception(r) \/ EnqueueScan(r)
      PROVE  UNCHANGED <<removal, row, posted, crossed, quarantine, verified>>
  BY <1>12 DEF FindArrivedFile, RefuseArrival, JournalizeReception, EnqueueScan
<1>13. ASSUME NEW r \in Recorders, SaveArrival(r) PROVE RemovalKnows'
  BY <1>13 DEF SaveArrival, At, Save, HasRow, IndexAllows, OccupantOf,
         LosesClean, Goto
<1>14. ASSUME NEW r \in Recorders, DiscardSuperseded(r) PROVE RemovalKnows'
  BY <1>14 DEF DiscardSuperseded, At, Goto, DeleteRow, HasRow, LosesClean
<1>15. ASSUME NEW r \in Recorders, DropArrivedObject(r) PROVE RemovalKnows'
  BY <1>15 DEF DropArrivedObject, At, EndArrival, IdleArrival
<1>16. ASSUME NEW h \in Handlers, HandlerFails(h)
      PROVE  UNCHANGED <<removal, row, posted, crossed, quarantine, verified>>
  BY <1>16 DEF HandlerFails, Fault
<1>17. ASSUME NEW f \in Files, StartScan(f) \/ NothingToScan(f)
      PROVE  UNCHANGED <<removal, row, posted, crossed, quarantine, verified>>
  BY <1>17 DEF StartScan, NothingToScan, ScanUnchanged
<1>18. ASSUME ScanStoredObject \/ DetectType \/ ObjectMissing
            \/ ScanReadCompletion \/ ScanValidate \/ NoticeCompletenessLost
            \/ ScanFails
      PROVE  UNCHANGED <<removal, row, posted, crossed, quarantine, verified>>
  BY <1>18 DEF ScanStoredObject, DetectType, ObjectMissing, ScanReadCompletion,
         ScanValidate, NoticeCompletenessLost, ScanFails, ScanUnchanged, Fault
<1>19. CASE CopyToVerified
  BY <1>19 DEF CopyToVerified, Doing, Proceed, ScanUnchanged
<1>20. CASE RemoveFromQuarantine
  BY <1>20 DEF RemoveFromQuarantine, Doing, Proceed, ScanUnchanged
<1>21. CASE SaveClean
  BY <1>21 DEF SaveClean, Doing, Proceed, ScanUnchanged, Save, HasRow
<1>22. CASE DropInfectedObject
  BY <1>22 DEF DropInfectedObject, Doing, Proceed, ScanUnchanged
<1>23. CASE SaveInfected
  BY <1>23 DEF SaveInfected, Doing, Proceed, ScanUnchanged, Save, HasRow
<1>24. CASE SaveRejected
  BY <1>24 DEF SaveRejected, Doing, Proceed, ScanUnchanged, Save, HasRow
<1>25. CASE DropRejectedObject
  BY <1>25 DEF DropRejectedObject, Doing, Proceed, ScanUnchanged
<1>26. ASSUME NEW f \in Files, RecoverArrival(f) \/ ExamineReservation(f)
            \/ RequeueScan(f) \/ ExamineObject(f)
      PROVE  UNCHANGED <<removal, row, posted, crossed, quarantine, verified>>
  BY <1>26 DEF RecoverArrival, ExamineReservation, RequeueScan, ExamineObject,
         PassUnchanged
<1>27. ASSUME StartPass \/ ListOverdueScans \/ ListQuarantine \/ CloseExpired
            \/ PassFails
      PROVE  UNCHANGED <<removal, row, posted, crossed, quarantine, verified>>
  BY <1>27 DEF StartPass, ListOverdueScans, ListQuarantine, CloseExpired,
         PassFails, PassUnchanged, Fault
<1>28. CASE DiscardReservation
  BY <1>28 DEF DiscardReservation, Doing, PassUnchanged, DeleteRow, HasRow,
         LosesClean
<1>29. CASE CollectObject
  BY <1>29 DEF CollectObject, Doing, PassUnchanged
<1> HIDE DEF IInv, TypeOK, RowsTellTheTruth, RecordersKnow, RemovalKnows, Gone,
         Uploaded, Deleted, FileStatuses, RemovalSteps
<1> QED
  BY <1>1, <1>2, <1>3, <1>4, <1>5, <1>6, <1>7, <1>8, <1>9, <1>10,
     <1>11, <1>12, <1>13, <1>14, <1>15, <1>16, <1>17, <1>18, <1>19, <1>20,
     <1>21, <1>22, <1>23, <1>24, <1>25, <1>26, <1>27, <1>28, <1>29
     DEF Next, vars, RecorderStep, ScanStep, PassStep, RemovalStep, FinishStep

\* Once every document has had a clean file, the history keeps saying so.
LEMMA ValidationKnowsStep == IInv /\ [Next]_vars => ValidationKnows'
<1> SUFFICES ASSUME IInv, [Next]_vars PROVE ValidationKnows'
  OBVIOUS
<1> USE ConstantAssumption DEF IInv, TypeOK, ScanKnows, ValidationKnows,
      Vouched, HasCleanFile, Gone, Deleted, FileStatuses
<1>1. CASE UNCHANGED <<worker, finish, status, row, lost>>
  BY <1>1
<1>2. ASSUME NEW f \in Files, Upload(f) \/ StartRemoval(f) \/ PlanRemoval(f)
            \/ RemoveObject(f) \/ RemovalFails(f)
      PROVE  UNCHANGED <<worker, finish, status, row, lost>>
  BY <1>2 DEF Upload, StartRemoval, PlanRemoval, RemoveObject, RemovalFails,
         RemovalUnchanged, Fault
<1>3. ASSUME NEW f \in Files, Reserve(f) PROVE ValidationKnows'
  BY <1>3 DEF Reserve, OccupantOf, Occupying
<1>4. ASSUME NEW f \in Files, RemoveRow(f) PROVE ValidationKnows'
  BY <1>4 DEF RemoveRow, RemovalUnchanged, Removing, DeleteRow, HasRow,
         LosesClean, AfterRemovedRow, IdleRemoval
<1>5. ASSUME NEW f \in Files, ReopenAfterRemoval(f) PROVE ValidationKnows'
  BY <1>5 DEF ReopenAfterRemoval, RemovalUnchanged, Removing,
         ApplyPipelineEvent, AfterPipelineEvent, RemovalGoto
<1>6. ASSUME Tick
      PROVE  UNCHANGED <<worker, finish, status, row, lost>>
  BY <1>6 DEF Tick
<1>7. CASE FinishDeposit
  BY <1>7 DEF FinishDeposit, FinishUnchanged, MayFinishDeposit,
         AfterFinishedDeposit
<1>8. CASE FinishReadCompletion
  BY <1>8 DEF FinishReadCompletion, FinishUnchanged, AfterFinishRead, Complete
<1>9. CASE FinishValidate
  BY <1>9 DEF FinishValidate, FinishUnchanged, ApplyPipelineEvent,
         AfterPipelineEvent
<1>10. CASE FinishFails
  BY <1>10 DEF FinishFails, Fault
<1>11. CASE LinkEnds
  BY <1>11 DEF LinkEnds, FinishUnchanged, ApplyPipelineEvent,
         AfterPipelineEvent
<1>12. ASSUME NEW h \in Handlers, NEW f \in Files, Deliver(h, f)
      PROVE  UNCHANGED <<worker, finish, status, row, lost>>
  BY <1>12 DEF Deliver
<1>13. ASSUME NEW r \in Recorders, FindArrivedFile(r) \/ RefuseArrival(r)
            \/ DropArrivedObject(r) \/ JournalizeReception(r) \/ EnqueueScan(r)
      PROVE  UNCHANGED <<worker, finish, status, row, lost>>
  BY <1>13 DEF FindArrivedFile, RefuseArrival, DropArrivedObject,
         JournalizeReception, EnqueueScan
<1>14. ASSUME NEW r \in Recorders, SaveArrival(r) PROVE ValidationKnows'
  BY <1>14 DEF SaveArrival, At, Save, HasRow, IndexAllows, OccupantOf,
         LosesClean, Goto
<1>15. ASSUME NEW r \in Recorders, DiscardSuperseded(r) PROVE ValidationKnows'
  BY <1>15 DEF DiscardSuperseded, At, Goto, DeleteRow, HasRow, LosesClean
<1>16. ASSUME NEW h \in Handlers, HandlerFails(h)
      PROVE  UNCHANGED <<worker, finish, status, row, lost>>
  BY <1>16 DEF HandlerFails, Fault
<1>17. ASSUME NEW f \in Files, NothingToScan(f)
      PROVE  UNCHANGED <<worker, finish, status, row, lost>>
  BY <1>17 DEF NothingToScan, ScanUnchanged
<1>18. ASSUME NEW f \in Files, StartScan(f) PROVE ValidationKnows'
  BY <1>18 DEF StartScan, Doing, HasJob, ScanUnchanged
<1>19. CASE ScanStoredObject
  BY <1>19 DEF ScanStoredObject, Doing, Proceed, ScanUnchanged, AfterScan
<1>20. CASE DetectType
  BY <1>20 DEF DetectType, Doing, Proceed, ScanUnchanged, AfterDetection
<1>21. CASE ObjectMissing
  BY <1>21 DEF ObjectMissing, Doing, Proceed, ScanUnchanged, FailScan, EndJob,
         IdleWorker
<1>22. CASE CopyToVerified
  BY <1>22 DEF CopyToVerified, Doing, Proceed, ScanUnchanged
<1>23. CASE RemoveFromQuarantine
  BY <1>23 DEF RemoveFromQuarantine, Doing, Proceed, ScanUnchanged
<1>24. CASE SaveClean
  <2> DEFINE f == worker.file
  <2>1. /\ worker.pc = "save_clean" /\ f \in Files
        /\ worker' = [worker EXCEPT !.pc = "completion"]
        /\ UNCHANGED <<status, finish>>
    BY <1>24 DEF SaveClean, Doing, Proceed, ScanUnchanged, ScanSteps
  <2>2. CASE HasRow(f)
    <3>1. row' = [row EXCEPT ![f] = "clean"] /\ lost' = lost \ {DocumentOf[f]}
      BY <1>24, <2>2 DEF SaveClean, Save
    <3>2. \A d \in Documents : HasCleanFile(d) \/ d \in lost => HasCleanFile(d)' \/ d \in lost'
      BY <2>1, <3>1
    <3> QED  BY <2>1, <3>2
  <2>3. CASE ~HasRow(f)
    <3>1. row' = [row EXCEPT ![f] = @] /\ lost' = lost
      BY <1>24, <2>3 DEF SaveClean, Save
    <3> QED  BY <2>1, <3>1
  <2> QED  BY <2>2, <2>3
<1>25. CASE ScanReadCompletion
  BY <1>25 DEF ScanReadCompletion, Doing, Proceed, ScanUnchanged, Complete,
         EndJob, IdleWorker
<1>26. CASE ScanValidate
  BY <1>26 DEF ScanValidate, Doing, Proceed, ScanUnchanged, EndJob, IdleWorker,
         ApplyPipelineEvent, AfterPipelineEvent
<1>27. CASE DropInfectedObject
  BY <1>27 DEF DropInfectedObject, Doing, Proceed, ScanUnchanged
<1>28. CASE SaveInfected
  BY <1>28 DEF SaveInfected, Doing, Proceed, ScanUnchanged, Save, HasRow
<1>29. CASE SaveRejected
  BY <1>29 DEF SaveRejected, Doing, Proceed, ScanUnchanged, Save, HasRow
<1>30. CASE DropRejectedObject
  BY <1>30 DEF DropRejectedObject, Doing, Proceed, ScanUnchanged
<1>31. CASE NoticeCompletenessLost
  BY <1>31 DEF NoticeCompletenessLost, Doing, Proceed, ScanUnchanged, EndJob,
         IdleWorker, ApplyPipelineEvent, AfterPipelineEvent
<1>32. CASE ScanFails
  BY <1>32 DEF ScanFails, FailScan, EndJob, IdleWorker, Fault
<1>33. ASSUME NEW f \in Files, RecoverArrival(f) PROVE ValidationKnows'
  BY <1>33 DEF RecoverArrival, Doing, PassUnchanged, At, StartArrival
<1>34. ASSUME NEW f \in Files, ExamineReservation(f) PROVE ValidationKnows'
  BY <1>34 DEF ExamineReservation, Doing, PassUnchanged, At
<1>35. ASSUME NEW f \in Files, RequeueScan(f) PROVE ValidationKnows'
  BY <1>35 DEF RequeueScan, Doing, PassUnchanged
<1>36. ASSUME NEW f \in Files, ExamineObject(f) PROVE ValidationKnows'
  BY <1>36 DEF ExamineObject, Doing, PassUnchanged, HasRow, Terminal
<1>37. CASE StartPass
  BY <1>37 DEF StartPass, Doing, PassUnchanged, IsAbandoned
<1>38. CASE DiscardReservation
  BY <1>38 DEF DiscardReservation, Doing, PassUnchanged, DeleteRow, HasRow,
         LosesClean
<1>39. CASE ListOverdueScans
  BY <1>39 DEF ListOverdueScans, Doing, PassUnchanged, At, IsOverdue
<1>40. CASE ListQuarantine
  BY <1>40 DEF ListQuarantine, Doing, PassUnchanged
<1>41. CASE CollectObject
  BY <1>41 DEF CollectObject, Doing, PassUnchanged
<1>42. CASE CloseExpired
  BY <1>42 DEF CloseExpired, Doing, EndJob, IdleWorker, ApplyPipelineEvent,
         AfterPipelineEvent
<1>43. CASE PassFails
  BY <1>43 DEF PassFails, EndJob, IdleWorker, EndArrival, IdleArrival, Fault
<1> HIDE DEF IInv, TypeOK, ScanKnows, ValidationKnows, Vouched, HasCleanFile,
         Gone, Deleted, FileStatuses
<1> QED
  BY <1>1, <1>2, <1>3, <1>4, <1>5, <1>6, <1>7, <1>8, <1>9, <1>10,
     <1>11, <1>12, <1>13, <1>14, <1>15, <1>16, <1>17, <1>18, <1>19, <1>20,
     <1>21, <1>22, <1>23, <1>24, <1>25, <1>26, <1>27, <1>28, <1>29, <1>30,
     <1>31, <1>32, <1>33, <1>34, <1>35, <1>36, <1>37, <1>38, <1>39, <1>40,
     <1>41, <1>42, <1>43
     DEF Next, vars, RecorderStep, ScanStep, PassStep, RemovalStep, FinishStep

\* The verified object of a clean row is there: promotion precedes SaveClean,
\* and RemoveRow precedes the deletion of the object.
LEMMA CleanIsStoredStep == IInv /\ [Next]_vars => CleanIsStored'
<1> SUFFICES ASSUME IInv, [Next]_vars PROVE CleanIsStored'
  OBVIOUS
<1> USE ConstantAssumption DEF IInv, TypeOK, CleanIsStored, ScanKnows,
      RemovalKnows, Gone, Deleted, FileStatuses
<1>1. CASE UNCHANGED <<row, verified>>
  BY <1>1
<1>2. ASSUME NEW f \in Files, Upload(f) \/ StartRemoval(f) \/ PlanRemoval(f)
            \/ ReopenAfterRemoval(f) \/ RemovalFails(f)
      PROVE  UNCHANGED <<row, verified>>
  BY <1>2 DEF Upload, StartRemoval, PlanRemoval, ReopenAfterRemoval,
         RemovalFails, RemovalUnchanged, Fault
<1>3. ASSUME NEW f \in Files, Reserve(f) PROVE CleanIsStored'
  BY <1>3 DEF Reserve, OccupantOf, Occupying
<1>4. ASSUME NEW f \in Files, RemoveRow(f) PROVE CleanIsStored'
  BY <1>4 DEF RemoveRow, RemovalUnchanged, Removing, DeleteRow, HasRow,
         LosesClean, AfterRemovedRow, IdleRemoval
<1>5. ASSUME NEW f \in Files, RemoveObject(f) PROVE CleanIsStored'
  <2>1. UNCHANGED row /\ \A g \in Files \ {f} : verified'[g] = verified[g]
    BY <1>5 DEF RemoveObject
  <2>2. row[f] # "clean"
    BY <1>5 DEF RemoveObject
  <2> QED  BY <2>1, <2>2
<1>6. ASSUME Tick \/ FinishDeposit \/ FinishReadCompletion \/ FinishValidate
            \/ FinishFails \/ LinkEnds
      PROVE  UNCHANGED <<row, verified>>
  BY <1>6 DEF Tick, FinishDeposit, FinishReadCompletion, FinishValidate,
         FinishFails, LinkEnds, FinishUnchanged, Fault
<1>7. ASSUME NEW h \in Handlers, NEW f \in Files, Deliver(h, f)
      PROVE  UNCHANGED <<row, verified>>
  BY <1>7 DEF Deliver
<1>8. ASSUME NEW r \in Recorders, FindArrivedFile(r) \/ RefuseArrival(r)
            \/ DropArrivedObject(r) \/ JournalizeReception(r) \/ EnqueueScan(r)
      PROVE  UNCHANGED <<row, verified>>
  BY <1>8 DEF FindArrivedFile, RefuseArrival, DropArrivedObject,
         JournalizeReception, EnqueueScan
<1>9. ASSUME NEW r \in Recorders, SaveArrival(r) PROVE CleanIsStored'
  BY <1>9 DEF SaveArrival, At, Save, HasRow, IndexAllows, OccupantOf,
         LosesClean, Goto
<1>10. ASSUME NEW r \in Recorders, DiscardSuperseded(r) PROVE CleanIsStored'
  BY <1>10 DEF DiscardSuperseded, At, Goto, DeleteRow, HasRow, LosesClean
<1>11. ASSUME NEW h \in Handlers, HandlerFails(h)
      PROVE  UNCHANGED <<row, verified>>
  BY <1>11 DEF HandlerFails, Fault
<1>12. ASSUME NEW f \in Files, StartScan(f) \/ NothingToScan(f)
      PROVE  UNCHANGED <<row, verified>>
  BY <1>12 DEF StartScan, NothingToScan, ScanUnchanged
<1>13. ASSUME ScanStoredObject \/ DetectType \/ ObjectMissing
            \/ RemoveFromQuarantine \/ ScanReadCompletion \/ ScanValidate
            \/ DropInfectedObject \/ DropRejectedObject
            \/ NoticeCompletenessLost \/ ScanFails
      PROVE  UNCHANGED <<row, verified>>
  BY <1>13 DEF ScanStoredObject, DetectType, ObjectMissing,
         RemoveFromQuarantine, ScanReadCompletion, ScanValidate,
         DropInfectedObject, DropRejectedObject, NoticeCompletenessLost,
         ScanFails, ScanUnchanged, Fault
<1>14. CASE CopyToVerified
  BY <1>14 DEF CopyToVerified, Doing, Proceed, ScanUnchanged
<1>15. CASE SaveClean
  BY <1>15 DEF SaveClean, Doing, Proceed, ScanUnchanged, Save, HasRow
<1>16. CASE SaveInfected
  BY <1>16 DEF SaveInfected, Doing, Proceed, ScanUnchanged, Save, HasRow
<1>17. CASE SaveRejected
  BY <1>17 DEF SaveRejected, Doing, Proceed, ScanUnchanged, Save, HasRow
<1>18. ASSUME NEW f \in Files, RecoverArrival(f) \/ ExamineReservation(f)
            \/ RequeueScan(f) \/ ExamineObject(f)
      PROVE  UNCHANGED <<row, verified>>
  BY <1>18 DEF RecoverArrival, ExamineReservation, RequeueScan, ExamineObject,
         PassUnchanged
<1>19. ASSUME StartPass \/ ListOverdueScans \/ ListQuarantine \/ CollectObject
            \/ CloseExpired \/ PassFails
      PROVE  UNCHANGED <<row, verified>>
  BY <1>19 DEF StartPass, ListOverdueScans, ListQuarantine, CollectObject,
         CloseExpired, PassFails, PassUnchanged, Fault
<1>20. CASE DiscardReservation
  BY <1>20 DEF DiscardReservation, Doing, PassUnchanged, DeleteRow, HasRow,
         LosesClean
<1> HIDE DEF IInv, TypeOK, CleanIsStored, ScanKnows, RemovalKnows, Gone,
         Deleted, FileStatuses
<1> QED
  BY <1>1, <1>2, <1>3, <1>4, <1>5, <1>6, <1>7, <1>8, <1>9, <1>10,
     <1>11, <1>12, <1>13, <1>14, <1>15, <1>16, <1>17, <1>18, <1>19, <1>20
     DEF Next, vars, RecorderStep, ScanStep, PassStep, RemovalStep, FinishStep

\* CopyToVerified, the only way in, follows both verdicts, and copies what they
\* judged unless a post has crossed the scan.
LEMMA OnlyHealthyVerifiedStep == IInv /\ [Next]_vars => OnlyHealthyVerified'
<1> SUFFICES ASSUME IInv, [Next]_vars PROVE OnlyHealthyVerified'
  OBVIOUS
<1> USE ConstantAssumption DEF IInv, TypeOK, OnlyHealthyVerified,
      RowsTellTheTruth, ScanKnows, Uploaded
<1>1. CASE UNCHANGED <<verified, posted, crossed>>
  BY <1>1
<1>2. ASSUME NEW f \in Files, Reserve(f) \/ StartRemoval(f) \/ PlanRemoval(f)
            \/ RemoveRow(f) \/ ReopenAfterRemoval(f) \/ RemovalFails(f)
      PROVE  UNCHANGED <<verified, posted, crossed>>
  BY <1>2 DEF Reserve, StartRemoval, PlanRemoval, RemoveRow,
         ReopenAfterRemoval, RemovalFails, RemovalUnchanged, Fault
<1>3. ASSUME NEW f \in Files, Upload(f) PROVE OnlyHealthyVerified'
  BY <1>3 DEF Upload
<1>4. ASSUME NEW f \in Files, RemoveObject(f) PROVE OnlyHealthyVerified'
  BY <1>4 DEF RemoveObject, RemovalUnchanged, BucketAt, RemovalGoto
<1>5. ASSUME Tick \/ FinishDeposit \/ FinishReadCompletion \/ FinishValidate
            \/ FinishFails \/ LinkEnds
      PROVE  UNCHANGED <<verified, posted, crossed>>
  BY <1>5 DEF Tick, FinishDeposit, FinishReadCompletion, FinishValidate,
         FinishFails, LinkEnds, FinishUnchanged, Fault
<1>6. ASSUME NEW h \in Handlers, NEW f \in Files, Deliver(h, f)
      PROVE  UNCHANGED <<verified, posted, crossed>>
  BY <1>6 DEF Deliver
<1>7. ASSUME NEW r \in Recorders, FindArrivedFile(r) \/ SaveArrival(r)
            \/ RefuseArrival(r) \/ DiscardSuperseded(r) \/ DropArrivedObject(r)
            \/ JournalizeReception(r) \/ EnqueueScan(r)
      PROVE  UNCHANGED <<verified, posted, crossed>>
  BY <1>7 DEF FindArrivedFile, SaveArrival, RefuseArrival, DiscardSuperseded,
         DropArrivedObject, JournalizeReception, EnqueueScan
<1>8. ASSUME NEW h \in Handlers, HandlerFails(h)
      PROVE  UNCHANGED <<verified, posted, crossed>>
  BY <1>8 DEF HandlerFails, Fault
<1>9. ASSUME NEW f \in Files, StartScan(f) \/ NothingToScan(f)
      PROVE  UNCHANGED <<verified, posted, crossed>>
  BY <1>9 DEF StartScan, NothingToScan, ScanUnchanged
<1>10. ASSUME ScanStoredObject \/ DetectType \/ ObjectMissing
            \/ RemoveFromQuarantine \/ SaveClean \/ ScanReadCompletion
            \/ ScanValidate \/ DropInfectedObject \/ SaveInfected
            \/ SaveRejected \/ DropRejectedObject \/ NoticeCompletenessLost
            \/ ScanFails
      PROVE  UNCHANGED <<verified, posted, crossed>>
  BY <1>10 DEF ScanStoredObject, DetectType, ObjectMissing,
         RemoveFromQuarantine, SaveClean, ScanReadCompletion, ScanValidate,
         DropInfectedObject, SaveInfected, SaveRejected, DropRejectedObject,
         NoticeCompletenessLost, ScanFails, ScanUnchanged, Fault
<1>11. CASE CopyToVerified
  BY <1>11 DEF CopyToVerified, Doing, Proceed, ScanUnchanged
<1>12. ASSUME NEW f \in Files, RecoverArrival(f) \/ ExamineReservation(f)
            \/ RequeueScan(f) \/ ExamineObject(f)
      PROVE  UNCHANGED <<verified, posted, crossed>>
  BY <1>12 DEF RecoverArrival, ExamineReservation, RequeueScan, ExamineObject,
         PassUnchanged
<1>13. ASSUME StartPass \/ DiscardReservation \/ ListOverdueScans
            \/ ListQuarantine \/ CollectObject \/ CloseExpired \/ PassFails
      PROVE  UNCHANGED <<verified, posted, crossed>>
  BY <1>13 DEF StartPass, DiscardReservation, ListOverdueScans, ListQuarantine,
         CollectObject, CloseExpired, PassFails, PassUnchanged, Fault
<1> HIDE DEF IInv, TypeOK, OnlyHealthyVerified, RowsTellTheTruth, ScanKnows,
         Uploaded
<1> QED
  BY <1>1, <1>2, <1>3, <1>4, <1>5, <1>6, <1>7, <1>8, <1>9, <1>10,
     <1>11, <1>12, <1>13
     DEF Next, vars, RecorderStep, ScanStep, PassStep, RemovalStep, FinishStep

\* Only SaveArrival makes a new occupant, and the unique index guards it; the
\* verdict of a scan falls on a row that is an occupant already, or on no row.
LEMMA OneOccupantStep == IInv /\ [Next]_vars => OneOccupant'
<1> SUFFICES ASSUME IInv, [Next]_vars PROVE OneOccupant'
  OBVIOUS
<1> USE ConstantAssumption DEF IInv, TypeOK, OneOccupant, ScanKnows, Occupying,
      Gone, Deleted, FileStatuses
<1>1. CASE UNCHANGED <<row>>
  BY <1>1
<1>2. ASSUME NEW f \in Files, Upload(f) \/ StartRemoval(f) \/ PlanRemoval(f)
            \/ ReopenAfterRemoval(f) \/ RemoveObject(f) \/ RemovalFails(f)
      PROVE  UNCHANGED <<row>>
  BY <1>2 DEF Upload, StartRemoval, PlanRemoval, ReopenAfterRemoval,
         RemoveObject, RemovalFails, RemovalUnchanged, Fault
<1>3. ASSUME NEW f \in Files, Reserve(f) PROVE OneOccupant'
  BY <1>3 DEF Reserve, OccupantOf
<1>4. ASSUME NEW f \in Files, RemoveRow(f) PROVE OneOccupant'
  BY <1>4 DEF RemoveRow, RemovalUnchanged, Removing, DeleteRow, HasRow,
         LosesClean, AfterRemovedRow, IdleRemoval
<1>5. ASSUME Tick \/ FinishDeposit \/ FinishReadCompletion \/ FinishValidate
            \/ FinishFails \/ LinkEnds
      PROVE  UNCHANGED <<row>>
  BY <1>5 DEF Tick, FinishDeposit, FinishReadCompletion, FinishValidate,
         FinishFails, LinkEnds, FinishUnchanged, Fault
<1>6. ASSUME NEW h \in Handlers, NEW f \in Files, Deliver(h, f)
      PROVE  UNCHANGED <<row>>
  BY <1>6 DEF Deliver
<1>7. ASSUME NEW r \in Recorders, FindArrivedFile(r) \/ RefuseArrival(r)
            \/ DropArrivedObject(r) \/ JournalizeReception(r) \/ EnqueueScan(r)
      PROVE  UNCHANGED <<row>>
  BY <1>7 DEF FindArrivedFile, RefuseArrival, DropArrivedObject,
         JournalizeReception, EnqueueScan
<1>8. ASSUME NEW r \in Recorders, SaveArrival(r) PROVE OneOccupant'
  BY <1>8 DEF SaveArrival, At, Save, HasRow, IndexAllows, OccupantOf,
         LosesClean, Goto
<1>9. ASSUME NEW r \in Recorders, DiscardSuperseded(r) PROVE OneOccupant'
  BY <1>9 DEF DiscardSuperseded, At, Goto, DeleteRow, HasRow, LosesClean
<1>10. ASSUME NEW h \in Handlers, HandlerFails(h)
      PROVE  UNCHANGED <<row>>
  BY <1>10 DEF HandlerFails, Fault
<1>11. ASSUME NEW f \in Files, StartScan(f) \/ NothingToScan(f)
      PROVE  UNCHANGED <<row>>
  BY <1>11 DEF StartScan, NothingToScan, ScanUnchanged
<1>12. ASSUME ScanStoredObject \/ DetectType \/ ObjectMissing \/ CopyToVerified
            \/ RemoveFromQuarantine \/ ScanReadCompletion \/ ScanValidate
            \/ DropInfectedObject \/ DropRejectedObject
            \/ NoticeCompletenessLost \/ ScanFails
      PROVE  UNCHANGED <<row>>
  BY <1>12 DEF ScanStoredObject, DetectType, ObjectMissing, CopyToVerified,
         RemoveFromQuarantine, ScanReadCompletion, ScanValidate,
         DropInfectedObject, DropRejectedObject, NoticeCompletenessLost,
         ScanFails, ScanUnchanged, Fault
<1>13. CASE SaveClean
  BY <1>13 DEF SaveClean, Doing, Proceed, ScanUnchanged, Save, HasRow
<1>14. CASE SaveInfected
  BY <1>14 DEF SaveInfected, Doing, Proceed, ScanUnchanged, Save, HasRow
<1>15. CASE SaveRejected
  BY <1>15 DEF SaveRejected, Doing, Proceed, ScanUnchanged, Save, HasRow
<1>16. ASSUME NEW f \in Files, RecoverArrival(f) \/ ExamineReservation(f)
            \/ RequeueScan(f) \/ ExamineObject(f)
      PROVE  UNCHANGED <<row>>
  BY <1>16 DEF RecoverArrival, ExamineReservation, RequeueScan, ExamineObject,
         PassUnchanged
<1>17. ASSUME StartPass \/ ListOverdueScans \/ ListQuarantine \/ CollectObject
            \/ CloseExpired \/ PassFails
      PROVE  UNCHANGED <<row>>
  BY <1>17 DEF StartPass, ListOverdueScans, ListQuarantine, CollectObject,
         CloseExpired, PassFails, PassUnchanged, Fault
<1>18. CASE DiscardReservation
  BY <1>18 DEF DiscardReservation, Doing, PassUnchanged, DeleteRow, HasRow,
         LosesClean
<1> HIDE DEF IInv, TypeOK, OneOccupant, ScanKnows, Occupying, Gone, Deleted,
         FileStatuses
<1> QED
  BY <1>1, <1>2, <1>3, <1>4, <1>5, <1>6, <1>7, <1>8, <1>9, <1>10,
     <1>11, <1>12, <1>13, <1>14, <1>15, <1>16, <1>17, <1>18
     DEF Next, vars, RecorderStep, ScanStep, PassStep, RemovalStep, FinishStep

\* No step but a removal or a refusal by the index takes a healthy file away.
LEMMA HealthyDepositKeptStep == IInv /\ [Next]_vars => HealthyDepositKept'
<1> SUFFICES ASSUME IInv, [Next]_vars PROVE HealthyDepositKept'
  OBVIOUS
<1> USE ConstantAssumption DEF IInv, TypeOK, HealthyDepositKept,
      RowsTellTheTruth, RecordersKnow, ScanKnows, PassKnows, RemovalKnows,
      Gone, Uploaded, Deleted, FileStatuses, ScanSteps
<1>1. CASE UNCHANGED <<posted, crossed, row, quarantine, verified>>
  BY <1>1
<1>2. ASSUME NEW f \in Files, StartRemoval(f) \/ PlanRemoval(f)
            \/ ReopenAfterRemoval(f) \/ RemovalFails(f)
      PROVE  UNCHANGED <<posted, crossed, row, quarantine, verified>>
  BY <1>2 DEF StartRemoval, PlanRemoval, ReopenAfterRemoval, RemovalFails,
         RemovalUnchanged, Fault
<1>3. ASSUME NEW f \in Files, Reserve(f) PROVE HealthyDepositKept'
  BY <1>3 DEF Reserve, OccupantOf, Occupying
<1>4. ASSUME NEW f \in Files, Upload(f) PROVE HealthyDepositKept'
  <2>1. ticket[f] # 0 /\ UNCHANGED <<row, verified>>
    BY <1>4 DEF Upload
  <2>2. /\ \A g \in Files : g # f => posted'[g] = posted[g] /\ quarantine'[g] = quarantine[g]
        /\ quarantine'[f] # "none" /\ posted[f] \subseteq posted'[f]
    <3> HIDE DEF TypeOK, IInv
    <3>1. TypeOK
      BY DEF IInv
    <3> QED  BY <1>4, <3>1, UploadEffect DEF ContentKinds
  <2>3. row[f] \notin {"none", "abandoned"}
    BY <2>1
  <2>4. posted'[f] = {"healthy"} => row[f] \notin {"infected", "rejected"}
    BY <2>2
  <2>5. row[f] \in FileStatuses \cup Deleted
    BY <2>3
  <2>6. HealthyDepositKept
    OBVIOUS
  <2> HIDE DEF IInv, TypeOK, RowsTellTheTruth, RecordersKnow, ScanKnows,
           PassKnows, RemovalKnows
  <2> QED  BY <2>1, <2>2, <2>3, <2>4, <2>5, <2>6
<1>5. ASSUME NEW f \in Files, RemoveRow(f) PROVE HealthyDepositKept'
  BY <1>5 DEF RemoveRow, RemovalUnchanged, Removing, DeleteRow, HasRow,
         LosesClean, AfterRemovedRow, IdleRemoval
<1>6. ASSUME NEW f \in Files, RemoveObject(f) PROVE HealthyDepositKept'
  BY <1>6 DEF RemoveObject, RemovalUnchanged, BucketAt, RemovalGoto
<1>7. ASSUME Tick \/ FinishDeposit \/ FinishReadCompletion \/ FinishValidate
            \/ FinishFails \/ LinkEnds
      PROVE  UNCHANGED <<posted, crossed, row, quarantine, verified>>
  BY <1>7 DEF Tick, FinishDeposit, FinishReadCompletion, FinishValidate,
         FinishFails, LinkEnds, FinishUnchanged, Fault
<1>8. ASSUME NEW h \in Handlers, NEW f \in Files, Deliver(h, f)
      PROVE  UNCHANGED <<posted, crossed, row, quarantine, verified>>
  BY <1>8 DEF Deliver
<1>9. ASSUME NEW r \in Recorders, FindArrivedFile(r) \/ RefuseArrival(r)
            \/ JournalizeReception(r) \/ EnqueueScan(r)
      PROVE  UNCHANGED <<posted, crossed, row, quarantine, verified>>
  BY <1>9 DEF FindArrivedFile, RefuseArrival, JournalizeReception, EnqueueScan
<1>10. ASSUME NEW r \in Recorders, SaveArrival(r) PROVE HealthyDepositKept'
  BY <1>10 DEF SaveArrival, At, Save, HasRow, IndexAllows, OccupantOf,
         LosesClean, Goto
<1>11. ASSUME NEW r \in Recorders, DiscardSuperseded(r)
      PROVE HealthyDepositKept'
  BY <1>11 DEF DiscardSuperseded, At, Goto, DeleteRow, HasRow, LosesClean
<1>12. ASSUME NEW r \in Recorders, DropArrivedObject(r)
      PROVE HealthyDepositKept'
  BY <1>12 DEF DropArrivedObject, At, EndArrival, IdleArrival
<1>13. ASSUME NEW h \in Handlers, HandlerFails(h)
      PROVE  UNCHANGED <<posted, crossed, row, quarantine, verified>>
  BY <1>13 DEF HandlerFails, Fault
<1>14. ASSUME NEW f \in Files, StartScan(f) \/ NothingToScan(f)
      PROVE  UNCHANGED <<posted, crossed, row, quarantine, verified>>
  BY <1>14 DEF StartScan, NothingToScan, ScanUnchanged
<1>15. ASSUME ScanStoredObject \/ DetectType \/ ObjectMissing
            \/ ScanReadCompletion \/ ScanValidate \/ NoticeCompletenessLost
            \/ ScanFails
      PROVE  UNCHANGED <<posted, crossed, row, quarantine, verified>>
  BY <1>15 DEF ScanStoredObject, DetectType, ObjectMissing, ScanReadCompletion,
         ScanValidate, NoticeCompletenessLost, ScanFails, ScanUnchanged, Fault
<1>16. CASE CopyToVerified
  BY <1>16 DEF CopyToVerified, Doing, Proceed, ScanUnchanged
<1>17. CASE RemoveFromQuarantine
  BY <1>17 DEF RemoveFromQuarantine, Doing, Proceed, ScanUnchanged
<1>18. CASE SaveClean
  BY <1>18 DEF SaveClean, Doing, Proceed, ScanUnchanged, Save, HasRow
<1>19. CASE DropInfectedObject
  BY <1>19 DEF DropInfectedObject, Doing, Proceed, ScanUnchanged
<1>20. CASE SaveInfected
  BY <1>20 DEF SaveInfected, Doing, Proceed, ScanUnchanged, Save, HasRow
<1>21. CASE SaveRejected
  BY <1>21 DEF SaveRejected, Doing, Proceed, ScanUnchanged, Save, HasRow
<1>22. CASE DropRejectedObject
  BY <1>22 DEF DropRejectedObject, Doing, Proceed, ScanUnchanged
<1>23. ASSUME NEW f \in Files, RecoverArrival(f) \/ ExamineReservation(f)
            \/ RequeueScan(f) \/ ExamineObject(f)
      PROVE  UNCHANGED <<posted, crossed, row, quarantine, verified>>
  BY <1>23 DEF RecoverArrival, ExamineReservation, RequeueScan, ExamineObject,
         PassUnchanged
<1>24. ASSUME StartPass \/ ListOverdueScans \/ ListQuarantine \/ CloseExpired
            \/ PassFails
      PROVE  UNCHANGED <<posted, crossed, row, quarantine, verified>>
  BY <1>24 DEF StartPass, ListOverdueScans, ListQuarantine, CloseExpired,
         PassFails, PassUnchanged, Fault
<1>25. CASE DiscardReservation
  BY <1>25 DEF DiscardReservation, Doing, PassUnchanged, DeleteRow, HasRow,
         LosesClean
<1>26. CASE CollectObject
  BY <1>26 DEF CollectObject, Doing, PassUnchanged
<1> HIDE DEF IInv, TypeOK, HealthyDepositKept, RowsTellTheTruth, RecordersKnow,
         ScanKnows, PassKnows, RemovalKnows, Gone, Uploaded, Deleted,
         FileStatuses, ScanSteps
<1> QED
  BY <1>1, <1>2, <1>3, <1>4, <1>5, <1>6, <1>7, <1>8, <1>9, <1>10,
     <1>11, <1>12, <1>13, <1>14, <1>15, <1>16, <1>17, <1>18, <1>19, <1>20,
     <1>21, <1>22, <1>23, <1>24, <1>25, <1>26
     DEF Next, vars, RecorderStep, ScanStep, PassStep, RemovalStep, FinishStep

-----------------------------------------------------------------------------
(***************************************************************************)
(* The theorems.                                                           *)
(***************************************************************************)
\* Every step keeps the whole invariant.
LEMMA InvStep == IInv /\ [Next]_vars => IInv'
<1> SUFFICES ASSUME IInv, [Next]_vars PROVE IInv'
  OBVIOUS
<1>1. TypeOK'
  BY TypeStep DEF IInv
<1> QED
  BY <1>1, RowsTellTheTruthStep, RecordersKnowStep, ScanKnowsStep,
     PassKnowsStep, RemovalKnowsStep, ValidationKnowsStep, CleanIsStoredStep,
     OnlyHealthyVerifiedStep, OneOccupantStep, HealthyDepositKeptStep
     DEF IInv

\* What each actor relies on between two of its steps holds at any time,
\* whatever the other actors, the client, the clock and the faults do.
THEOREM Invariance == Spec => []IInv
  BY InvInit, InvStep, PTL DEF Spec

\* Every state is of the right types.
THEOREM TypeCorrect == Spec => []TypeOK
<1>1. IInv => TypeOK
  BY DEF IInv
<1> QED  BY <1>1, Invariance, PTL

\* A file shown as clean can be downloaded: its object is in the verified
\* bucket (apply_verdict promotes the object before the row is saved).
THEOREM CleanStored == Spec => []CleanIsStored
<1>1. IInv => CleanIsStored
  BY DEF IInv
<1> QED  BY <1>1, Invariance, PTL

\* Nothing enters the verified bucket but what passed the scan and the check of its
\* type, unless the client posted again between the answer of the scan and the copy
\* (DepositedFileScanService.scan, promote_object).
THEOREM VerifiedHealthy == Spec => []OnlyHealthyVerified
<1>1. IInv => OnlyHealthyVerified
  BY DEF IInv
<1> QED  BY <1>1, Invariance, PTL

\* A document never has two occupants, although save_state writes verdicts and
\* arrivals over rows it does not look at (violates_occupant_uniqueness).
THEOREM UniqueOccupant == Spec => []OneOccupant
<1>1. IInv => OneOccupant
  BY DEF IInv
<1> QED  BY <1>1, Invariance, PTL

\* A file of which nothing but healthy contents reached the storage is kept until the
\* client removes it or another file takes its place, provided the grace of a reservation is not
\* shorter than the life of its upload ticket (reconcile_deposits.ts).
THEOREM HealthyKept == Spec => []HealthyDepositKept
<1>1. IInv => HealthyDepositKept
  BY DEF IInv
<1> QED  BY <1>1, Invariance, PTL

\* A request is only validated when every expected document has had a clean
\* file (validate_when_every_expected_document_is_clean).
THEOREM ValidatedVouched == Spec => []ValidatedWasComplete
<1>1. IInv => ValidatedWasComplete
  BY DEF IInv, ValidationKnows, Vouched, ValidatedWasComplete
<1> QED  BY <1>1, Invariance, PTL

\* Once a removal is over, the object of the file is in no bucket and does not come
\* back, unless the client posted it again after the quarantine had been emptied
\* (delete_stored_object_wherever_it_lives).
THEOREM RemovedGone == Spec => []RemovedIsGone
<1>1. IInv => RemovedIsGone
  BY DEF IInv, RemovalKnows, RemovedIsGone
<1> QED  BY <1>1, Invariance, PTL

-----------------------------------------------------------------------------
(***************************************************************************)
(* The pipeline implements DepositPromise.  Every step is one of its       *)
(* steps, or one nobody sees from outside.                                 *)
(***************************************************************************)
PromiseVars == <<status, Life, posted, crossed, Stored, verified, VouchedFor, Erased>>

Allowed == [Promise!Next]_PromiseVars

\* Nothing of what is promised moves.
LEMMA Unseen ==
    ASSUME UNCHANGED <<status, row, posted, crossed, quarantine, verified, lost>>, Erased' = Erased
    PROVE  Allowed
<1>1. UNCHANGED <<Life, Stored, VouchedFor>>
  BY DEF Life, LifeOf, Stored, VouchedFor, HasCleanFile
<1> QED  BY <1>1 DEF Allowed, PromiseVars

LEMMA SameErased ==
    ASSUME UNCHANGED removal
    PROVE  Erased' = Erased
BY DEF Erased

LEMMA StillErased ==
    ASSUME NEW f \in Files, removal[f].pc # "done", removal'[f].pc # "done",
           \A g \in Files \ {f} : removal'[g] = removal[g]
    PROVE  Erased' = Erased
<1>1. \A g \in Files : removal'[g].pc = "done" <=> removal[g].pc = "done"
  OBVIOUS
<1> QED  BY <1>1 DEF Erased

\* A row that changes, on the list and in the history of its document.
LEMMA RowMoves ==
    ASSUME TypeOK, NEW f \in Files, NEW s, row' = [row EXCEPT ![f] = s]
    PROVE  /\ Life' = [Life EXCEPT ![f] = LifeOf(s)]
           /\ Life[f] = LifeOf(row[f])
<1>1. row'[f] = s /\ \A g \in Files : g # f => row'[g] = row[g]
  BY DEF TypeOK
<1>2. \A g \in Files : Life'[g] = IF g = f THEN LifeOf(s) ELSE Life[g]
  BY <1>1 DEF Life, LifeOf
<1>3. Life' = [g \in Files |-> Life'[g]] /\ Life = [g \in Files |-> Life[g]]
  BY DEF Life
<1>4. Life' = [Life EXCEPT ![f] = LifeOf(s)]
  BY <1>2, <1>3
<1>5. Life[f] = LifeOf(row[f])
  BY DEF Life
<1> QED  BY <1>4, <1>5

LEMMA SameRow ==
    ASSUME TypeOK, NEW f \in Files, row' = [row EXCEPT ![f] = row[f]]
    PROVE  row' = row
BY DEF TypeOK

LEMMA StillVouched ==
    ASSUME TypeOK, NEW f \in Files, NEW s, row' = [row EXCEPT ![f] = s], s # "clean",
           lost' = lost \cup LosesClean(f)
    PROVE  VouchedFor' = VouchedFor
<1>1. row'[f] = s /\ \A g \in Files : g # f => row'[g] = row[g]
  BY DEF TypeOK
<1>2. DocumentOf[f] \in Documents
  BY ConstantAssumption
<1>3. CASE row[f] = "clean"
  BY <1>1, <1>2, <1>3 DEF VouchedFor, HasCleanFile, LosesClean
<1>4. CASE row[f] # "clean"
  BY <1>1, <1>4 DEF VouchedFor, HasCleanFile, LosesClean
<1> QED  BY <1>3, <1>4

LEMMA NewlyVouched ==
    ASSUME TypeOK, NEW f \in Files, row' = [row EXCEPT ![f] = "clean"], row[f] # "clean",
           lost' = lost \ {DocumentOf[f]}
    PROVE  VouchedFor' = VouchedFor \cup {DocumentOf[f]}
<1>1. row'[f] = "clean" /\ \A g \in Files : g # f => row'[g] = row[g]
  BY DEF TypeOK
<1>2. DocumentOf[f] \in Documents
  BY ConstantAssumption
<1> QED  BY <1>1, <1>2 DEF VouchedFor, HasCleanFile

LEMMA SameOccupants ==
    ASSUME NEW d
    PROVE  Promise!Occupants(d) = OccupantOf(d)
<1>1. \A f \in Files : Life[f] = LifeOf(row[f])
  BY DEF Life
<1> QED  BY <1>1 DEF Promise!Occupants, OccupantOf, Occupying, LifeOf

\* A row is deleted: the file is withdrawn, or was withdrawn before.
LEMMA DeletionAllowed ==
    ASSUME IInv, NEW f \in Files, NEW why \in {"removed", "superseded"}, row[f] # "none",
           DeleteRow(f, why), UNCHANGED <<status, posted, crossed, quarantine, verified>>,
           Erased' = Erased
    PROVE  Allowed
<1>0. TypeOK
  BY DEF IInv
<1>1. CASE HasRow(f)
  <2>1. row' = [row EXCEPT ![f] = why] /\ lost' = lost \cup LosesClean(f) /\ why # "clean"
    BY <1>1 DEF DeleteRow
  <2>2. VouchedFor' = VouchedFor
    BY <1>0, <2>1, StillVouched
  <2>3. Life' = [Life EXCEPT ![f] = "withdrawn"] /\ Promise!Listed(f)
    BY <1>0, <1>1, <2>1, RowMoves DEF LifeOf, HasRow, FileStatuses, Promise!Listed
  <2>4. Stored' = Stored
    BY DEF Stored
  <2>5. Promise!Withdraw(f)
    BY <2>2, <2>3, <2>4 DEF Promise!Withdraw, Promise!Becomes
  <2> QED  BY <2>5 DEF Allowed, Promise!Next
<1>2. CASE ~ HasRow(f)
  <2>1. row' = row
    BY <1>0, <1>2, SameRow DEF DeleteRow
  <2>2. lost' = lost
    BY <1>2 DEF DeleteRow, LosesClean, HasRow, FileStatuses
  <2> QED  BY <2>1, <2>2, Unseen
<1> QED  BY <1>1, <1>2

\* A verdict is written over a row that waits for it, or over none.
LEMMA VerdictAllowed ==
    ASSUME IInv, NEW f \in Files, row[f] = "pending_scan" \/ Gone(f), Uploaded(f),
           NEW s \in {"clean", "infected", "rejected"}, Save(f, s),
           s = "clean" => InVerified(f) \/ Gone(f),
           s = "infected" => "virus" \in posted[f],
           s = "rejected" => "nonconforming" \in posted[f],
           lost' = IF s = "clean" /\ HasRow(f) THEN lost \ {DocumentOf[f]} ELSE lost,
           UNCHANGED <<status, posted, crossed, quarantine, verified, removal>>
    PROVE  Allowed
<1>0. TypeOK
  BY DEF IInv
<1>1. Erased' = Erased /\ Stored' = Stored
  BY DEF Erased, Stored
<1>2. CASE row[f] = "pending_scan"
  <2>1. HasRow(f) /\ ~ Gone(f)
    BY <1>2 DEF HasRow, Gone, FileStatuses, Deleted
  <2>2. row' = [row EXCEPT ![f] = s]
    BY <2>1 DEF Save
  <2>3. Life' = [Life EXCEPT ![f] = s] /\ Life[f] = "pending_scan"
    BY <1>0, <1>2, <2>2, RowMoves DEF LifeOf
  <2>4. VouchedFor' = IF s = "clean" THEN VouchedFor \cup {DocumentOf[f]} ELSE VouchedFor
    <3>1. CASE s = "clean"
      BY <1>0, <1>2, <2>1, <2>2, <3>1, NewlyVouched
    <3>2. CASE s # "clean"
      <4>1. lost' = lost \cup LosesClean(f)
        BY <1>2, <3>2 DEF LosesClean
      <4> QED  BY <1>0, <2>2, <3>2, <4>1, StillVouched
    <3> QED  BY <3>1, <3>2
  <2>5. Promise!Deserves(f, s)
    BY <2>1 DEF Promise!Deserves
  <2>6. Promise!Judge(f)
    BY <1>1, <2>3, <2>4, <2>5 DEF Promise!Judge, Promise!Becomes
  <2> QED  BY <2>6 DEF Allowed, Promise!Next
<1>3. CASE Gone(f)
  <2>1. ~ HasRow(f)
    BY <1>3 DEF HasRow, Gone, FileStatuses, Deleted
  <2>2. row' = row /\ lost' = lost
    BY <1>0, <2>1, SameRow DEF Save
  <2> QED  BY <1>1, <2>2, Unseen
<1> QED  BY <1>2, <1>3

\* An object leaves the quarantine: it is in the verified bucket, or nobody
\* should keep it.
LEMMA DropAllowed ==
    ASSUME IInv, NEW f \in Files, quarantine' = Without(quarantine, f),
           InVerified(f) \/ (Gone(f) /\ Uploaded(f)) \/ posted[f] # {"healthy"},
           UNCHANGED <<status, row, posted, crossed, verified, lost>>, Erased' = Erased
    PROVE  Allowed
<1>1. UNCHANGED <<Life, VouchedFor>>
  BY DEF Life, LifeOf, VouchedFor, HasCleanFile
<1>2. \A g \in Files : quarantine'[g] = IF g = f THEN "none" ELSE quarantine[g]
  BY DEF IInv, TypeOK
<1>3. CASE InVerified(f)
  <2>1. Stored' = Stored
    BY <1>2, <1>3 DEF Stored
  <2> QED  BY <1>1, <2>1 DEF Allowed, PromiseVars
<1>4. CASE ~ InVerified(f)
  <2>1. Stored' = Stored \ {f}
    BY <1>2, <1>4 DEF Stored
  <2>2. Life[f] = "withdrawn" \/ posted[f] # {"healthy"}
    BY <1>4 DEF IInv, RowsTellTheTruth, Gone, Deleted, Life, LifeOf
  <2>3. Promise!Dispose(f)
    BY <1>1, <1>4, <2>1, <2>2 DEF Promise!Dispose
  <2> QED  BY <2>3 DEF Allowed, Promise!Next
<1> QED  BY <1>3, <1>4

\* A pipeline event moves the status for the reason it has.
LEMMA EventAllowed ==
    ASSUME IInv, NEW e \in PipelineEvents, ApplyPipelineEvent(e),
           e = "all_expected_documents_clean" => Vouched,
           e = "expected_document_became_not_clean" =>
              \E f \in Files : \/ Gone(f) /\ Uploaded(f)
                               \/ posted[f] \cap {"virus", "nonconforming"} # {},
           UNCHANGED <<row, posted, crossed, quarantine, verified, lost>>, Erased' = Erased
    PROVE  Allowed
<1>1. UNCHANGED <<Life, Stored, VouchedFor>>
  BY DEF Life, LifeOf, Stored, VouchedFor, HasCleanFile
<1>2. CASE e = "all_expected_documents_clean" /\ status = "processing"
  <2>1. Documents # {} /\ Documents \subseteq VouchedFor
    BY <1>2 DEF Vouched, VouchedFor
  <2>2. status' = "validated"
    BY <1>2 DEF ApplyPipelineEvent, AfterPipelineEvent
  <2>3. Promise!Validate
    BY <1>1, <1>2, <2>1, <2>2 DEF Promise!Validate, Promise!StatusBecomes
  <2> QED  BY <2>3 DEF Allowed, Promise!Next
<1>3. CASE e = "expected_document_became_not_clean" /\ status \in {"processing", "validated"}
  <2>1. PICK f \in Files : \/ Gone(f) /\ Uploaded(f)
                           \/ posted[f] \cap {"virus", "nonconforming"} # {}
    BY <1>3
  <2>2. Life[f] = "withdrawn" \/ posted[f] \cap {"virus", "nonconforming"} # {}
    BY <2>1 DEF IInv, RowsTellTheTruth, Gone, Deleted, Life, LifeOf
  <2>3. status' = "incomplete"
    BY <1>3 DEF ApplyPipelineEvent, AfterPipelineEvent
  <2>4. Promise!Reopen
    BY <1>1, <1>3, <2>2, <2>3 DEF Promise!Reopen, Promise!StatusBecomes
  <2> QED  BY <2>4 DEF Allowed, Promise!Next
<1>4. CASE e = "access_link_blocked" /\ status \in {"incomplete", "processing"}
  <2>1. status' = "blocked"
    BY <1>4 DEF ApplyPipelineEvent, AfterPipelineEvent
  <2>2. Promise!Close
    BY <1>1, <1>4, <2>1 DEF Promise!Close, Promise!StatusBecomes
  <2> QED  BY <2>2 DEF Allowed, Promise!Next
<1>5. CASE e = "access_link_expired" /\ status = "incomplete"
  <2>1. status' = "expired_incomplete"
    BY <1>5 DEF ApplyPipelineEvent, AfterPipelineEvent
  <2>2. Promise!Close
    BY <1>1, <1>5, <2>1 DEF Promise!Close, Promise!StatusBecomes
  <2> QED  BY <2>2 DEF Allowed, Promise!Next
<1>6. CASE status' = status
  BY <1>1, <1>6 DEF Allowed, PromiseVars
<1> QED  BY <1>2, <1>3, <1>4, <1>5, <1>6
         DEF ApplyPipelineEvent, AfterPipelineEvent, PipelineEvents

\* What an actor does for itself is not seen from outside.
LEMMA InnerSteps ==
    ASSUME IInv,
           \/ Tick \/ FinishReadCompletion \/ FinishFails
           \/ \E f \in Files : StartScan(f) \/ NothingToScan(f)
           \/ \E h \in Handlers, f \in Files : Deliver(h, f)
           \/ \E h \in Handlers : HandlerFails(h)
           \/ \E r \in Recorders : \/ FindArrivedFile(r) \/ RefuseArrival(r)
                                   \/ JournalizeReception(r) \/ EnqueueScan(r)
           \/ ScanStoredObject \/ DetectType \/ ObjectMissing \/ ScanReadCompletion \/ ScanFails
           \/ StartPass \/ ListOverdueScans \/ ListQuarantine \/ PassFails
           \/ \E f \in Files : \/ RecoverArrival(f) \/ ExamineReservation(f)
                               \/ RequeueScan(f) \/ ExamineObject(f)
    PROVE  Allowed
<1>1. CASE Tick \/ FinishReadCompletion \/ FinishFails
  BY <1>1, Unseen, SameErased DEF Tick, FinishReadCompletion, FinishFails, FinishUnchanged, Fault
<1>2. ASSUME NEW f \in Files, StartScan(f) \/ NothingToScan(f) PROVE Allowed
  BY <1>2, Unseen, SameErased DEF StartScan, NothingToScan, ScanUnchanged
<1>3. ASSUME NEW h \in Handlers, HandlerFails(h) \/ (\E f \in Files : Deliver(h, f))
      PROVE  Allowed
  BY <1>3, Unseen, SameErased DEF HandlerFails, Deliver, Fault
<1>4. ASSUME NEW r \in Recorders, \/ FindArrivedFile(r) \/ RefuseArrival(r)
                                  \/ JournalizeReception(r) \/ EnqueueScan(r)
      PROVE  Allowed
  BY <1>4, Unseen, SameErased
     DEF FindArrivedFile, RefuseArrival, JournalizeReception, EnqueueScan
<1>5. CASE \/ ScanStoredObject \/ DetectType \/ ObjectMissing \/ ScanReadCompletion \/ ScanFails
  BY <1>5, Unseen, SameErased DEF ScanStoredObject, DetectType, ObjectMissing,
     ScanReadCompletion, ScanFails, ScanUnchanged, Fault
<1>6. CASE StartPass \/ ListOverdueScans \/ ListQuarantine \/ PassFails
  BY <1>6, Unseen, SameErased DEF StartPass, ListOverdueScans, ListQuarantine, PassFails,
     PassUnchanged, Fault
<1>7. ASSUME NEW f \in Files, \/ RecoverArrival(f) \/ ExamineReservation(f)
                              \/ RequeueScan(f) \/ ExamineObject(f)
      PROVE  Allowed
  BY <1>7, Unseen, SameErased DEF RecoverArrival, ExamineReservation, RequeueScan,
     ExamineObject, PassUnchanged
<1> QED  BY <1>1, <1>2, <1>3, <1>4, <1>5, <1>6, <1>7

LEMMA ClientSteps ==
    ASSUME IInv, NEW f \in Files,
           \/ Reserve(f) \/ Upload(f) \/ StartRemoval(f) \/ RemovalStep(f) \/ RemovalFails(f)
    PROVE  Allowed
<1>0. TypeOK /\ RowsTellTheTruth /\ RemovalKnows /\ ScanKnows
  BY DEF IInv
<1>1. CASE Reserve(f)
  <2>1. /\ row[f] = "none" /\ OccupantOf(DocumentOf[f]) = {}
        /\ row' = [row EXCEPT ![f] = "pending_upload"]
        /\ UNCHANGED <<status, posted, crossed, quarantine, verified, lost, removal>>
    BY <1>1 DEF Reserve
  <2>2. Life' = [Life EXCEPT ![f] = "pending_upload"] /\ Life[f] = "none"
    BY <1>0, <2>1, RowMoves DEF LifeOf
  <2>3. VouchedFor' = VouchedFor
    BY <1>0, <2>1, StillVouched DEF LosesClean
  <2>4. Promise!Occupants(DocumentOf[f]) = {}
    BY <2>1, SameOccupants
  <2>5. Erased' = Erased /\ Stored' = Stored
    BY <2>1 DEF Erased, Stored
  <2>6. Promise!Reserve(f)
    BY <2>1, <2>2, <2>3, <2>4, <2>5 DEF Promise!Reserve, Promise!Becomes
  <2> QED  BY <2>6 DEF Allowed, Promise!Next
<1>2. CASE Upload(f)
  <2>1. /\ ticket[f] > 0
        /\ \E c \in Contents[f] : /\ quarantine' = [quarantine EXCEPT ![f] = c]
                                 /\ posted' = [posted EXCEPT ![f] = @ \cup {c}]
        /\ crossed' = [crossed EXCEPT ![f] = @ \cup Crossed(f)]
        /\ UNCHANGED <<status, row, verified, lost, removal>>
    BY <1>2 DEF Upload
  <2>2. row[f] \notin {"none", "abandoned"}
    BY <1>0, <2>1 DEF RowsTellTheTruth, TypeOK
  <2>3. Life[f] \notin {"none", "abandoned"}
    BY <2>2 DEF Life, LifeOf
  <2>4. Gone(f) => Life[f] = "withdrawn"
    BY <2>2 DEF Life, LifeOf, Gone, Deleted
  <2>5. "scan" \in Crossed(f) => Uploaded(f) /\ Life[f] \in {"pending_scan", "withdrawn"}
    <3>1. "scan" \in Crossed(f) => worker.file = f /\ worker.pc \in {"detect", "promote"}
      BY DEF Crossed
    <3>2. "scan" \in Crossed(f) => Uploaded(f) /\ (row[f] = "pending_scan" \/ Gone(f))
      BY <1>0, <3>1 DEF ScanKnows, ScanSteps
    <3> QED  BY <2>4, <3>2 DEF Life, LifeOf
  <2>6. "removal" \in Crossed(f) => Uploaded(f) /\ Life[f] = "withdrawn"
    BY <1>0, <2>4 DEF Crossed, RemovalKnows
  <2>7. Crossed(f) \subseteq {"scan", "removal"} /\ crossed'[f] = crossed[f] \cup Crossed(f)
    BY <1>0, <2>1 DEF Crossed, TypeOK
  <2>8. f \in Erased => "removal" \in crossed'[f]
    BY <2>7 DEF Erased, Crossed
  <2>9. \E c \in Promise!UploadKinds : posted' = [posted EXCEPT ![f] = @ \cup {c}]
    BY <2>1, ContentsAssumption DEF Promise!UploadKinds, ContentKinds
  <2>10. Stored' = Stored \cup {f}
    <3>1. quarantine \in [Files -> ContentKinds \cup {"none"}] /\ Contents[f] \subseteq ContentKinds
      BY <1>0, ContentsAssumption DEF TypeOK
    <3>2. \A g \in Files : InQuarantine(g)' <=> InQuarantine(g) \/ g = f
      BY <2>1, <3>1 DEF ContentKinds
    <3> QED  BY <2>1, <3>2 DEF Stored
  <2>11. UNCHANGED <<Life, VouchedFor, Erased>>
    BY <2>1 DEF Life, LifeOf, VouchedFor, HasCleanFile, Erased
  <2>12. \E x \in SUBSET {"scan", "removal"} :
            /\ crossed' = [crossed EXCEPT ![f] = @ \cup x]
            /\ x # {} => posted[f] # {} /\ Life[f] \in {"pending_scan", "withdrawn"}
            /\ "removal" \in x => Life[f] = "withdrawn"
    <3>1. Crossed(f) # {} => posted[f] # {} /\ Life[f] \in {"pending_scan", "withdrawn"}
      BY <2>5, <2>6, <2>7
    <3>2. Crossed(f) \in SUBSET {"scan", "removal"}
      BY <2>7
    <3> QED  BY <2>1, <2>6, <3>1, <3>2
  <2>13. Promise!Upload(f)
    BY <2>1, <2>3, <2>8, <2>9, <2>10, <2>11, <2>12 DEF Promise!Upload
  <2> QED  BY <2>13 DEF Allowed, Promise!Next
<1>3. CASE StartRemoval(f) \/ PlanRemoval(f) \/ RemovalFails(f)
  <2>1. UNCHANGED <<status, row, posted, crossed, quarantine, verified, lost>>
    BY <1>3 DEF StartRemoval, PlanRemoval, RemovalFails, RemovalUnchanged, Fault
  <2>2. CASE StartRemoval(f)
    <3>1. /\ removal[f].pc = "idle" /\ removal'[f].pc = "view"
          /\ \A g \in Files \ {f} : removal'[g] = removal[g]
      BY <1>0, <2>2 DEF StartRemoval, Removing, TypeOK
    <3>2. Erased' = Erased
      BY <3>1, StillErased
    <3> QED  BY <2>1, <3>2, Unseen
  <2>3. CASE PlanRemoval(f)
    <3>1. /\ removal[f].pc = "view" /\ removal'[f].pc \in {"delete_row", "idle"}
          /\ \A g \in Files \ {f} : removal'[g] = removal[g]
      BY <1>0, <2>3 DEF PlanRemoval, Removing, IdleRemoval, TypeOK
    <3>2. Erased' = Erased
      BY <3>1, StillErased
    <3> QED  BY <2>1, <3>2, Unseen
  <2>4. CASE RemovalFails(f)
    <3>1. /\ removal[f].pc # "done" /\ removal'[f].pc = "idle"
          /\ \A g \in Files \ {f} : removal'[g] = removal[g]
      BY <1>0, <2>4 DEF RemovalFails, IdleRemoval, TypeOK
    <3>2. Erased' = Erased
      BY <3>1, StillErased
    <3> QED  BY <2>1, <3>2, Unseen
  <2> QED  BY <1>3, <2>2, <2>3, <2>4
<1>4. CASE RemoveRow(f)
  <2>1. /\ DeleteRow(f, "removed") /\ removal[f].pc = "delete_row"
        /\ UNCHANGED <<status, posted, crossed, quarantine, verified>>
    BY <1>4 DEF RemoveRow, Removing, RemovalUnchanged
  <2>2. row[f] # "none"
    BY <1>0, <2>1 DEF RemovalKnows
  <2>3. /\ removal'[f].pc \in {"reopen", "idle", "drop_first"}
        /\ \A g \in Files \ {f} : removal'[g] = removal[g]
    BY <1>0, <1>4 DEF RemoveRow, IdleRemoval, AfterRemovedRow, TypeOK
  <2>4. Erased' = Erased
    BY <2>1, <2>3, StillErased
  <2> QED  BY <2>1, <2>2, <2>4, DeletionAllowed
<1>5. CASE ReopenAfterRemoval(f)
  <2>1. /\ removal[f].pc = "reopen" /\ ApplyPipelineEvent("expected_document_became_not_clean")
        /\ UNCHANGED <<row, posted, crossed, quarantine, verified, lost>>
    BY <1>5 DEF ReopenAfterRemoval, Removing, RemovalUnchanged
  <2>2. removal'[f].pc = "drop_first" /\ \A g \in Files \ {f} : removal'[g] = removal[g]
    BY <1>0, <1>5 DEF ReopenAfterRemoval, RemovalGoto, TypeOK
  <2>3. Erased' = Erased
    BY <2>1, <2>2, StillErased
  <2>4. Gone(f) /\ Uploaded(f)
    BY <1>0, <2>1 DEF RemovalKnows
  <2> QED  BY <2>1, <2>3, <2>4, EventAllowed DEF PipelineEvents
<1>6. CASE RemoveObject(f)
  <2>1. UNCHANGED <<status, row, posted, crossed, lost>>
    BY <1>6 DEF RemoveObject, RemovalUnchanged
  <2>2. CASE removal[f].pc = "drop_first"
    <3>1. /\ quarantine' = Without(quarantine, f) /\ verified' = verified
          /\ removal' = [removal EXCEPT ![f].pc = "drop_second"]
      BY <1>6, <2>2 DEF RemoveObject, BucketAt, RemovalGoto
    <3>2. Gone(f) /\ Uploaded(f)
      BY <1>0, <2>2 DEF RemovalKnows
    <3>3. removal'[f].pc = "drop_second" /\ \A g \in Files \ {f} : removal'[g] = removal[g]
      BY <1>0, <3>1 DEF TypeOK
    <3>4. Erased' = Erased
      BY <2>2, <3>3, StillErased
    <3> QED  BY <2>1, <3>1, <3>2, <3>4, DropAllowed
  <2>3. CASE removal[f].pc = "drop_second"
    <3>1. /\ quarantine' = quarantine /\ verified' = Without(verified, f)
          /\ removal' = [removal EXCEPT ![f].pc = "done"]
      BY <1>6, <2>3 DEF RemoveObject, BucketAt, RemovalGoto
    <3>2. Gone(f) /\ Uploaded(f) /\ (~ InQuarantine(f) \/ "removal" \in crossed[f])
      BY <1>0, <2>3 DEF RemovalKnows
    <3>3. Life[f] = "withdrawn"
      BY <1>0, <3>2 DEF RowsTellTheTruth, Gone, Deleted, Life, LifeOf
    <3>4. Erased' = Erased \cup {f}
      BY <1>0, <3>1 DEF Erased, TypeOK
    <3>5. \A g \in Files : verified'[g] = IF g = f THEN "none" ELSE verified[g]
      BY <1>0, <3>1 DEF TypeOK
    <3>6. \/ Stored' = Stored \ {f}
          \/ "removal" \in crossed[f] /\ Stored' = Stored
      <4>1. CASE ~ InQuarantine(f)
        BY <3>1, <3>5, <4>1 DEF Stored
      <4>2. CASE InQuarantine(f)
        BY <3>1, <3>2, <3>5, <4>2 DEF Stored
      <4> QED  BY <4>1, <4>2
    <3>7. UNCHANGED <<Life, VouchedFor>>
      BY <2>1 DEF Life, LifeOf, VouchedFor, HasCleanFile
    <3>8. Promise!Erase(f)
      BY <2>1, <3>1, <3>2, <3>3, <3>4, <3>6, <3>7 DEF Promise!Erase
    <3> QED  BY <3>8 DEF Allowed, Promise!Next
  <2> QED  BY <1>6, <2>2, <2>3 DEF RemoveObject
<1> QED  BY <1>1, <1>2, <1>3, <1>4, <1>5, <1>6 DEF RemovalStep

LEMMA StatusSteps ==
    ASSUME IInv, FinishDeposit \/ FinishValidate \/ LinkEnds
    PROVE  Allowed
<1>0. Erased' = Erased /\ UNCHANGED <<row, posted, crossed, quarantine, verified, lost>>
  BY DEF FinishDeposit, FinishValidate, LinkEnds, FinishUnchanged, Erased
<1>1. CASE FinishDeposit
  <2>1. UNCHANGED <<Life, Stored, VouchedFor>>
    BY <1>0 DEF Life, LifeOf, Stored, VouchedFor, HasCleanFile
  <2>2. Promise!Finish
    BY <1>0, <1>1, <2>1 DEF FinishDeposit, MayFinishDeposit, AfterFinishedDeposit,
       Promise!Finish, Promise!StatusBecomes
  <2> QED  BY <2>2 DEF Allowed, Promise!Next
<1>2. CASE FinishValidate
  BY <1>0, <1>2, EventAllowed DEF FinishValidate, PipelineEvents, IInv, ValidationKnows
<1>3. CASE LinkEnds
  <2>1. PICK e \in LinkEvents : ApplyPipelineEvent(e)
    BY <1>3 DEF LinkEnds
  <2>2. e \in {"access_link_blocked", "access_link_expired"}
    BY ConstantAssumption
  <2> QED  BY <1>0, <2>1, <2>2, EventAllowed DEF PipelineEvents
<1> QED  BY <1>1, <1>2, <1>3

LEMMA RecordingSteps ==
    ASSUME IInv, NEW r \in Recorders,
           SaveArrival(r) \/ DiscardSuperseded(r) \/ DropArrivedObject(r)
    PROVE  Allowed
<1> DEFINE f == arrival[r].file
<1>0. TypeOK /\ f \in Files /\ Uploaded(f) /\ (arrival[r].pc = "drop" => Gone(f))
  BY DEF IInv, TypeOK, RecordersKnow, SaveArrival, DiscardSuperseded, DropArrivedObject, At
<1>1. Erased' = Erased
  BY DEF SaveArrival, DiscardSuperseded, DropArrivedObject, Erased
<1>2. CASE SaveArrival(r)
  <2>1. /\ IndexAllows(f) \/ ~ HasRow(f)
        /\ Save(f, "pending_scan") /\ lost' = lost \cup LosesClean(f)
        /\ UNCHANGED <<status, posted, crossed, quarantine, verified>>
    BY <1>2 DEF SaveArrival
  <2>2. CASE HasRow(f)
    <3>1. row' = [row EXCEPT ![f] = "pending_scan"]
      BY <2>1, <2>2 DEF Save
    <3>2. Life' = [Life EXCEPT ![f] = "pending_scan"] /\ Promise!Listed(f)
      BY <1>0, <2>2, <3>1, RowMoves DEF LifeOf, HasRow, FileStatuses, Promise!Listed
    <3>3. VouchedFor' = VouchedFor
      BY <1>0, <2>1, <3>1, StillVouched
    <3>4. Promise!Occupants(DocumentOf[f]) \subseteq {f}
      BY <2>1, <2>2, SameOccupants DEF IndexAllows
    <3>5. Stored' = Stored
      BY <2>1 DEF Stored
    <3>6. Promise!Receive(f)
      BY <1>0, <1>1, <2>1, <3>2, <3>3, <3>4, <3>5
      DEF Promise!Receive, Promise!Becomes, Uploaded
    <3> QED  BY <1>0, <3>6 DEF Allowed, Promise!Next
  <2>3. CASE ~ HasRow(f)
    <3>1. row' = row /\ lost' = lost
      BY <1>0, <2>1, <2>3, SameRow DEF Save, LosesClean, HasRow, FileStatuses
    <3> QED  BY <1>1, <2>1, <3>1, Unseen
  <2> QED  BY <2>2, <2>3
<1>3. CASE DiscardSuperseded(r)
  <2>1. DeleteRow(f, "superseded") /\ UNCHANGED <<status, posted, crossed, quarantine, verified>>
    BY <1>3 DEF DiscardSuperseded
  <2>2. row[f] # "none"
    BY <1>0 DEF IInv, RowsTellTheTruth
  <2> QED  BY <1>0, <1>1, <2>1, <2>2, DeletionAllowed
<1>4. CASE DropArrivedObject(r)
  <2>1. /\ quarantine' = Without(quarantine, f) /\ Gone(f)
        /\ UNCHANGED <<status, row, posted, crossed, verified, lost>>
    BY <1>0, <1>4 DEF DropArrivedObject, At
  <2> QED  BY <1>0, <1>1, <2>1, DropAllowed
<1> QED  BY <1>2, <1>3, <1>4

LEMMA WorkerSteps ==
    ASSUME IInv,
           \/ CopyToVerified \/ RemoveFromQuarantine \/ SaveClean \/ ScanValidate
           \/ DropInfectedObject \/ SaveInfected \/ SaveRejected \/ DropRejectedObject
           \/ NoticeCompletenessLost \/ DiscardReservation \/ CollectObject \/ CloseExpired
    PROVE  Allowed
<1> DEFINE f == worker.file
<1>0. /\ TypeOK /\ RowsTellTheTruth /\ ScanKnows /\ PassKnows /\ ValidationKnows
      /\ RemovalKnows
  BY DEF IInv
<1>1. Erased' = Erased
  BY DEF CopyToVerified, RemoveFromQuarantine, SaveClean, ScanValidate, DropInfectedObject,
     SaveInfected, SaveRejected, DropRejectedObject, NoticeCompletenessLost,
     DiscardReservation, CollectObject, CloseExpired, ScanUnchanged, PassUnchanged, Erased
<1>2. worker.pc \in ScanSteps \cup {"discard", "collect_delete"} => f \in Files
  BY <1>0 DEF TypeOK
<1>3. CASE CopyToVerified
  <2>1. /\ f \in Files /\ InQuarantine(f) /\ (row[f] = "pending_scan" \/ Gone(f))
        /\ quarantine[f] = "healthy" \/ "scan" \in crossed[f]
        /\ verified' = [verified EXCEPT ![f] = quarantine[f]]
        /\ UNCHANGED <<status, row, posted, crossed, quarantine, lost>>
    BY <1>0, <1>2, <1>3 DEF CopyToVerified, Doing, ScanSteps, ScanKnows, ScanUnchanged
  <2>2. quarantine[f] \in posted[f] /\ quarantine[f] # "none"
    BY <1>0, <2>1 DEF RowsTellTheTruth
  <2>3. Life[f] \in {"pending_scan", "withdrawn"}
    BY <1>0, <2>1 DEF RowsTellTheTruth, ScanKnows, Life, LifeOf, Gone, Deleted
  <2>4. f \in Erased => "removal" \in crossed[f]
    BY <1>0, <2>1 DEF RemovalKnows, Erased
  <2>5. UNCHANGED <<Life, VouchedFor>>
    BY <2>1 DEF Life, LifeOf, VouchedFor, HasCleanFile
  <2>6. f \in Stored /\ Stored' = Stored
    <3>1. \A g \in Files : InVerified(g)' <=> InVerified(g) \/ g = f
      BY <1>0, <2>1, <2>2 DEF TypeOK
    <3> QED  BY <2>1, <3>1 DEF Stored
  <2>7. Promise!Serve(f)
    BY <1>1, <2>1, <2>2, <2>3, <2>4, <2>5, <2>6 DEF Promise!Serve
  <2> QED  BY <2>1, <2>7 DEF Allowed, Promise!Next
<1>4. CASE RemoveFromQuarantine
  <2>1. /\ f \in Files /\ Uploaded(f) /\ (InVerified(f) \/ Gone(f))
        /\ quarantine' = Without(quarantine, f)
        /\ UNCHANGED <<status, row, posted, crossed, verified, lost>>
    BY <1>0, <1>2, <1>4 DEF RemoveFromQuarantine, Doing, ScanSteps, ScanKnows, ScanUnchanged
  <2> QED  BY <1>1, <2>1, DropAllowed
<1>5. CASE DropInfectedObject \/ DropRejectedObject
  <2>1. /\ f \in Files /\ posted[f] # {"healthy"}
        /\ quarantine' = Without(quarantine, f)
        /\ UNCHANGED <<status, row, posted, crossed, verified, lost>>
    BY <1>0, <1>2, <1>5
    DEF DropInfectedObject, DropRejectedObject, Doing, ScanSteps, ScanKnows, ScanUnchanged
  <2> QED  BY <1>1, <2>1, DropAllowed
<1>6. CASE SaveClean
  <2>1. /\ f \in Files /\ Uploaded(f) /\ (row[f] = "pending_scan" \/ Gone(f))
        /\ InVerified(f) \/ Gone(f)
        /\ Save(f, "clean")
        /\ lost' = IF HasRow(f) THEN lost \ {DocumentOf[f]} ELSE lost
        /\ UNCHANGED <<status, posted, crossed, quarantine, verified, removal>>
    BY <1>0, <1>2, <1>6 DEF SaveClean, Doing, ScanSteps, ScanKnows, ScanUnchanged
  <2> QED  BY <2>1, VerdictAllowed
<1>7. CASE SaveInfected
  <2>1. /\ f \in Files /\ Uploaded(f) /\ (row[f] = "pending_scan" \/ Gone(f))
        /\ "virus" \in posted[f] /\ Save(f, "infected") /\ lost' = lost
        /\ UNCHANGED <<status, posted, crossed, quarantine, verified, removal>>
    BY <1>0, <1>2, <1>7 DEF SaveInfected, Doing, ScanSteps, ScanKnows, ScanUnchanged
  <2> QED  BY <2>1, VerdictAllowed
<1>8. CASE SaveRejected
  <2>1. /\ f \in Files /\ Uploaded(f) /\ (row[f] = "pending_scan" \/ Gone(f))
        /\ "nonconforming" \in posted[f] /\ Save(f, "rejected") /\ lost' = lost
        /\ UNCHANGED <<status, posted, crossed, quarantine, verified, removal>>
    BY <1>0, <1>2, <1>8 DEF SaveRejected, Doing, ScanSteps, ScanKnows, ScanUnchanged
  <2> QED  BY <2>1, VerdictAllowed
<1>9. CASE ScanValidate
  <2>1. /\ Vouched /\ ApplyPipelineEvent("all_expected_documents_clean")
        /\ UNCHANGED <<row, posted, crossed, quarantine, verified, lost>>
    BY <1>0, <1>9 DEF ScanValidate, Doing, ValidationKnows, ScanUnchanged
  <2> QED  BY <1>1, <2>1, EventAllowed DEF PipelineEvents
<1>10. CASE NoticeCompletenessLost
  <2>1. /\ f \in Files /\ posted[f] \cap {"virus", "nonconforming"} # {}
        /\ ApplyPipelineEvent("expected_document_became_not_clean")
        /\ UNCHANGED <<row, posted, crossed, quarantine, verified, lost>>
    BY <1>0, <1>2, <1>10
    DEF NoticeCompletenessLost, Doing, ScanSteps, ScanKnows, ScanUnchanged
  <2> QED  BY <1>1, <2>1, EventAllowed DEF PipelineEvents
<1>11. CASE DiscardReservation
  <2>1. /\ f \in Files /\ DeleteRow(f, "abandoned")
        /\ UNCHANGED <<status, posted, crossed, quarantine, verified>>
        /\ Gone(f) \/ ~ Uploaded(f)
    BY <1>0, <1>2, <1>11 DEF DiscardReservation, Doing, PassKnows, PassUnchanged
  <2>2. CASE HasRow(f)
    <3>1. row[f] = "pending_upload" /\ ~ Uploaded(f)
      BY <1>0, <2>1, <2>2 DEF RowsTellTheTruth, HasRow, FileStatuses, Gone, Deleted
    <3>2. row' = [row EXCEPT ![f] = "abandoned"] /\ lost' = lost \cup LosesClean(f)
      BY <2>1, <2>2 DEF DeleteRow
    <3>3. Life' = [Life EXCEPT ![f] = "abandoned"] /\ Life[f] = "pending_upload"
      BY <1>0, <2>1, <3>1, <3>2, RowMoves DEF LifeOf
    <3>4. VouchedFor' = VouchedFor
      BY <1>0, <2>1, <3>2, StillVouched
    <3>5. Stored' = Stored
      BY <2>1 DEF Stored
    <3>6. Promise!Abandon(f)
      BY <1>1, <2>1, <3>1, <3>3, <3>4, <3>5
      DEF Promise!Abandon, Promise!Becomes, Uploaded
    <3> QED  BY <2>1, <3>6 DEF Allowed, Promise!Next
  <2>3. CASE ~ HasRow(f)
    <3>1. row' = row /\ lost' = lost
      BY <1>0, <2>1, <2>3, SameRow DEF DeleteRow, LosesClean, HasRow, FileStatuses
    <3> QED  BY <1>1, <2>1, <3>1, Unseen
  <2> QED  BY <2>2, <2>3
<1>12. CASE CollectObject
  <2>1. /\ f \in Files /\ Uploaded(f)
        /\ posted[f] # {"healthy"} \/ InVerified(f) \/ Gone(f)
        /\ quarantine' = Without(quarantine, f)
        /\ UNCHANGED <<status, row, posted, crossed, verified, lost>>
    BY <1>0, <1>2, <1>12 DEF CollectObject, Doing, PassKnows, PassUnchanged
  <2> QED  BY <1>1, <2>1, DropAllowed
<1>13. CASE CloseExpired
  <2>1. UNCHANGED <<row, posted, crossed, quarantine, verified, lost>>
    BY <1>13 DEF CloseExpired
  <2>2. CASE ApplyPipelineEvent("access_link_expired")
    BY <1>1, <2>1, <2>2, EventAllowed DEF PipelineEvents
  <2>3. CASE UNCHANGED status
    BY <1>1, <2>1, <2>3, Unseen
  <2> QED  BY <1>13, <2>2, <2>3 DEF CloseExpired
<1> QED  BY <1>3, <1>4, <1>5, <1>6, <1>7, <1>8, <1>9, <1>10, <1>11, <1>12, <1>13

LEMMA PromiseInit == Init => Promise!Init
<1> SUFFICES ASSUME Init PROVE Promise!Init
  OBVIOUS
<1>1. Life = [f \in Files |-> "none"]
  BY DEF Init, Life, LifeOf
<1>2. Stored = {} /\ Erased = {}
  BY DEF Init, Stored, Erased, IdleRemoval
<1>3. VouchedFor = {}
  BY DEF Init, VouchedFor, HasCleanFile
<1> QED  BY <1>1, <1>2, <1>3 DEF Init, Promise!Init

LEMMA PromiseStep == IInv /\ [Next]_vars => Allowed
<1> SUFFICES ASSUME IInv, [Next]_vars PROVE Allowed
  OBVIOUS
<1>1. CASE UNCHANGED vars
  BY <1>1, Unseen, SameErased DEF vars
<1> QED
  BY <1>1, InnerSteps, ClientSteps, StatusSteps, RecordingSteps, WorkerSteps
     DEF Next, RecorderStep, ScanStep, PassStep, FinishStep

\* The pipeline implements DepositPromise: with any number of files, documents
\* and handlers, whatever is posted, again or not, and whoever stops wherever, the
\* client and the lawyer see no other move than those it allows.
THEOREM PipelineKeepsPromise == Spec => DepositPromised
<1>1. IInv /\ [Next]_vars => [Promise!Next]_PromiseVars
  BY PromiseStep DEF Allowed
<1> QED  BY <1>1, PromiseInit, Invariance, PTL
         DEF Spec, DepositPromised, Promise!Spec, Promise!promised, PromiseVars

\* What DepositPromise lets happen to one file.
LEMMA ForwardOnly ==
    ASSUME TypeOK, Allowed, NEW f \in Files
    PROVE  MovesForward(f)
<1>1. /\ Life = [g \in Files |-> Life[g]]
      /\ verified \in [Files -> ContentKinds \cup {"none"}]
  BY DEF Life, TypeOK
<1>2. CASE UNCHANGED PromiseVars
  BY <1>2 DEF PromiseVars, MovesForward
<1>3. ASSUME NEW g \in Files,
             \/ Promise!Reserve(g) \/ Promise!Receive(g) \/ Promise!Withdraw(g)
             \/ Promise!Abandon(g)
      PROVE  /\ UNCHANGED <<Stored, verified>>
             /\ \E s \in {"pending_upload", "pending_scan", "withdrawn", "abandoned"} :
                  /\ Life' = [Life EXCEPT ![g] = s]
                  /\ Life[g] \notin {"withdrawn", "abandoned"}
                  /\ Life[g] \in {"clean", "infected", "rejected"} =>
                        s \in {"pending_scan", "withdrawn"}
  BY <1>3 DEF Promise!Reserve, Promise!Receive, Promise!Withdraw, Promise!Abandon,
     Promise!Becomes, Promise!Listed
<1>4. ASSUME NEW g \in Files, Promise!Judge(g)
      PROVE  /\ UNCHANGED <<Stored, verified>> /\ Life[g] = "pending_scan"
             /\ \E s \in {"clean", "infected", "rejected"} :
                  Life' = [Life EXCEPT ![g] = s] /\ (s = "clean" => InVerified(g))
  BY <1>4 DEF Promise!Judge, Promise!Becomes, Promise!Deserves
<1>5. CASE Promise!Finish \/ Promise!Validate \/ Promise!Reopen \/ Promise!Close
  <2>1. UNCHANGED <<Life, Stored, verified>>
    BY <1>5 DEF Promise!Finish, Promise!Validate, Promise!Reopen, Promise!Close,
       Promise!StatusBecomes
  <2> QED  BY <2>1 DEF MovesForward
<1>6. ASSUME NEW g \in Files,
             \/ Promise!Reserve(g) \/ Promise!Receive(g) \/ Promise!Withdraw(g)
             \/ Promise!Abandon(g)
      PROVE  MovesForward(f)
  BY <1>1, <1>3, <1>6 DEF MovesForward
<1>7. ASSUME NEW g \in Files, Promise!Judge(g) PROVE MovesForward(f)
  <2>1. CASE f = g
    BY <1>1, <1>4, <1>7, <2>1 DEF MovesForward
  <2>2. CASE f # g
    BY <1>1, <1>4, <1>7, <2>2 DEF MovesForward
  <2> QED  BY <2>1, <2>2
<1>8. ASSUME NEW g \in Files, Promise!Upload(g) PROVE MovesForward(f)
  <2>1. Life' = Life /\ verified' = verified /\ Stored \subseteq Stored'
    BY <1>8 DEF Promise!Upload
  <2> QED  BY <2>1 DEF MovesForward
<1>9. ASSUME NEW g \in Files, Promise!Dispose(g) PROVE MovesForward(f)
  <2>1. /\ Life' = Life /\ verified' = verified /\ Stored' = Stored \ {g}
        /\ Life[g] = "withdrawn" \/ posted[g] # {"healthy"}
    BY <1>9 DEF Promise!Dispose
  <2> QED  BY <2>1 DEF MovesForward
<1>10. ASSUME NEW g \in Files, Promise!Serve(g) \/ Promise!Erase(g) PROVE MovesForward(f)
  <2>1. /\ Life' = Life /\ Life[g] \in {"pending_scan", "withdrawn"}
        /\ \E c : verified' = [verified EXCEPT ![g] = c]
        /\ Stored \ Stored' # {} => Stored' = Stored \ {g} /\ Life[g] = "withdrawn"
    BY <1>10 DEF Promise!Serve, Promise!Erase
  <2>2. Life[f] = "clean" => f # g
    BY <2>1
  <2>3. Life[f] = "clean" => verified'[f] = verified[f]
    BY <1>1, <2>1, <2>2
  <2>4. f \in Stored \ Stored' => Life[f] = "withdrawn"
    BY <2>1
  <2> QED  BY <2>1, <2>3, <2>4 DEF MovesForward
<1> QED  BY <1>2, <1>5, <1>6, <1>7, <1>8, <1>9, <1>10 DEF Allowed, Promise!Next

\* Nothing comes back from a deletion, a verdict is only left for another scan or a
\* deletion, a file is found clean when it is served already and what is served
\* under it is not exchanged, whatever is posted; and a file is deleted after its row
\* only, unless something that was not healthy was posted.
THEOREM FilesOnlyMoveForward == Spec => FilesMoveForward
<1>1. IInv /\ [Next]_vars =>
        [\A f \in Files : MovesForward(f)]_vars
  <2> SUFFICES ASSUME IInv, [Next]_vars, NEW f \in Files PROVE MovesForward(f)
    OBVIOUS
  <2>1. TypeOK /\ Allowed
    BY PromiseStep DEF IInv
  <2> QED  BY <2>1, ForwardOnly
<1> QED  BY <1>1, Invariance, PTL DEF Spec, FilesMoveForward
=============================================================================

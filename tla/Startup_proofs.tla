--------------------------- MODULE Startup_proofs ---------------------------
(***************************************************************************)
(* Proofs about Startup, for any number of processes of either role, any   *)
(* configurations and any number of faults.                                *)
(***************************************************************************)
EXTENDS Startup, SequenceTheorems, TLAPS

-----------------------------------------------------------------------------
(***************************************************************************)
(* The inductive invariant: what a process has made sure of by the step it *)
(* is at, and that no death or failure of another one takes it back.       *)
(***************************************************************************)
Ready == {"seeding", "creating request", "issuing link", "listening",
          "queue migrations", "opening metrics", "running", "serving"}

QuarantineMade == Ready \cup {"finding verified", "making verified"}
AccountMade == QuarantineMade \cup {"finding buckets", "making quarantine"}
SchemaMade == AccountMade \cup {"finding account", "inserting user", "inserting credential"}

WholeAccount == {"user", "credential"}

\* What the database and the storage hold when a process is at s.
Earned(s) ==
    /\ s \in SchemaMade => applied = Migrations
    /\ s \in AccountMade => account = WholeAccount
    /\ s \in QuarantineMade => "quarantine" \in buckets
    /\ s \in Ready => buckets = Buckets

EarnedByAll == \A p \in Processes : Earned(phase[p])

\* Who holds the lock has read the journal nobody else writes; a start that has
\* met no failure has migrated when it gives the lock back.
MigrationKnown ==
    \A p \in Processes :
        /\ At(p, "migrating") => seen[p] = applied
        /\ At(p, "unlocking") /\ failure[p] = "none" => applied = Migrations

\* The two insertions appear together.
AccountWhole == account \in {{}, WholeAccount}

IInv == TypeOK /\ EarnedByAll /\ MigrationKnown /\ AccountWhole /\ StartsNeverCollide

-----------------------------------------------------------------------------
(***************************************************************************)
(* Moves.                                                                  *)
(***************************************************************************)
\* A process moves alone.
LEMMA Moves ==
    ASSUME TypeOK, NEW p \in Processes, NEW s, Go(p, s)
    PROVE  /\ phase'[p] = s
           /\ \A q \in Processes : q # p => phase'[q] = phase[q]
           /\ s \in Phases => phase' \in [Processes -> Phases]
BY DEF Go, TypeOK

\* The steps at which a process holds the lock or a transaction.
Owning == {"reading journal", "migrating", "unlocking", "inserting credential"}

\* What no other part of the model depends on.
Rest == /\ requests \in Nat
        /\ link \in BOOLEAN
        /\ queue \in BOOLEAN
        /\ running \in [Processes -> SUBSET {"pool", "listener", "runner"}]
        /\ faults \in 0..MaxFaults

\* A move between two steps that own nothing keeps the invariant if the step it
\* leads to is earned.
LEMMA PlainMove ==
    ASSUME IInv, NEW p \in Processes, NEW s \in Phases, Go(p, s),
           NEW why \in {"none", "configuration", "unreachable"},
           failure' = [failure EXCEPT ![p] = why],
           phase[p] \notin Owning, s \notin Owning, Earned(s), Rest',
           UNCHANGED <<config, lock, applied, seen, writer, account, buckets>>
    PROVE  IInv'
<1>0. TypeOK /\ EarnedByAll /\ MigrationKnown /\ AccountWhole /\ StartsNeverCollide
  BY DEF IInv
<1>1. /\ phase'[p] = s
      /\ \A q \in Processes : q # p => phase'[q] = phase[q]
      /\ phase' \in [Processes -> Phases]
  BY <1>0, Moves
<1>2. /\ failure'[p] = why
      /\ \A q \in Processes : q # p => failure'[q] = failure[q]
      /\ failure' \in [Processes -> {"none", "configuration", "conflict", "unreachable"}]
  BY <1>0 DEF TypeOK
<1>3. TypeOK'
  BY <1>0, <1>1, <1>2 DEF TypeOK, At, Owning, Rest
<1>4. EarnedByAll'
  BY <1>0, <1>1 DEF EarnedByAll, Earned
<1>5. MigrationKnown'
  BY <1>0, <1>1, <1>2 DEF MigrationKnown, At, Owning
<1>6. AccountWhole' /\ StartsNeverCollide'
  BY <1>0, <1>2 DEF AccountWhole, StartsNeverCollide
<1> QED  BY <1>3, <1>4, <1>5, <1>6 DEF IInv

\* A failure that does not change is one that is written again.
LEMMA SameFailure ==
    ASSUME TypeOK, StartsNeverCollide, NEW p \in Processes, UNCHANGED failure
    PROVE  /\ failure' = [failure EXCEPT ![p] = failure[p]]
           /\ failure[p] \in {"none", "configuration", "unreachable"}
BY DEF TypeOK, StartsNeverCollide

LEMMA RestStep ==
    ASSUME IInv, NEW p \in Processes, Proceed(p) \/ Fault(p)
    PROVE  Rest'
<1>0. Rest /\ MaxFaults \in Nat
  BY StartupAssumption DEF IInv, TypeOK, Rest
<1>1. CASE UNCHANGED <<requests, link, queue, running, faults>>
  BY <1>0, <1>1 DEF Rest
<1>2. CASE /\ UNCHANGED <<requests, link, queue, faults>>
           /\ \E it \in {"pool", "listener", "runner"} : Open(p, it) \/ Close(p, it)
  BY <1>0, <1>2 DEF Rest, Open, Close
<1>3. ASSUME Die(p), faults' = faults \/ (faults < MaxFaults /\ faults' = faults + 1)
      PROVE  Rest'
  BY <1>0, <1>3 DEF Rest, Die
<1>4. CASE /\ faults < MaxFaults /\ faults' = faults + 1
           /\ UNCHANGED <<requests, link, queue, running>>
  BY <1>0, <1>4 DEF Rest
<1>5. CASE CreateRequest(p) \/ IssueLink(p) \/ MigrateQueue(p)
  <2>1. requests' = requests \/ requests' = requests + 1
    BY <1>5 DEF CreateRequest, IssueLink, MigrateQueue
  <2>2. requests' \in Nat
    BY <1>0, <2>1 DEF Rest
  <2>3. link' \in BOOLEAN /\ queue' \in BOOLEAN /\ UNCHANGED <<running, faults>>
    BY <1>0, <1>5, Zenon DEF Rest, CreateRequest, IssueLink, MigrateQueue
  <2> QED  BY <1>0, <2>2, <2>3, Zenon DEF Rest
<1>6. CASE \/ TakeLock(p) \/ ReadJournal(p) \/ Migrate(p) \/ Unlock(p) \/ FindAccount(p)
           \/ InsertUser(p) \/ InsertCredential(p) \/ FindBuckets(p) \/ MakeBucket(p)
           \/ CountRequests(p)
  BY <1>1, <1>6 DEF TakeLock, ReadJournal, Migrate, Unlock, FindAccount, InsertUser,
                    InsertCredential, FindBuckets, MakeBucket, CountRequests, database
<1>7. CASE Configure(p) \/ Listen(p) \/ OpenMetrics(p) \/ RunJobs(p)
  BY <1>1, <1>2, <1>7 DEF Configure, Listen, OpenMetrics, RunJobs, database
<1>8. CASE CloseServer(p) \/ ClosePool(p) \/ StopRunner(p) \/ CloseMetrics(p)
  BY <1>2, <1>8 DEF CloseServer, ClosePool, StopRunner, CloseMetrics, database
<1>9. CASE Exit(p) \/ Crash(p)
  BY <1>3, <1>9 DEF Exit, Crash
<1>10. CASE StatementFails(p) \/ StorageFails(p) \/ SeedingFails(p) \/ Signal(p)
  BY <1>4, <1>10 DEF StatementFails, StorageFails, SeedingFails, Signal, database
<1>11. CASE RunnerFails(p)
  BY <1>0, <1>11 DEF Rest, RunnerFails, Close, database
<1> QED  BY <1>5, <1>6, <1>7, <1>8, <1>9, <1>10, <1>11 DEF Proceed, Fault

\* Steps that own nothing.
LEMMA PlainSteps ==
    ASSUME IInv, NEW p \in Processes, Rest',
           \/ Configure(p) \/ FindAccount(p) \/ FindBuckets(p) \/ CountRequests(p)
           \/ CreateRequest(p) \/ IssueLink(p) \/ Listen(p) \/ MigrateQueue(p)
           \/ OpenMetrics(p) \/ RunJobs(p) \/ SeedingFails(p) \/ Signal(p) \/ StorageFails(p)
           \/ RunnerFails(p)
    PROVE  IInv'
<1>0. /\ TypeOK /\ EarnedByAll /\ AccountWhole /\ StartsNeverCollide
      /\ RoleOf[p] \in {"api", "worker"}
  BY StartupAssumption DEF IInv
<1>1. Earned(phase[p])
  BY <1>0 DEF EarnedByAll
<1> DEFINE Kept == UNCHANGED <<config, lock, applied, seen, writer, account, buckets>>
<1>2. ASSUME NEW s \in Phases, Go(p, s), UNCHANGED failure, Kept,
             phase[p] \notin Owning, s \notin Owning, Earned(s)
      PROVE  IInv'
  BY <1>0, <1>2, SameFailure, PlainMove
<1>3. ASSUME NEW s \in Phases, NEW why \in {"none", "configuration", "unreachable"},
             Go(p, s), failure' = [failure EXCEPT ![p] = why], Kept,
             phase[p] \notin Owning, s \in {"failed", "locking"}
      PROVE  IInv'
  <2>1. s \notin Owning /\ Earned(s)
    BY <1>3 DEF Owning, Earned, SchemaMade, AccountMade, QuarantineMade, Ready
  <2> QED  BY <1>3, <2>1, PlainMove
<1>4. CASE Configure(p)
  <2>1. phase[p] \notin Owning /\ "failed" \in Phases /\ "locking" \in Phases /\ Kept
    BY <1>4 DEF Configure, At, Owning, Phases, database
  <2> QED  BY <1>3, <1>4, <2>1 DEF Configure, Fail
<1>5. CASE FindAccount(p)
  <2>1. "user" \in account => account = WholeAccount
    BY <1>0 DEF AccountWhole
  <2> DEFINE s == IF "user" \in account THEN "finding buckets" ELSE "inserting user"
  <2>2. Go(p, s) /\ UNCHANGED failure /\ Kept /\ phase[p] = "finding account"
    BY <1>5 DEF FindAccount, At, database
  <2>3. s \in Phases /\ phase[p] \notin Owning /\ s \notin Owning
    BY <2>2 DEF Phases, Owning
  <2>4. Earned(s)
    BY <1>1, <2>1, <2>2 DEF Earned, SchemaMade, AccountMade, QuarantineMade, Ready
  <2> QED  BY <1>2, <2>2, <2>3, <2>4
<1>6. CASE FindBuckets(p)
  <2>1. UNCHANGED failure /\ Kept /\ phase[p] \in {"finding buckets", "finding verified"}
    BY <1>6 DEF FindBuckets, At, database
  <2>2. PICK s \in {"finding verified", "making quarantine", "making verified", "seeding"} :
          /\ Go(p, s)
          /\ s = "making verified" => phase[p] = "finding verified"
          /\ s = "finding verified" => "quarantine" \in buckets
          /\ s = "seeding" => phase[p] = "finding verified" /\ "verified" \in buckets
    BY <1>6 DEF FindBuckets, At, Making
  <2>3. s \in Phases /\ phase[p] \notin Owning /\ s \notin Owning
    BY <2>1, <2>2 DEF Phases, Owning
  <2>4. "quarantine" \in buckets /\ "verified" \in buckets => buckets = Buckets
    BY <1>0 DEF TypeOK, Buckets
  <2>5. Earned(s)
    BY <1>1, <2>1, <2>2, <2>4 DEF Earned, SchemaMade, AccountMade, QuarantineMade, Ready
  <2> QED  BY <1>2, <2>1, <2>2, <2>3, <2>5
<1>7. CASE \/ CountRequests(p) \/ CreateRequest(p) \/ IssueLink(p) \/ Listen(p)
           \/ MigrateQueue(p) \/ OpenMetrics(p) \/ RunJobs(p) \/ SeedingFails(p) \/ Signal(p)
  <2>1. /\ UNCHANGED failure /\ Kept /\ phase[p] \in Ready
        /\ \E s \in Ready \cup {"stopping"} : Go(p, s)
    BY <1>0, <1>7 DEF CountRequests, CreateRequest, IssueLink, Listen, MigrateQueue,
       OpenMetrics, RunJobs, SeedingFails, Signal, AfterSeeding, Ready, At, database
  <2>2. PICK s \in Ready \cup {"stopping"} : Go(p, s)
    BY <2>1
  <2>3. s \in Phases /\ phase[p] \notin Owning /\ s \notin Owning
    BY <2>1, <2>2 DEF Phases, Owning, Ready
  <2>4. Earned(s)
    BY <1>1, <2>1, <2>2 DEF Earned, SchemaMade, AccountMade, QuarantineMade, Ready
  <2> QED  BY <1>2, <2>1, <2>2, <2>3, <2>4
<1>8. CASE StorageFails(p)
  <2>1. phase[p] \notin Owning /\ "failed" \in Phases /\ Kept
    BY <1>8 DEF StorageFails, Owning, Phases, database, Making, Buckets
  <2> QED  BY <1>3, <1>8, <2>1 DEF StorageFails, AfterStorageFailure, Fail
<1>9. CASE RunnerFails(p)
  <2>1. phase[p] \notin Owning /\ "failed" \in Phases /\ Kept
    BY <1>9 DEF RunnerFails, At, Owning, Phases, database
  <2> QED  BY <1>3, <1>9, <2>1 DEF RunnerFails, Fail
<1> QED  BY <1>4, <1>5, <1>6, <1>7, <1>8, <1>9

\* The lock, from the moment it is free to the moment it is given back.
LEMMA LockSteps ==
    ASSUME IInv, NEW p \in Processes, Rest',
           TakeLock(p) \/ ReadJournal(p) \/ Migrate(p) \/ Unlock(p)
    PROVE  IInv'
<1>0. TypeOK /\ EarnedByAll /\ MigrationKnown /\ AccountWhole /\ StartsNeverCollide
  BY DEF IInv
<1>1. CASE TakeLock(p)
  <2>1. /\ phase[p] = "locking" /\ phase'[p] = "reading journal"
        /\ \A q \in Processes : q # p => phase'[q] = phase[q]
        /\ phase' \in [Processes -> Phases]
    BY <1>0, <1>1, Moves DEF TakeLock, At, Phases
  <2>2. /\ lock = Nobody /\ lock' = p
        /\ UNCHANGED <<config, failure, applied, seen, writer, account, buckets>>
    BY <1>1 DEF TakeLock
  <2>3. TypeOK'
    BY <1>0, <2>1, <2>2, StartupAssumption DEF TypeOK, At, Rest
  <2>4. EarnedByAll'
    BY <1>0, <2>1, <2>2
    DEF EarnedByAll, Earned, SchemaMade, AccountMade, QuarantineMade, Ready
  <2>5. MigrationKnown' /\ AccountWhole' /\ StartsNeverCollide'
    BY <1>0, <2>1, <2>2 DEF MigrationKnown, At, AccountWhole, StartsNeverCollide
  <2> QED  BY <2>3, <2>4, <2>5 DEF IInv
<1>2. CASE ReadJournal(p)
  <2>1. /\ phase[p] = "reading journal" /\ phase'[p] = "migrating"
        /\ \A q \in Processes : q # p => phase'[q] = phase[q]
        /\ phase' \in [Processes -> Phases]
    BY <1>0, <1>2, Moves DEF ReadJournal, At, Phases
  <2>2. /\ seen' = [seen EXCEPT ![p] = applied]
        /\ UNCHANGED <<config, failure, lock, applied, writer, account, buckets>>
    BY <1>2 DEF ReadJournal
  <2>3. /\ seen' \in [Processes -> {0, Migrations}] /\ seen'[p] = applied
        /\ \A q \in Processes : q # p => seen'[q] = seen[q]
    BY <1>0, <2>2 DEF TypeOK
  <2>4. TypeOK'
    <3>1. \A q \in Processes :
            /\ (writer = q <=> phase[q] = "inserting credential")'
            /\ (lock = q <=> phase[q] \in {"reading journal", "migrating", "unlocking"})'
      BY <1>0, <2>1, <2>2 DEF TypeOK, At
    <3>2. /\ config' \in Configurations /\ applied' \in {0, Migrations}
          /\ failure' \in [Processes -> {"none", "configuration", "conflict", "unreachable"}]
          /\ lock' \in Processes \cup {Nobody} /\ writer' \in Processes \cup {Nobody}
          /\ account' \subseteq {"user", "credential"} /\ buckets' \subseteq Buckets
      BY <1>0, <2>2 DEF TypeOK
    <3> QED  BY <2>1, <2>3, <3>1, <3>2, Zenon DEF TypeOK, At, Rest
  <2>5. EarnedByAll'
    BY <1>0, <2>1, <2>2
    DEF EarnedByAll, Earned, SchemaMade, AccountMade, QuarantineMade, Ready
  <2>6. MigrationKnown' /\ AccountWhole' /\ StartsNeverCollide'
    BY <1>0, <2>1, <2>2, <2>3 DEF MigrationKnown, At, AccountWhole, StartsNeverCollide
  <2> QED  BY <2>4, <2>5, <2>6 DEF IInv
<1>3. CASE Migrate(p)
  <2>1. /\ phase[p] = "migrating" /\ phase'[p] = "unlocking"
        /\ \A q \in Processes : q # p => phase'[q] = phase[q]
        /\ phase' \in [Processes -> Phases]
    BY <1>0, <1>3, Moves DEF Migrate, At, Phases
  <2>2. seen[p] = applied /\ applied \in Int
    <3>1. seen[p] = applied
      BY <1>0, <2>1 DEF MigrationKnown, At
    <3>2. applied \in {0, Migrations} /\ Migrations \in Nat
      BY <1>0, StartupAssumption DEF TypeOK
    <3> QED  BY <3>1, <3>2
  <2>3. /\ applied' = Migrations
        /\ UNCHANGED <<config, failure, lock, seen, writer, account, buckets>>
    BY <1>3, <2>2 DEF Migrate
  <2>4. \A q \in Processes : q # p => phase[q] # "migrating"
    BY <1>0, <2>1 DEF TypeOK, At
  <2>5. TypeOK'
    BY <1>0, <2>1, <2>3 DEF TypeOK, At, Rest
  <2>6. EarnedByAll'
    BY <1>0, <2>1, <2>3
    DEF EarnedByAll, Earned, SchemaMade, AccountMade, QuarantineMade, Ready
  <2>7. MigrationKnown' /\ AccountWhole' /\ StartsNeverCollide'
    BY <1>0, <2>1, <2>3, <2>4 DEF MigrationKnown, At, AccountWhole, StartsNeverCollide
  <2> QED  BY <2>5, <2>6, <2>7 DEF IInv
<1>4. CASE Unlock(p)
  <2> DEFINE s == IF failure[p] = "none" THEN "finding account" ELSE "failed"
  <2>1. /\ phase[p] = "unlocking" /\ phase'[p] = s
        /\ \A q \in Processes : q # p => phase'[q] = phase[q]
        /\ phase' \in [Processes -> Phases]
    BY <1>0, <1>4, Moves DEF Unlock, At, Phases
  <2>2. lock = p /\ p # Nobody
    BY <1>0, <2>1, StartupAssumption DEF TypeOK, At
  <2>3. /\ lock' = Nobody
        /\ UNCHANGED <<config, failure, applied, seen, writer, account, buckets>>
    BY <1>4, <2>2 DEF Unlock
  <2>4. s = "finding account" => applied = Migrations
    BY <1>0, <2>1 DEF MigrationKnown, At
  <2>5. TypeOK'
    BY <1>0, <2>1, <2>2, <2>3, StartupAssumption DEF TypeOK, At, Rest
  <2>6. EarnedByAll'
    BY <1>0, <2>1, <2>3, <2>4
    DEF EarnedByAll, Earned, SchemaMade, AccountMade, QuarantineMade, Ready
  <2>7. MigrationKnown' /\ AccountWhole' /\ StartsNeverCollide'
    BY <1>0, <2>1, <2>3 DEF MigrationKnown, At, AccountWhole, StartsNeverCollide
  <2> QED  BY <2>5, <2>6, <2>7 DEF IInv
<1> QED  BY <1>1, <1>2, <1>3, <1>4

\* The transaction of the account and the buckets.
LEMMA MakingSteps ==
    ASSUME IInv, NEW p \in Processes, Rest',
           InsertUser(p) \/ InsertCredential(p) \/ MakeBucket(p)
    PROVE  IInv'
<1>0. TypeOK /\ EarnedByAll /\ MigrationKnown /\ AccountWhole /\ StartsNeverCollide
  BY DEF IInv
<1>1. Earned(phase[p])
  BY <1>0 DEF EarnedByAll
<1>2. CASE InsertUser(p)
  <2> DEFINE s == IF "user" \in account THEN "finding buckets" ELSE "inserting credential"
  <2>1. /\ phase[p] = "inserting user" /\ phase'[p] = s
        /\ \A q \in Processes : q # p => phase'[q] = phase[q]
        /\ phase' \in [Processes -> Phases]
    BY <1>0, <1>2, Moves DEF InsertUser, At, Phases
  <2>2. /\ writer = Nobody
        /\ writer' = IF "user" \in account THEN writer ELSE p
        /\ UNCHANGED <<config, failure, lock, applied, seen, account, buckets>>
    BY <1>2 DEF InsertUser
  <2>3. "user" \in account => account = WholeAccount
    BY <1>0 DEF AccountWhole
  <2>4. TypeOK'
    <3>1. writer' \in Processes \cup {Nobody} /\ Nobody \notin Processes
      BY <1>0, <2>2, StartupAssumption DEF TypeOK
    <3>2. \A q \in Processes : writer' = q <=> phase'[q] = "inserting credential"
      BY <1>0, <2>1, <2>2, <3>1 DEF TypeOK, At
    <3>3. \A q \in Processes :
            lock' = q <=> phase'[q] \in {"reading journal", "migrating", "unlocking"}
      BY <1>0, <2>1, <2>2 DEF TypeOK
    <3>4. /\ config' \in Configurations /\ applied' \in {0, Migrations}
          /\ failure' \in [Processes -> {"none", "configuration", "conflict", "unreachable"}]
          /\ seen' \in [Processes -> {0, Migrations}] /\ lock' \in Processes \cup {Nobody}
          /\ account' \subseteq {"user", "credential"} /\ buckets' \subseteq Buckets
      BY <1>0, <2>2 DEF TypeOK
    <3> QED  BY <2>1, <3>1, <3>2, <3>3, <3>4, Zenon DEF TypeOK, At, Rest
  <2>5. EarnedByAll'
    BY <1>0, <1>1, <2>1, <2>2, <2>3
    DEF EarnedByAll, Earned, SchemaMade, AccountMade, QuarantineMade, Ready
  <2>6. MigrationKnown' /\ AccountWhole' /\ StartsNeverCollide'
    BY <1>0, <2>1, <2>2 DEF MigrationKnown, At, AccountWhole, StartsNeverCollide
  <2> QED  BY <2>4, <2>5, <2>6 DEF IInv
<1>3. CASE InsertCredential(p)
  <2>1. /\ phase[p] = "inserting credential" /\ phase'[p] = "finding buckets"
        /\ \A q \in Processes : q # p => phase'[q] = phase[q]
        /\ phase' \in [Processes -> Phases]
    BY <1>0, <1>3, Moves DEF InsertCredential, At, Phases
  <2>2. /\ writer' = Nobody /\ account' = WholeAccount
        /\ UNCHANGED <<config, failure, lock, applied, seen, buckets>>
    BY <1>3 DEF InsertCredential, WholeAccount
  <2>3. writer = p /\ p # Nobody
    BY <1>0, <2>1, StartupAssumption DEF TypeOK, At
  <2>4. TypeOK'
    BY <1>0, <2>1, <2>2, <2>3, StartupAssumption DEF TypeOK, At, Rest, WholeAccount
  <2>5. EarnedByAll'
    BY <1>0, <1>1, <2>1, <2>2
    DEF EarnedByAll, Earned, SchemaMade, AccountMade, QuarantineMade, Ready
  <2>6. MigrationKnown' /\ AccountWhole' /\ StartsNeverCollide'
    BY <1>0, <2>1, <2>2 DEF MigrationKnown, At, AccountWhole, StartsNeverCollide
  <2> QED  BY <2>4, <2>5, <2>6 DEF IInv
<1>4. CASE MakeBucket(p)
  <2>1. PICK b \in Buckets :
          /\ phase[p] = Making(b) /\ buckets' = buckets \cup {b}
          /\ Go(p, IF b = "quarantine" THEN "finding verified" ELSE "seeding")
    BY <1>4 DEF MakeBucket, At
  <2> DEFINE s == IF b = "quarantine" THEN "finding verified" ELSE "seeding"
  <2>2. /\ phase'[p] = s
        /\ \A q \in Processes : q # p => phase'[q] = phase[q]
        /\ phase' \in [Processes -> Phases]
    BY <1>0, <2>1, Moves DEF Phases
  <2>3. UNCHANGED <<config, failure, lock, applied, seen, writer, account>>
    BY <1>4 DEF MakeBucket, database
  <2>4. /\ b = "quarantine" => phase[p] = "making quarantine"
        /\ b # "quarantine" => b = "verified" /\ phase[p] = "making verified"
    BY <2>1 DEF Making, Buckets
  <2>5. /\ buckets \subseteq buckets' /\ buckets' \subseteq Buckets
        /\ b \in buckets' /\ (buckets = Buckets => buckets' = Buckets)
        /\ "quarantine" \in buckets /\ b = "verified" => buckets' = Buckets
    BY <1>0, <2>1 DEF TypeOK, Buckets
  <2>6. TypeOK'
    BY <1>0, <2>2, <2>3, <2>4, <2>5 DEF TypeOK, At, Rest
  <2>7. Earned(s)'
    BY <1>1, <2>3, <2>4, <2>5
    DEF Earned, SchemaMade, AccountMade, QuarantineMade, Ready
  <2>8. \A q \in Processes : q # p => Earned(phase[q])'
    BY <1>0, <2>2, <2>3, <2>5 DEF EarnedByAll, Earned
  <2>9. EarnedByAll'
    BY <2>2, <2>7, <2>8 DEF EarnedByAll
  <2>10. MigrationKnown' /\ AccountWhole' /\ StartsNeverCollide'
    BY <1>0, <2>2, <2>3 DEF MigrationKnown, At, AccountWhole, StartsNeverCollide
  <2> QED  BY <2>6, <2>9, <2>10 DEF IInv
<1> QED  BY <1>2, <1>3, <1>4

\* The end of a process takes its lock and its transaction away, and leaves what
\* was committed.
LEMMA DeathSteps ==
    ASSUME IInv, NEW p \in Processes, Rest', Exit(p) \/ Crash(p)
    PROVE  IInv'
<1>0. TypeOK /\ EarnedByAll /\ MigrationKnown /\ AccountWhole /\ StartsNeverCollide
  BY DEF IInv
<1>1. Die(p)
  BY DEF Exit, Crash
<1>2. /\ phase'[p] = "down"
      /\ \A q \in Processes : q # p => phase'[q] = phase[q]
      /\ phase' \in [Processes -> Phases]
  BY <1>0, <1>1, Moves DEF Die, Phases
<1>3. /\ lock' = IF lock = p THEN Nobody ELSE lock
      /\ writer' = IF writer = p THEN Nobody ELSE writer
      /\ UNCHANGED <<config, failure, applied, seen, account, buckets>>
  BY <1>1 DEF Die
<1>4. TypeOK'
  <2>1. writer' \in Processes \cup {Nobody} /\ lock' \in Processes \cup {Nobody}
    BY <1>0, <1>3 DEF TypeOK
  <2>2. \A q \in Processes : writer' = q <=> phase'[q] = "inserting credential"
    BY <1>0, <1>2, <1>3, StartupAssumption DEF TypeOK, At
  <2>3. \A q \in Processes :
          lock' = q <=> phase'[q] \in {"reading journal", "migrating", "unlocking"}
    BY <1>0, <1>2, <1>3, StartupAssumption DEF TypeOK
  <2>4. /\ config' \in Configurations /\ applied' \in {0, Migrations}
        /\ failure' \in [Processes -> {"none", "configuration", "conflict", "unreachable"}]
        /\ seen' \in [Processes -> {0, Migrations}]
        /\ account' \subseteq {"user", "credential"} /\ buckets' \subseteq Buckets
    BY <1>0, <1>3 DEF TypeOK
  <2> QED  BY <1>2, <2>1, <2>2, <2>3, <2>4, Zenon DEF TypeOK, At, Rest
<1>5. EarnedByAll'
  BY <1>0, <1>2, <1>3 DEF EarnedByAll, Earned, SchemaMade, AccountMade, QuarantineMade, Ready
<1>6. MigrationKnown' /\ AccountWhole' /\ StartsNeverCollide'
  BY <1>0, <1>2, <1>3 DEF MigrationKnown, At, AccountWhole, StartsNeverCollide
<1> QED  BY <1>4, <1>5, <1>6 DEF IInv

\* A statement that fails rolls its transaction back; a migration goes on to
\* give the lock back.
LEMMA FailingSteps ==
    ASSUME IInv, NEW p \in Processes, Rest', StatementFails(p)
    PROVE  IInv'
<1>0. TypeOK /\ EarnedByAll /\ MigrationKnown /\ AccountWhole /\ StartsNeverCollide
  BY DEF IInv
<1> DEFINE s == IF phase[p] \in {"reading journal", "migrating"} THEN "unlocking" ELSE "failed"
<1>1. /\ phase[p] \in {"locking", "reading journal", "migrating", "finding account",
                       "inserting user", "inserting credential", "queue migrations",
                       "running"}
      /\ failure' = [failure EXCEPT ![p] = "unreachable"]
      /\ Go(p, s)
      /\ writer' = IF writer = p THEN Nobody ELSE writer
      /\ UNCHANGED <<config, lock, applied, seen, account, buckets>>
  BY DEF StatementFails
<1>2. /\ phase'[p] = s
      /\ \A q \in Processes : q # p => phase'[q] = phase[q]
      /\ phase' \in [Processes -> Phases]
  BY <1>0, <1>1, Moves DEF Phases
<1>3. /\ failure'[p] = "unreachable"
      /\ \A q \in Processes : q # p => failure'[q] = failure[q]
      /\ failure' \in [Processes -> {"none", "configuration", "conflict", "unreachable"}]
  BY <1>0, <1>1 DEF TypeOK
<1>4. TypeOK'
  <2>1. writer' \in Processes \cup {Nobody} /\ lock' \in Processes \cup {Nobody}
    BY <1>0, <1>1 DEF TypeOK
  <2>2. \A q \in Processes : writer' = q <=> phase'[q] = "inserting credential"
    <3>1. \A q \in Processes : writer = q <=> phase[q] = "inserting credential"
      BY <1>0 DEF TypeOK, At
    <3>2. CASE writer = p
      <4>1. writer' = Nobody /\ Nobody \notin Processes
        BY <1>1, <3>2, StartupAssumption
      <4> QED  BY <1>2, <3>1, <3>2, <4>1
    <3>3. CASE writer # p
      BY <1>1, <1>2, <3>1, <3>3
    <3> QED  BY <3>2, <3>3
  <2>3. \A q \in Processes :
          lock' = q <=> phase'[q] \in {"reading journal", "migrating", "unlocking"}
    BY <1>0, <1>1, <1>2 DEF TypeOK
  <2> QED  BY <1>0, <1>1, <1>2, <1>3, <2>1, <2>2, <2>3 DEF TypeOK, At, Rest
<1>5. EarnedByAll'
  BY <1>0, <1>1, <1>2 DEF EarnedByAll, Earned, SchemaMade, AccountMade, QuarantineMade, Ready
<1>6. MigrationKnown' /\ AccountWhole' /\ StartsNeverCollide'
  BY <1>0, <1>1, <1>2, <1>3 DEF MigrationKnown, At, AccountWhole, StartsNeverCollide
<1> QED  BY <1>4, <1>5, <1>6 DEF IInv

-----------------------------------------------------------------------------
(***************************************************************************)
(* The invariant is inductive.                                             *)
(***************************************************************************)
LEMMA InvInit == Init => IInv
<1> SUFFICES ASSUME Init PROVE IInv
  OBVIOUS
<1>1. \A p \in Processes : phase[p] = "down" /\ failure[p] = "none"
  BY DEF Init
<1>2. TypeOK
  <2>1. /\ phase \in [Processes -> Phases]
        /\ failure \in [Processes -> {"none", "configuration", "conflict", "unreachable"}]
        /\ running \in [Processes -> SUBSET {"pool", "listener", "runner"}]
    BY DEF Init, Phases
  <2>2. seen \in [Processes -> {0, Migrations}] /\ applied \in {0, Migrations}
    BY DEF Init
  <2>3. /\ lock = Nobody /\ writer = Nobody /\ account = {} /\ buckets = {}
        /\ requests = 0 /\ link \in BOOLEAN /\ queue \in BOOLEAN /\ faults = 0
        /\ config \in Configurations
    BY Zenon DEF Init
  <2>4. \A p \in Processes :
          /\ writer = p <=> phase[p] = "inserting credential"
          /\ lock = p <=> phase[p] \in {"reading journal", "migrating", "unlocking"}
    BY <1>1, <2>3, StartupAssumption
  <2>5. faults \in 0..MaxFaults /\ requests \in Nat
    BY <2>3, StartupAssumption
  <2>6. account \subseteq {"user", "credential"} /\ buckets \subseteq Buckets
    BY <2>3
  <2> QED  BY <2>1, <2>2, <2>3, <2>4, <2>5, <2>6, Zenon DEF TypeOK, At
<1>3. EarnedByAll
  BY <1>1 DEF EarnedByAll, Earned, SchemaMade, AccountMade, QuarantineMade, Ready
<1>4. MigrationKnown /\ AccountWhole /\ StartsNeverCollide
  BY <1>1 DEF Init, MigrationKnown, At, AccountWhole, StartsNeverCollide
<1> QED  BY <1>2, <1>3, <1>4 DEF IInv

LEMMA InvStep == IInv /\ [Next]_vars => IInv'
<1> SUFFICES ASSUME IInv, [Next]_vars PROVE IInv'
  OBVIOUS
<1>0. TypeOK /\ EarnedByAll /\ MigrationKnown /\ AccountWhole /\ StartsNeverCollide
  BY DEF IInv
<1>1. CASE /\ Rest'
           /\ UNCHANGED <<config, phase, failure, lock, applied, seen, writer, account, buckets>>
  <2>1. TypeOK'
    BY <1>0, <1>1 DEF TypeOK, At, Rest
  <2>2. EarnedByAll' /\ MigrationKnown' /\ AccountWhole' /\ StartsNeverCollide'
    BY <1>0, <1>1
    DEF EarnedByAll, Earned, MigrationKnown, At, AccountWhole, StartsNeverCollide
  <2> QED  BY <2>1, <2>2 DEF IInv
<1>2. CASE UNCHANGED vars
  BY <1>0, <1>1, <1>2 DEF vars, database, TypeOK, Rest
<1>3. ASSUME NEW p \in Processes, Proceed(p) \/ Fault(p) PROVE IInv'
  <2>1. Rest'
    BY <1>3, RestStep
  <2>2. CASE CloseServer(p) \/ ClosePool(p) \/ StopRunner(p) \/ CloseMetrics(p)
    BY <1>1, <2>1, <2>2 DEF CloseServer, ClosePool, StopRunner, CloseMetrics, database
  <2> QED  BY <1>3, <2>1, <2>2, PlainSteps, LockSteps, MakingSteps, DeathSteps, FailingSteps
           DEF Proceed, Fault
<1> QED  BY <1>2, <1>3 DEF Next

-----------------------------------------------------------------------------
(***************************************************************************)
(* The theorems.                                                           *)
(***************************************************************************)
\* What each start has made sure of holds at its step, whatever crosses it.
THEOREM Invariance == Spec => []IInv
BY InvInit, InvStep, PTL DEF Spec

\* Processes and database keep their shape; the lock and the transaction belong
\* to the process that is at that step.
THEOREM TypeCorrect == Spec => []TypeOK
<1>1. IInv => TypeOK
  BY DEF IInv
<1> QED  BY <1>1, Invariance, PTL

\* However many processes start together, none meets the migrations of another
\* (run_database_migrations).
THEOREM NeverCollide == Spec => []StartsNeverCollide
<1>1. IInv => StartsNeverCollide
  BY DEF IInv
<1> QED  BY <1>1, Invariance, PTL

\* Whoever serves finds the whole schema, the account with its credential and
\* both buckets, whatever died half way before.
THEOREM ServingReady == Spec => []ServingIsReady
<1>1. IInv => ServingIsReady
  BY DEF IInv, EarnedByAll, Earned, ServingIsReady, At, SchemaMade, AccountMade,
         QuarantineMade, Ready, WholeAccount
<1> QED  BY <1>1, Invariance, PTL

-----------------------------------------------------------------------------
(***************************************************************************)
(* The screening of the database host (targets_loopback_host), against     *)
(* what a resolver makes of the same spelling.                             *)
(***************************************************************************)
LEMMA Nonneg == ASSUME NEW x \in Nat, NEW y \in Nat PROVE x * y \in Nat
OBVIOUS

LEMMA Digit ==
    ASSUME NEW a \in Nat, NEW base \in Nat, NEW rest \in Nat, NEW span \in Nat,
           a < base, rest < span
    PROVE  a * span + rest \in 0..(base * span - 1)
<1>1. (base - 1 - a) * span \in Nat
  <2>1. base - 1 - a \in Nat
    OBVIOUS
  <2> QED  BY <2>1, Nonneg
<1>2. (base - 1 - a) * span = base * span - span - a * span
  OBVIOUS
<1>3. a * span \in Nat /\ base * span \in Nat
  BY Nonneg
<1> QED  BY <1>1, <1>2, <1>3

LEMMA Shifted ==
    ASSUME NEW a \in Nat, NEW b \in Nat, NEW base \in Nat, NEW span \in Nat
    PROVE  (a * base + b) * span = a * (base * span) + b * span
<1>1. (a * base + b) * span = (a * base) * span + b * span
  OBVIOUS
<1>2. (a * base) * span = a * (base * span)
  OBVIOUS
<1> QED  BY <1>1, <1>2

LEMMA Quotient ==
    ASSUME NEW a \in Nat, NEW rest \in Nat, NEW span \in Nat, rest < span
    PROVE  (a * span + rest) \div span = a
<1>1. a * span \in Nat
  BY Nonneg
<1> DEFINE q == (a * span + rest) \div span
           m == (a * span + rest) % span
<1>2. q \in Int /\ m \in 0..(span - 1) /\ a * span + rest = span * q + m
  BY <1>1
<1> HIDE DEF q, m
<1>3. (q - a) * span = rest - m
  BY <1>1, <1>2
<1>4. q - a < 1
  <2> SUFFICES ASSUME q - a >= 1 PROVE FALSE
    BY <1>2
  <2>1. (q - a - 1) * span \in Nat
    <3>1. q - a - 1 \in Nat
      BY <1>2
    <3> QED  BY <3>1, Nonneg
  <2>2. (q - a - 1) * span = (q - a) * span - span
    BY <1>2
  <2> QED  BY <1>2, <1>3, <2>1, <2>2
<1>5. q - a > -1
  <2> SUFFICES ASSUME a - q >= 1 PROVE FALSE
    BY <1>2
  <2>1. (a - q - 1) * span \in Nat
    <3>1. a - q - 1 \in Nat
      BY <1>2
    <3> QED  BY <3>1, Nonneg
  <2>2. (a - q - 1) * span = 0 - (q - a) * span - span
    BY <1>2
  <2> QED  BY <1>2, <1>3, <2>1, <2>2
<1> QED  BY <1>2, <1>4, <1>5 DEF q

LEMMA Spans ==
    /\ Byte \in Nat /\ Byte > 2
    /\ Span(4) = Byte /\ Span(3) = Byte * Byte
    /\ Span(3) \in Nat /\ Span(2) \in Nat /\ Span(1) \in Nat
    /\ Span(3) > 0 /\ Span(2) = Byte * Span(3)
    /\ Span(2) > 0 /\ Span(1) = Byte * Span(2)
<1>1. Byte \in Nat /\ Byte > 2
  BY OctetAssumption
<1>2. /\ Span(4) = Byte /\ Span(3) = Byte * Byte
      /\ Span(2) = Byte * Byte * Byte /\ Span(1) = Byte * Byte * Byte * Byte
  BY DEF Span
<1>3. Byte * Byte \in Nat /\ Byte * Byte > 0
  <2>1. (Byte - 1) * Byte \in Nat
    <3>1. Byte - 1 \in Nat
      BY <1>1
    <3> QED  BY <1>1, <3>1, Nonneg
  <2>2. (Byte - 1) * Byte = Byte * Byte - Byte
    BY <1>1
  <2> QED  BY <1>1, <2>1, <2>2
<1> DEFINE square == Byte * Byte
<1>4. Byte * square \in Nat /\ Byte * square > 0
  <2>1. (Byte - 1) * square \in Nat
    <3>1. Byte - 1 \in Nat
      BY <1>1
    <3> QED  BY <1>3, <3>1, Nonneg
  <2>2. (Byte - 1) * square = Byte * square - square
    BY <1>1, <1>3
  <2> QED  BY <1>1, <1>3, <2>1, <2>2
<1>5. Byte * Byte * Byte = Byte * square
  BY <1>1
<1>6. Byte * Byte * Byte * Byte = Byte * (Byte * square)
  BY <1>1
<1>7. Byte * (Byte * square) \in Nat
  BY <1>1, <1>4, Nonneg
<1> QED  BY <1>1, <1>2, <1>3, <1>4, <1>5, <1>6, <1>7

\* What the octets from the second, the third and the fourth on can make.
LEMMA Octets ==
    ASSUME NEW a \in Octet, NEW b \in Octet, NEW c \in Octet, NEW d \in Octet
    PROVE  /\ a \in Nat /\ a < Byte /\ b \in Nat /\ b < Byte
           /\ c \in Nat /\ c < Byte /\ d \in Nat /\ d < Byte
           /\ c * Byte + d \in Nat /\ c * Byte + d < Span(3)
           /\ b * Span(3) + (c * Byte + d) \in Nat /\ b * Span(3) + (c * Byte + d) < Span(2)
           /\ a * Span(2) + (b * Span(3) + (c * Byte + d)) \in Nat
           /\ a * Span(2) + (b * Span(3) + (c * Byte + d)) < Span(1)
<1>1. /\ a \in Nat /\ a < Byte /\ b \in Nat /\ b < Byte
      /\ c \in Nat /\ c < Byte /\ d \in Nat /\ d < Byte
  BY Spans DEF Octet
<1>2. c * Byte + d \in 0..(Byte * Byte - 1)
  BY <1>1, Spans, Digit
<1>3. c * Byte + d \in Nat /\ c * Byte + d < Span(3)
  BY <1>1, <1>2, Spans
<1> DEFINE low == c * Byte + d
<1> HIDE DEF low
<1>4. b * Span(3) + low \in 0..(Byte * Span(3) - 1)
  BY <1>1, <1>3, Spans, Digit DEF low
<1>5. b * Span(3) + low \in Nat /\ b * Span(3) + low < Span(2)
  BY <1>1, <1>4, Spans
<1> DEFINE mid == b * Span(3) + low
<1> HIDE DEF mid
<1>6. a * Span(2) + mid \in 0..(Byte * Span(2) - 1)
  BY <1>1, <1>5, Spans, Digit DEF mid
<1>7. a * Span(2) + mid \in Nat /\ a * Span(2) + mid < Span(1)
  BY <1>1, <1>6, Spans
<1> QED  BY <1>1, <1>3, <1>5, <1>7 DEF low, mid

\* The number of a loopback address.
LEMMA LoopbackNumber ==
    ASSUME NEW a \in Octet, NEW rest \in Nat, rest < Span(2),
           a = LoopbackNet \/ (a = 0 /\ rest = 0)
    PROVE  IsLoopbackNumber(a * Span(2) + rest)
<1>1. a \in Nat /\ a * Span(2) \in Nat
  BY Spans, Nonneg DEF Octet
<1>2. a * Span(2) + rest # NoNumber
  BY <1>1 DEF NoNumber
<1>3. (a * Span(2) + rest) \div Span(2) = a
  <2> DEFINE span == Span(2)
  <2>1. span \in Nat /\ rest < span
    BY Spans
  <2> HIDE DEF span
  <2>2. (a * span + rest) \div span = a
    BY <1>1, <2>1, Quotient
  <2> QED  BY <2>2 DEF span
<1>4. a = 0 /\ rest = 0 => a * Span(2) + rest = 0
  BY Spans
<1> QED  BY <1>2, <1>3, <1>4 DEF IsLoopbackNumber

\* parse_ipv4_host_as_integer reads the four octets however they are spelled.
LEMMA SpellingsAgree ==
    ASSUME NEW parts, NEW a \in Octet, NEW b \in Octet, NEW c \in Octet, NEW d \in Octet,
           Spells(parts, a, b, c, d)
    PROVE  Ipv4(parts) = a * Span(2) + (b * Span(3) + (c * Byte + d))
<1> DEFINE low == c * Byte + d
           mid == b * Span(3) + low
           all == a * Span(2) + mid
<1>1. /\ a \in Nat /\ a < Byte /\ b \in Nat /\ b < Byte
      /\ c \in Nat /\ c < Byte /\ d \in Nat /\ d < Byte
      /\ low \in Nat /\ low < Span(3) /\ mid \in Nat /\ mid < Span(2)
      /\ all \in Nat /\ all < Span(1)
  BY Octets
<1>2. /\ a * Span(2) \in Nat /\ b * Span(3) \in Nat /\ c * Byte \in Nat /\ Span(4) = Byte
      /\ 0 * Span(2) = 0 /\ 0 * Span(3) = 0 /\ 0 * Byte = 0
      /\ Byte \in Nat /\ Span(3) \in Nat /\ Span(2) \in Nat /\ Span(1) \in Nat
  BY <1>1, Spans, Nonneg
<1>3. mid = b * Span(3) + c * Byte + d /\ all = a * Span(2) + b * Span(3) + c * Byte + d
  BY <1>1, <1>2
<1>4. \/ parts = <<a, b, c, d>> \/ parts = <<a, b, low>>
      \/ parts = <<a, mid>> \/ parts = <<all>>
  BY <1>3 DEF Spells
<1> SUFFICES Ipv4(parts) = all
  OBVIOUS
<1> HIDE DEF low
<1>10. all = a * Span(2) + b * Span(3) + 0 * Span(4) + low
  BY <1>1, <1>2
<1> HIDE DEF mid
<1>11. all = a * Span(2) + 0 * Span(3) + 0 * Span(4) + mid
  BY <1>1, <1>2
<1> HIDE DEF all
<1>12. /\ all = 0 * Span(2) + 0 * Span(3) + 0 * Span(4) + all
       /\ all = a * Span(2) + b * Span(3) + c * Span(4) + d
  BY <1>1, <1>2, <1>3
<1>5. ASSUME NEW n \in 1..4, Len(parts) = n,
             \A i \in 1..(n - 1) : ~ (parts[i] >= Byte), ~ (parts[n] >= Span(n))
      PROVE  Ipv4(parts) = (IF 1 < n THEN parts[1] ELSE 0) * Span(2)
                           + (IF 2 < n THEN parts[2] ELSE 0) * Span(3)
                           + (IF 3 < n THEN parts[3] ELSE 0) * Span(4) + parts[n]
  BY <1>5, Zenon DEF Ipv4
<1>6. CASE parts = <<a, b, c, d>>
  <2>1. Len(parts) = 4 /\ parts[1] = a /\ parts[2] = b /\ parts[3] = c /\ parts[4] = d
    BY <1>6
  <2>2. \A i \in 1..(4 - 1) : ~ (parts[i] >= Byte)
    <3>1. ~ (a >= Byte) /\ ~ (b >= Byte) /\ ~ (c >= Byte)
      BY <1>1, <1>2
    <3>2. \A i \in 1..(4 - 1) : i = 1 \/ i = 2 \/ i = 3
      OBVIOUS
    <3> QED  BY <2>1, <3>1, <3>2, Zenon
  <2>3. ~ (parts[4] >= Span(4))
    BY <1>1, <1>2, <2>1
  <2>4. Ipv4(parts) = a * Span(2) + b * Span(3) + c * Span(4) + d
    BY <1>5, <2>1, <2>2, <2>3
  <2> QED  BY <1>12, <2>4, Zenon
<1>7. CASE parts = <<a, b, low>>
  <2>1. Len(parts) = 3 /\ parts[1] = a /\ parts[2] = b /\ parts[3] = low
    BY <1>7
  <2>2. \A i \in 1..(3 - 1) : ~ (parts[i] >= Byte)
    <3>1. ~ (a >= Byte) /\ ~ (b >= Byte)
      BY <1>1, <1>2
    <3>2. \A i \in 1..(3 - 1) : i = 1 \/ i = 2
      OBVIOUS
    <3> QED  BY <2>1, <3>1, <3>2, Zenon
  <2>3. ~ (parts[3] >= Span(3))
    BY <1>1, <1>2, <2>1
  <2>4. Ipv4(parts) = a * Span(2) + b * Span(3) + 0 * Span(4) + low
    BY <1>5, <2>1, <2>2, <2>3
  <2> QED  BY <1>10, <2>4, Zenon
<1>8. CASE parts = <<a, mid>>
  <2>1. Len(parts) = 2 /\ parts[1] = a /\ parts[2] = mid
    BY <1>8
  <2>2. \A i \in 1..(2 - 1) : ~ (parts[i] >= Byte)
    <3>1. ~ (a >= Byte)
      BY <1>1, <1>2
    <3>2. \A i \in 1..(2 - 1) : i = 1
      OBVIOUS
    <3> QED  BY <2>1, <3>1, <3>2, Zenon
  <2>3. ~ (parts[2] >= Span(2))
    BY <1>1, <1>2, <2>1
  <2>4. Ipv4(parts) = a * Span(2) + 0 * Span(3) + 0 * Span(4) + mid
    BY <1>5, <2>1, <2>2, <2>3
  <2> QED  BY <1>11, <2>4, Zenon
<1>9. CASE parts = <<all>>
  <2>1. Len(parts) = 1 /\ parts[1] = all
    BY <1>9
  <2>2. \A i \in 1..(1 - 1) : ~ (parts[i] >= Byte)
    OBVIOUS
  <2>3. ~ (parts[1] >= Span(1))
    BY <1>1, <1>2, <2>1
  <2>4. Ipv4(parts) = 0 * Span(2) + 0 * Span(3) + 0 * Span(4) + all
    BY <1>5, <2>1, <2>2, <2>3
  <2> QED  BY <1>12, <2>4, Zenon
<1> QED  BY <1>4, <1>6, <1>7, <1>8, <1>9

\* expand_ipv6_groups writes the eight groups of the host.
LEMMA GroupsAgree ==
    ASSUME NEW host, NEW head \in Seq(Nat), NEW tail \in Seq(Nat),
           host.head = head, host.tail = tail,
           host.compressed \in BOOLEAN, HasGroups(host)
    PROVE  /\ Ipv6(head, tail, host.compressed) # <<>>
           /\ \A i \in 1..8 : Ipv6(head, tail, host.compressed)[i] = Group(host, i)
<1>1. PICK n \in Nat, m \in Nat : n = Len(head) /\ m = Len(tail)
  OBVIOUS
<1> DEFINE missing == 8 - n - m
           zeros == [i \in 1..missing |-> 0]
           front == head \o zeros
           written == front \o tail
<1>2. (host.compressed /\ n + m <= 8) \/ (~ host.compressed /\ n + m = 8)
  BY <1>1, Zenon DEF HasGroups
<1>3. missing \in Nat /\ n + missing + m = 8 /\ n + missing = 8 - m
  <2>1. n + m <= 8
    BY <1>2
  <2> QED  BY <2>1
<1>4. Ipv6(head, tail, host.compressed) =
        IF missing < 0 \/ Len(written) # 8 THEN <<>> ELSE written
  <2>1. CASE host.compressed
    BY <1>1, <2>1, Zenon DEF Ipv6
  <2>2. CASE ~ host.compressed
    <3>1. missing = 0
      BY <1>2, <2>2
    <3> QED  BY <1>1, <2>2, <3>1, Zenon DEF Ipv6
  <2> QED  BY <2>1, <2>2, Zenon
<1> HIDE DEF missing
<1>5. zeros \in Seq(Nat) /\ Len(zeros) = missing /\ \A i \in 1..missing : zeros[i] = 0
  BY <1>3
<1> HIDE DEF zeros
<1>6. /\ front \in Seq(Nat) /\ Len(front) = n + missing
      /\ \A i \in 1..(n + missing) : front[i] = IF i <= n THEN head[i] ELSE zeros[i - n]
  BY <1>1, <1>3, <1>5, ConcatProperties
<1> HIDE DEF front
<1>7. /\ Len(written) = Len(front) + Len(tail)
      /\ \A i \in 1..(Len(front) + Len(tail)) :
           written[i] = IF i <= Len(front) THEN front[i] ELSE tail[i - Len(front)]
  BY <1>6, ConcatProperties
<1> HIDE DEF written
<1>8. Len(front) + Len(tail) = 8
  <2>1. Len(front) = n + missing
    BY <1>6
  <2> QED  BY <1>1, <1>3, <2>1
<1>9. Ipv6(head, tail, host.compressed) = written /\ written # <<>>
  <2>1. Len(written) = 8
    BY <1>7, <1>8, Zenon
  <2>2. ~ (missing < 0)
    BY <1>3
  <2>3. written # <<>>
    <3> SUFFICES ASSUME written = <<>> PROVE FALSE
      OBVIOUS
    <3>1. Len(<<>>) = 8
      BY <2>1, Zenon
    <3> QED  BY <3>1
  <2> QED  BY <1>4, <2>1, <2>2, <2>3, Zenon
<1>10. ASSUME NEW i \in 1..8 PROVE written[i] = Group(host, i)
  <2>1. Group(host, i) = IF i <= n THEN head[i] ELSE IF i > 8 - m THEN tail[i - (8 - m)] ELSE 0
    BY <1>1, Zenon DEF Group
  <2>0. written[i] = IF i <= n + missing THEN front[i] ELSE tail[i - (n + missing)]
    <3>1. Len(front) = n + missing
      BY <1>6
    <3>2. i \in 1..(Len(front) + Len(tail))
      BY <1>8
    <3> QED  BY <1>7, <3>1, <3>2, Zenon
  <2>2. i <= n + missing => written[i] = front[i] /\ i \in 1..(n + missing)
    BY <1>3, <2>0
  <2>3. ~ (i <= n + missing) => written[i] = tail[i - (n + missing)]
    BY <2>0, Zenon
  <2>4. CASE i <= n
    <3>1. i <= n + missing
      BY <1>3, <2>4
    <3> QED  BY <1>6, <2>1, <2>2, <2>4, <3>1, Zenon
  <2>5. CASE ~ (i <= n) /\ i <= n + missing
    <3>1. i - n \in 1..missing /\ ~ (i > 8 - m)
      BY <1>3, <2>5
    <3> QED  BY <1>5, <1>6, <2>1, <2>2, <2>5, <3>1, Zenon
  <2>6. CASE ~ (i <= n) /\ ~ (i <= n + missing)
    <3>1. i > 8 - m /\ n + missing = 8 - m
      BY <1>3, <2>6
    <3> QED  BY <2>1, <2>3, <2>6, <3>1, Zenon
  <2> QED  BY <2>4, <2>5, <2>6
<1> QED  BY <1>9, <1>10

LEMMA LoopbackScreened ==
    ASSUME NEW host, WrittenAsAddress(host),
           host.kind = "v6" => /\ host.head \in Seq(Nat) /\ host.tail \in Seq(Nat)
                               /\ host.compressed \in BOOLEAN,
           ReachesLoopback(host)
    PROVE  TargetsLoopback(host)
<1>1. ASSUME NEW a \in Octet, NEW b \in Octet, NEW c \in Octet, NEW d \in Octet,
             LoopbackOctets(a, b, c, d)
      PROVE  IsLoopbackNumber(a * Span(2) + (b * Span(3) + (c * Byte + d)))
  <2> DEFINE rest == b * Span(3) + (c * Byte + d)
  <2>1. rest \in Nat /\ rest < Span(2)
    BY Octets
  <2>2. a = LoopbackNet \/ (a = 0 /\ rest = 0)
    BY <1>1, Spans DEF LoopbackOctets
  <2> HIDE DEF rest
  <2>3. IsLoopbackNumber(a * Span(2) + rest)
    BY <2>1, <2>2, LoopbackNumber
  <2> QED  BY <2>3 DEF rest
<1>2. CASE host.kind = "v4"
  <2>1. PICK a \in Octet, b \in Octet, c \in Octet, d \in Octet :
          Spells(host.parts, a, b, c, d) /\ LoopbackOctets(a, b, c, d)
    BY <1>2 DEF ReachesLoopback
  <2> QED  BY <1>1, <1>2, <2>1, SpellingsAgree DEF TargetsLoopback
<1>3. CASE host.kind = "v6"
  <2> DEFINE groups == Ipv6(host.head, host.tail, host.compressed)
  <2>1. /\ HasGroups(host)
        /\ \A i \in 1..5 : Group(host, i) = 0
        /\ \/ /\ Group(host, 6) = 0 /\ Group(host, 7) = 0 /\ Group(host, 8) \in {0, 1}
           \/ /\ Group(host, 6) = Byte * Byte - 1
              /\ \E a, b, c, d \in Octet :
                   /\ Group(host, 7) = a * Byte + b /\ Group(host, 8) = c * Byte + d
                   /\ LoopbackOctets(a, b, c, d)
    BY <1>3 DEF ReachesLoopback
  <2>2. groups # <<>> /\ \A i \in 1..8 : groups[i] = Group(host, i)
    BY <1>3, <2>1, GroupsAgree
  <2> HIDE DEF groups
  <2>3. CASE /\ Group(host, 6) = Byte * Byte - 1
             /\ \E a, b, c, d \in Octet :
                  /\ Group(host, 7) = a * Byte + b /\ Group(host, 8) = c * Byte + d
                  /\ LoopbackOctets(a, b, c, d)
    <3>1. PICK a \in Octet, b \in Octet, c \in Octet, d \in Octet :
            /\ Group(host, 7) = a * Byte + b /\ Group(host, 8) = c * Byte + d
            /\ LoopbackOctets(a, b, c, d)
      BY <2>3
    <3>2. /\ a \in Nat /\ b \in Nat /\ c * Byte + d \in Nat
          /\ Span(3) = Byte * Byte /\ Span(2) = Byte * Span(3) /\ Byte \in Nat
      BY Octets, Spans
    <3>3. (a * Byte + b) * Span(3) + (c * Byte + d) = a * Span(2) + (b * Span(3) + (c * Byte + d))
      <4> DEFINE low == c * Byte + d
      <4> HIDE DEF low
      <4>0. a \in Nat /\ b \in Nat /\ Byte \in Nat /\ Span(3) \in Nat
        BY <3>2, Spans
      <4>1. (a * Byte + b) * Span(3) = a * (Byte * Span(3)) + b * Span(3)
        BY <4>0, Shifted
      <4>2. a * Span(2) \in Nat /\ b * Span(3) \in Nat
        BY <3>2, Spans, Nonneg
      <4>3. low \in Nat
        BY <3>2 DEF low
      <4>4. (a * Byte + b) * Span(3) + low = a * Span(2) + (b * Span(3) + low)
        BY <3>2, <4>1, <4>2, <4>3
      <4> QED  BY <4>4 DEF low
    <3>4. IsLoopbackNumber(groups[7] * Span(3) + groups[8])
      BY <1>1, <2>2, <3>1, <3>3
    <3> QED  BY <1>3, <2>1, <2>2, <2>3, <3>4 DEF TargetsLoopback, IsLoopbackGroups, groups
  <2>4. CASE Group(host, 6) = 0 /\ Group(host, 7) = 0 /\ Group(host, 8) \in {0, 1}
    BY <1>3, <2>1, <2>2, <2>4 DEF TargetsLoopback, IsLoopbackGroups, groups
  <2> QED  BY <2>1, <2>3, <2>4
<1>4. CASE host.kind = "localhost"
  BY <1>4 DEF TargetsLoopback
<1> QED  BY <1>2, <1>3, <1>4 DEF WrittenAsAddress

-----------------------------------------------------------------------------
(***************************************************************************)
(* A process goes on, and opens something, with a configuration that was   *)
(* accepted only.                                                          *)
(***************************************************************************)
Accepted ==
    \A p \in Processes :
        phase[p] \notin {"down", "failed"} \/ running[p] # {} => Violations(config) = {}

LEMMA AcceptedInit == Init => Accepted
BY DEF Init, Accepted

LEMMA AcceptedStep == TypeOK /\ Accepted /\ [Next]_vars => Accepted'
<1> SUFFICES ASSUME TypeOK, Accepted, [Next]_vars PROVE Accepted'
  OBVIOUS
<1>1. CASE UNCHANGED vars
  BY <1>1 DEF vars, Accepted
<1>2. ASSUME NEW p \in Processes, Proceed(p) \/ Fault(p) PROVE Accepted'
  <2>1. UNCHANGED config
    BY <1>2 DEF Proceed, Fault, Configure, TakeLock, ReadJournal, Migrate, Unlock, FindAccount,
       InsertUser, InsertCredential, FindBuckets, MakeBucket, CountRequests, CreateRequest,
       IssueLink, Listen, MigrateQueue, OpenMetrics, RunJobs, CloseServer, ClosePool,
       StopRunner, CloseMetrics, Exit, Crash, Die, StatementFails, StorageFails, SeedingFails,
       RunnerFails, Signal
  <2>2. CASE Violations(config) = {}
    BY <2>1, <2>2 DEF Accepted
  <2>3. CASE Violations(config) # {}
    <3>1. \A q \in Processes : phase[q] \in {"down", "failed"} /\ running[q] = {}
      BY <2>3 DEF Accepted
    <3>2. \A q \in Processes : phase'[q] \in {"down", "failed"} /\ running'[q] = {}
      <4>1. Configure(p) \/ Exit(p)
        BY <1>2, <3>1 DEF Proceed, Fault, TakeLock, ReadJournal, Migrate, Unlock, FindAccount,
           InsertUser, InsertCredential, FindBuckets, MakeBucket, CountRequests, CreateRequest,
           IssueLink, Listen, MigrateQueue, OpenMetrics, RunJobs, CloseServer, ClosePool,
           StopRunner, CloseMetrics, Crash, StatementFails, StorageFails, SeedingFails,
           RunnerFails, Signal, At, Making, Stranded
      <4>2. CASE Configure(p)
        BY <2>3, <3>1, <4>2 DEF Configure, Fail, Go, TypeOK
      <4>3. CASE Exit(p)
        BY <3>1, <4>3 DEF Exit, Die, Go, TypeOK
      <4> QED  BY <4>1, <4>2, <4>3
    <3> QED  BY <2>1, <3>2 DEF Accepted
  <2> QED  BY <2>2, <2>3
<1> QED  BY <1>1, <1>2 DEF Next

LEMMA AcceptedAlways == Spec => []Accepted
BY AcceptedInit, AcceptedStep, TypeCorrect, PTL DEF Spec

\* What the validation accepts has no port twice and, in production, no database
\* on a loopback host as targets_loopback_host knows them.
LEMMA NoViolation ==
    ASSUME NEW c, Violations(c) = {}
    PROVE  /\ ~ PortsClash(c)
           /\ Production(c) => ~ TargetsLoopback(c.host)
<1>1. ~ PortsClash(c)
  <2> SUFFICES ASSUME PortsClash(c) PROVE <<"WORKER_METRICS_PORT", "malformed">> \in Violations(c)
    OBVIOUS
  <2> QED  BY DEF Violations
<1>2. ASSUME Production(c), TargetsLoopback(c.host) PROVE FALSE
  <2>1. Present(c, "DATABASE_URL")
    <3> SUFFICES ASSUME ~ Present(c, "DATABASE_URL")
                 PROVE  <<"DATABASE_URL", "missing">> \in Violations(c)
      OBVIOUS
    <3>1. "DATABASE_URL" \in Required
      BY DEF Required
    <3> QED  BY <3>1 DEF Violations
  <2>2. "DATABASE_URL" \in Screened /\ Unfit(c, "DATABASE_URL")
    BY <1>2 DEF Screened, Unfit
  <2>3. <<"DATABASE_URL", "development_value_in_production">> \in Violations(c)
    BY <1>2, <2>1, <2>2 DEF Violations
  <2> QED  BY <2>3
<1> QED  BY <1>1, <1>2

\* No process of a production goes on with a database on its own host, "localhost"
\* or an address in any of the spellings of a loopback address, and none with two
\* servers on one port, whatever the configuration (parse_application_environment).
\* Nothing is said of the empty host and of the names.
THEOREM ElsewhereInProduction == Spec => []ProductionIsElsewhere
<1>1. TypeOK /\ Accepted => ProductionIsElsewhere
  <2> SUFFICES ASSUME TypeOK, Accepted, NEW p \in Processes, running[p] # {}
               PROVE  /\ Production(config) /\ WrittenAsAddress(config.host) =>
                            ~ ReachesLoopback(config.host)
                      /\ Port(config, "PORT") # Port(config, "WORKER_METRICS_PORT")
    BY DEF ProductionIsElsewhere
  <2>1. Violations(config) = {} /\ config \in Configurations
    BY DEF Accepted, TypeOK
  <2>2. ~ PortsClash(config) /\ (Production(config) => ~ TargetsLoopback(config.host))
    BY <2>1, NoViolation
  <2>3. WrittenAsAddress(config.host) /\ ReachesLoopback(config.host) =>
          TargetsLoopback(config.host)
    BY <2>1, HostsAssumption, LoopbackScreened
  <2> QED  BY <2>2, <2>3 DEF PortsClash
<1> QED  BY <1>1, TypeCorrect, AcceptedAlways, PTL
=============================================================================

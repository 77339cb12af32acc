------------------------------ MODULE Startup ------------------------------
(***************************************************************************)
(* The processes of the portal, from their configuration to their service  *)
(* and to their stop.  The API and the worker mount the same module and    *)
(* start together on the same database and the same storage; each of them  *)
(* brings the schema up to date, seeds the account of the lawyer, creates  *)
(* the buckets, and the API seeds a demonstration request.                 *)
(*                                                                         *)
(* A statement is a step.  A process may die before any of them, and       *)
(* starts again (restart: unless-stopped).                                 *)
(***************************************************************************)
EXTENDS Environment

CONSTANTS
    Processes,
    RoleOf,          \* RoleOf[p]: "api" or "worker"
    Nobody,
    Migrations,      \* number of migrations in drizzle/
    Configurations,  \* the configurations that may be read
    MaxFaults        \* bound: crashes, signals, failing statements

ASSUME StartupAssumption ==
    /\ RoleOf \in [Processes -> {"api", "worker"}]
    /\ Nobody \notin Processes
    /\ Migrations \in Nat \ {0}
    /\ MaxFaults \in Nat

\* A host is empty, a name or a literal address, as its spelling says.
ASSUME HostsAssumption ==
    \A c \in Configurations :
        /\ c.host.kind \in {"localhost", "empty", "name", "v4", "v6"}
        /\ c.host.kind = "name" => c.host.resolvesHere \in BOOLEAN
        /\ c.host.kind = "v6" => /\ c.host.head \in Seq(Nat)
                                 /\ c.host.tail \in Seq(Nat)
                                 /\ c.host.compressed \in BOOLEAN

Buckets == {"quarantine", "verified"}

VARIABLES
    config,     \* the configuration of the installation
    phase,      \* phase[p]: the step p is at
    failure,    \* failure[p]: why the current start of p fails
    lock,       \* holder of MIGRATION_ADVISORY_LOCK_KEY
    applied,    \* migrations in the database
    seen,       \* seen[p]: migrations p has found in the database
    writer,     \* transaction that has inserted the user and is not over
    account,    \* committed rows of the lawyer: "user", "credential"
    buckets,    \* buckets of the storage
    requests,   \* requests of the lawyer
    link,       \* the demonstration link is issued
    queue,      \* the schema of the scan queue is installed
    running,    \* running[p]: what is open in p
    faults      \* bound

database == <<lock, applied, seen, writer, account, requests, link, queue>>
vars == <<config, phase, failure, database, buckets, running, faults>>

Init ==
    /\ config \in Configurations
    /\ phase = [p \in Processes |-> "down"]
    /\ failure = [p \in Processes |-> "none"]
    /\ lock = Nobody
    /\ applied = 0
    /\ seen = [p \in Processes |-> 0]
    /\ writer = Nobody
    /\ account = {}
    /\ buckets = {}
    /\ requests = 0
    /\ link = FALSE
    /\ queue = FALSE
    /\ running = [p \in Processes |-> {}]
    /\ faults = 0

-----------------------------------------------------------------------------
At(p, s) == phase[p] = s
Go(p, s) == phase' = [phase EXCEPT ![p] = s]
Open(p, it) == running' = [running EXCEPT ![p] = @ \cup {it}]
Close(p, it) == running' = [running EXCEPT ![p] = @ \ {it}]

\* A start that fails reports why and lets the process end by itself.
Fail(p, why) == Go(p, "failed") /\ failure' = [failure EXCEPT ![p] = why]

\* parse_application_environment, then the pool of connections.
Configure(p) ==
    /\ At(p, "down")
    /\ IF Violations(config) # {}
       THEN Fail(p, "configuration") /\ UNCHANGED running
       ELSE Go(p, "locking") /\ failure' = [failure EXCEPT ![p] = "none"] /\ Open(p, "pool")
    /\ UNCHANGED <<config, database, buckets, faults>>

-----------------------------------------------------------------------------
(***************************************************************************)
(* run_database_migrations.                                                *)
(***************************************************************************)
BugTakeLock(p) ==
    /\ At(p, "locking")
    /\ lock' = p
    /\ Go(p, "reading journal")
    /\ UNCHANGED <<config, failure, applied, seen, writer, account, requests, link, queue,
                   buckets, running, faults>>

TakeLock(p) ==
    /\ At(p, "locking")
    /\ lock = Nobody
    /\ lock' = p
    /\ Go(p, "reading journal")
    /\ UNCHANGED <<config, failure, applied, seen, writer, account, requests, link, queue,
                   buckets, running, faults>>

\* The migrator reads the last migration outside its transaction,
ReadJournal(p) ==
    /\ At(p, "reading journal")
    /\ seen' = [seen EXCEPT ![p] = applied]
    /\ Go(p, "migrating")
    /\ UNCHANGED <<config, failure, lock, applied, writer, account, requests, link, queue,
                   buckets, running, faults>>

\* and applies the rest in it: a migration that somebody else has applied since
\* meets the schema it creates.
Migrate(p) ==
    /\ At(p, "migrating")
    /\ IF seen[p] < applied
       THEN failure' = [failure EXCEPT ![p] = "conflict"] /\ UNCHANGED applied
       ELSE applied' = Migrations /\ UNCHANGED failure
    /\ Go(p, "unlocking")
    /\ UNCHANGED <<config, lock, seen, writer, account, requests, link, queue,
                   buckets, running, faults>>

BugUnlock(p) ==
    /\ At(p, "unlocking")
    /\ Go(p, IF failure[p] = "none" THEN "finding account" ELSE "failed")
    /\ UNCHANGED <<config, failure, database, buckets, running, faults>>

\* The lock is given back in a finally.
Unlock(p) ==
    /\ At(p, "unlocking")
    /\ lock' = IF lock = p THEN Nobody ELSE lock
    /\ Go(p, IF failure[p] = "none" THEN "finding account" ELSE "failed")
    /\ UNCHANGED <<config, failure, applied, seen, writer, account, requests, link, queue,
                   buckets, running, faults>>

-----------------------------------------------------------------------------
(***************************************************************************)
(* bootstrap_demo_lawyer_account and DrizzleLawyerAccountRepository.       *)
(***************************************************************************)
FindAccount(p) ==
    /\ At(p, "finding account")
    /\ Go(p, IF "user" \in account THEN "finding buckets" ELSE "inserting user")
    /\ UNCHANGED <<config, failure, database, buckets, running, faults>>

BugInsertUser(p) ==
    /\ At(p, "inserting user")
    /\ writer = Nobody
    /\ IF "user" \in account
       THEN Go(p, "finding buckets") /\ UNCHANGED <<writer, account>>
       ELSE Go(p, "inserting credential") /\ writer' = p /\ account' = {"user"}
    /\ UNCHANGED <<config, failure, lock, applied, seen, requests, link, queue,
                   buckets, running, faults>>

\* The index on the email makes a second insertion wait for the transaction of
\* the first; is_unique_violation is absorbed.
InsertUser(p) ==
    /\ At(p, "inserting user")
    /\ writer = Nobody
    /\ IF "user" \in account
       THEN Go(p, "finding buckets") /\ UNCHANGED writer
       ELSE Go(p, "inserting credential") /\ writer' = p
    /\ UNCHANGED <<config, failure, lock, applied, seen, account, requests, link, queue,
                   buckets, running, faults>>

\* The second insertion and the commit of both.
InsertCredential(p) ==
    /\ At(p, "inserting credential")
    /\ account' = {"user", "credential"}
    /\ writer' = Nobody
    /\ Go(p, "finding buckets")
    /\ UNCHANGED <<config, failure, lock, applied, seen, requests, link, queue,
                   buckets, running, faults>>

-----------------------------------------------------------------------------
(***************************************************************************)
(* ensure_buckets_exist: one bucket after the other, quarantine first.     *)
(***************************************************************************)
Making(b) == IF b = "quarantine" THEN "making quarantine" ELSE "making verified"

FindBuckets(p) ==
    /\ \/ At(p, "finding buckets") /\ Go(p, IF "quarantine" \in buckets THEN "finding verified"
                                             ELSE Making("quarantine"))
       \/ At(p, "finding verified") /\ Go(p, IF "verified" \in buckets THEN "seeding"
                                             ELSE Making("verified"))
    /\ UNCHANGED <<config, failure, database, buckets, running, faults>>

\* A bucket that the other process has made meanwhile is not a failure.
MakeBucket(p) ==
    /\ \E b \in Buckets :
         /\ At(p, Making(b))
         /\ buckets' = buckets \cup {b}
         /\ Go(p, IF b = "quarantine" THEN "finding verified" ELSE "seeding")
    /\ UNCHANGED <<config, failure, database, running, faults>>

-----------------------------------------------------------------------------
(***************************************************************************)
(* DemoDepositRequestBootstrapper.                                         *)
(***************************************************************************)
Seeds(p) == RoleOf[p] = "api"

AfterSeeding(p) == IF RoleOf[p] = "api" THEN "listening" ELSE "queue migrations"

\* Whoever has a request, with or without its link, is not seeded again.
CountRequests(p) ==
    /\ At(p, "seeding")
    /\ Go(p, IF Seeds(p) /\ requests = 0 THEN "creating request" ELSE AfterSeeding(p))
    /\ UNCHANGED <<config, failure, database, buckets, running, faults>>

CreateRequest(p) ==
    /\ At(p, "creating request")
    /\ requests' = requests + 1
    /\ Go(p, "issuing link")
    /\ UNCHANGED <<config, failure, lock, applied, seen, writer, account, link, queue,
                   buckets, running, faults>>

\* issue_link_replacing_current with the published token: its fingerprint is
\* unique in the table, a second one is refused and the failure is swallowed.
IssueLink(p) ==
    /\ At(p, "issuing link")
    /\ link' = TRUE
    /\ Go(p, AfterSeeding(p))
    /\ UNCHANGED <<config, failure, lock, applied, seen, writer, account, requests, queue,
                   buckets, running, faults>>

\* A seeding that fails never keeps a process from starting.
SeedingFails(p) ==
    /\ phase[p] \in {"seeding", "creating request", "issuing link"}
    /\ faults < MaxFaults
    /\ faults' = faults + 1
    /\ Go(p, AfterSeeding(p))
    /\ UNCHANGED <<config, failure, database, buckets, running>>

-----------------------------------------------------------------------------
(***************************************************************************)
(* The end of bootstrap and of bootstrap_worker, and the stop.             *)
(***************************************************************************)
Listen(p) ==
    /\ At(p, "listening")
    /\ Open(p, "listener")
    /\ Go(p, "serving")
    /\ UNCHANGED <<config, failure, database, buckets, faults>>

MigrateQueue(p) ==
    /\ At(p, "queue migrations")
    /\ queue' = TRUE
    /\ Go(p, "opening metrics")
    /\ UNCHANGED <<config, failure, lock, applied, seen, writer, account, requests, link,
                   buckets, running, faults>>

OpenMetrics(p) ==
    /\ At(p, "opening metrics")
    /\ Open(p, "listener")
    /\ Go(p, "running")
    /\ UNCHANGED <<config, failure, database, buckets, faults>>

RunJobs(p) ==
    /\ At(p, "running")
    /\ Open(p, "runner")
    /\ Go(p, "serving")
    /\ UNCHANGED <<config, failure, database, buckets, faults>>

Signal(p) ==
    /\ At(p, "serving")
    /\ faults < MaxFaults
    /\ faults' = faults + 1
    /\ Go(p, "stopping")
    /\ UNCHANGED <<config, failure, database, buckets, running>>

\* enableShutdownHooks: Nest disposes of its HTTP server, if it has one, and
\* calls DatabaseConnectionCloser.
CloseServer(p) ==
    /\ At(p, "stopping")
    /\ RoleOf[p] = "api"
    /\ "listener" \in running[p]
    /\ Close(p, "listener")
    /\ UNCHANGED <<config, phase, failure, database, buckets, faults>>

ClosePool(p) ==
    /\ At(p, "stopping")
    /\ "pool" \in running[p]
    /\ RoleOf[p] = "api" => "listener" \notin running[p]
    /\ Close(p, "pool")
    /\ UNCHANGED <<config, phase, failure, database, buckets, faults>>

\* stop_worker hears the same signal: runner, metrics, then the context, whose
\* pool is already closing.
StopRunner(p) ==
    /\ At(p, "stopping")
    /\ "runner" \in running[p]
    /\ Close(p, "runner")
    /\ UNCHANGED <<config, phase, failure, database, buckets, faults>>

CloseMetrics(p) ==
    /\ At(p, "stopping")
    /\ RoleOf[p] = "worker"
    /\ "runner" \notin running[p]
    /\ "listener" \in running[p]
    /\ Close(p, "listener")
    /\ UNCHANGED <<config, phase, failure, database, buckets, faults>>

-----------------------------------------------------------------------------
(***************************************************************************)
(* Deaths.  The end of a process ends its session: the lock is free again  *)
(* and its transaction is rolled back.                                     *)
(***************************************************************************)
Die(p) ==
    /\ Go(p, "down")
    /\ lock' = IF lock = p THEN Nobody ELSE lock
    /\ writer' = IF writer = p THEN Nobody ELSE writer
    /\ running' = [running EXCEPT ![p] = {}]
    /\ UNCHANGED <<config, failure, applied, seen, account, requests, link, queue, buckets>>

\* bootstrap_worker reports a failure and sets process.exitCode: the listener of
\* the metrics, if it is open by then, is closed by nobody and keeps the process.
Stranded(p) == At(p, "failed") /\ "listener" \in running[p]

\* Nest sends the signal again once its hooks are done; a failed start ends when
\* its last connection does.
Exit(p) ==
    /\ \/ At(p, "failed") /\ failure[p] # "configuration" /\ ~ Stranded(p)
       \/ At(p, "stopping") /\ "pool" \notin running[p]
    /\ Die(p)
    /\ UNCHANGED faults

\* A process that dies, or that somebody kills.
Crash(p) ==
    /\ phase[p] \notin {"down", "failed"} \/ Stranded(p)
    /\ faults < MaxFaults
    /\ faults' = faults + 1
    /\ Die(p)

\* The database or the storage does not answer: the error leaves bootstrap, but
\* for a migration that gives the lock back first.  The last statements are those
\* of run(), past the opening of the listener.
StatementFails(p) ==
    /\ phase[p] \in {"locking", "reading journal", "migrating", "finding account",
                     "inserting user", "inserting credential", "queue migrations", "running"}
    /\ faults < MaxFaults
    /\ faults' = faults + 1
    /\ failure' = [failure EXCEPT ![p] = "unreachable"]
    /\ Go(p, IF phase[p] \in {"reading journal", "migrating"} THEN "unlocking" ELSE "failed")
    /\ writer' = IF writer = p THEN Nobody ELSE writer
    /\ UNCHANGED <<config, lock, applied, seen, account, requests, link, queue, buckets, running>>

BugAfterStorageFailure(p) == Go(p, "seeding") /\ UNCHANGED failure
AfterStorageFailure(p) == Fail(p, "unreachable")

StorageFails(p) ==
    /\ phase[p] \in {"finding buckets", "finding verified"} \cup {Making(b) : b \in Buckets}
    /\ faults < MaxFaults
    /\ faults' = faults + 1
    /\ AfterStorageFailure(p)
    /\ UNCHANGED <<config, database, buckets, running>>

\* runner.promise is rejected while the worker serves.
RunnerFails(p) ==
    /\ At(p, "serving")
    /\ "runner" \in running[p]
    /\ faults < MaxFaults
    /\ faults' = faults + 1
    /\ Fail(p, "unreachable")
    /\ Close(p, "runner")
    /\ UNCHANGED <<config, database, buckets>>

-----------------------------------------------------------------------------
Proceed(p) ==
    \/ Configure(p)
    \/ TakeLock(p) \/ ReadJournal(p) \/ Migrate(p) \/ Unlock(p)
    \/ FindAccount(p) \/ InsertUser(p) \/ InsertCredential(p)
    \/ FindBuckets(p) \/ MakeBucket(p)
    \/ CountRequests(p) \/ CreateRequest(p) \/ IssueLink(p)
    \/ Listen(p) \/ MigrateQueue(p) \/ OpenMetrics(p) \/ RunJobs(p)
    \/ CloseServer(p) \/ ClosePool(p) \/ StopRunner(p) \/ CloseMetrics(p)
    \/ Exit(p)

Fault(p) == \/ Crash(p) \/ StatementFails(p) \/ StorageFails(p) \/ SeedingFails(p)
            \/ RunnerFails(p) \/ Signal(p)

Next == \E p \in Processes : Proceed(p) \/ Fault(p)

Spec == Init /\ [][Next]_vars

\* A process that can go on does, and the container that ends is started again.
FairSpec == Spec /\ \A p \in Processes : WF_vars(Proceed(p))

-----------------------------------------------------------------------------
(***************************************************************************)
(* Properties.                                                             *)
(***************************************************************************)
Phases == {"down", "locking", "reading journal", "migrating", "unlocking",
           "finding account", "inserting user", "inserting credential",
           "finding buckets", "making quarantine", "finding verified", "making verified",
           "seeding", "creating request", "issuing link", "listening",
           "queue migrations", "opening metrics", "running", "serving",
           "stopping", "failed"}

\* Processes and database keep their shape; a transaction belongs to the process
\* that is between its two insertions, the lock to one that migrates.
TypeOK ==
    /\ config \in Configurations
    /\ phase \in [Processes -> Phases]
    /\ failure \in [Processes -> {"none", "configuration", "conflict", "unreachable"}]
    /\ lock \in Processes \cup {Nobody}
    /\ applied \in {0, Migrations}
    /\ seen \in [Processes -> {0, Migrations}]
    /\ writer \in Processes \cup {Nobody}
    /\ \A p \in Processes : writer = p <=> At(p, "inserting credential")
    /\ \A p \in Processes : lock = p <=> phase[p] \in {"reading journal", "migrating", "unlocking"}
    /\ account \subseteq {"user", "credential"}
    /\ buckets \subseteq Buckets
    /\ requests \in Nat
    /\ link \in BOOLEAN
    /\ queue \in BOOLEAN
    /\ running \in [Processes -> SUBSET {"pool", "listener", "runner"}]
    /\ faults \in 0..MaxFaults

\* Processes that start together never make each other fail: neither migrates
\* a schema the other is migrating (run_database_migrations).
StartsNeverCollide == \A p \in Processes : failure[p] # "conflict"

\* Whoever serves finds the whole schema, an account that has its password, and
\* both buckets, whatever died half way before.
ServingIsReady ==
    (\E p \in Processes : At(p, "serving")) =>
        /\ applied = Migrations
        /\ account = {"user", "credential"}
        /\ buckets = Buckets

\* In production no process goes on with a database on its own host when the host
\* is "localhost" or an address, in whichever of its spellings, nor with two
\* servers on one port.  An empty host and a name that resolves to the machine
\* itself pass parse_application_environment.
ProductionIsElsewhere ==
    (\E p \in Processes : running[p] # {}) =>
        /\ Production(config) /\ WrittenAsAddress(config.host) =>
              ~ ReachesLoopback(config.host)
        /\ Port(config, "PORT") # Port(config, "WORKER_METRICS_PORT")

\* With a configuration that holds, every process ends up serving, whatever it
\* has met before, unless a failure of the runner has stranded it: then it stays
\* up with its metrics and without its jobs until somebody kills it.
EveryProcessServes ==
    \A p \in Processes :
        []<>(At(p, "serving") \/ failure[p] = "configuration" \/ Stranded(p))
=============================================================================

# A verification of the deposit portal

The portal (`exo2-portail-depot`) lets a lawyer ask a client for documents. The
lawyer creates a *deposit request* with its *expected documents* and sends a
link and a PIN; the client opens the link, uploads one file per document
straight to an object storage, and declares the deposit finished. Each file is
scanned before the lawyer may download it, and the request is *validated* when
every document has a clean file.

This directory holds TLA+ modules that model that program, TLC configurations
that check them on small instances, and TLAPS proofs for any instance. Paths
below are relative to `src/exo2-portail-depot/backend/src/` unless they start
with `frontend/`, then to `src/exo2-portail-depot/`; `PROJECT.json` maps every
definition to its lines.

## 1. Inventory

### Processes and shared state

Two Node processes share one PostgreSQL database and one MinIO server: the
**API** (`main.ts`, any number of requests in progress) and the **worker**
(`worker_main.ts`, graphile-worker with one job at a time). They never call each
other: they meet in rows, objects and jobs. PostgreSQL statements, storage calls
and enqueuings are atomic; between two of them the code awaits, and another
actor may step in. Few operations are more than one statement at a time: the
status transition of a request (row lock), the issue of a link (replace the
current one), the creation of a request with its documents, the account of the
lawyer (transactions), the save of a PIN attempt (compare-and-set), the
consumption of the upload allowance (conditional update), and the migrations
(advisory lock). What lives in the memory of the API is the argon2 gate.

The pages run in the browsers of one lawyer and of clients. They talk to the API
by requests that can be lost, and hold what nobody else does: the message of a
new link, and which slots wait for the reception of a file.

### Components

| Component | State it keeps | Operations | What makes it correct |
|---|---|---|---|
| Request lifecycle (`domain/deposit_request_status.ts`, `deposit/*`) | `deposit_requests.status` | creation; client finishes; pipeline events (all clean, not clean any more, link blocked, link expired), each under a row lock | validated only if complete; a complete finished request gets validated |
| Deposited files (`domain/deposited_file.ts`, `deposited_file/*`) | one row per reserved file, partial unique index on the occupant of a document | reserve, save a state, delete | one occupant per document; clean rows point to stored objects |
| Arrival of objects (`scan/record_object_arrival.ts`, `storage/internal_storage_events.controller.ts`) | none of its own | webhook of MinIO: find the row, save, journalize, enqueue; or discard | arrivals are noticed and journalized whatever the notifications do |
| Scan queue and worker (`scan/scan_queue.ts`, `scan/scan_deposited_file.ts`, `worker_main.ts`) | jobs keyed by file, with attempts | take, scan, promote or delete, save, tell the lifecycle, retry | only healthy contents enter the verified bucket; every file gets a verdict |
| Reconciliation (`scan/reconcile_deposits.ts`) | none of its own | four sweeps: missed arrivals and abandoned reservations, overdue scans, stale objects, expired requests | repairs what was lost, destroys nothing that is wanted |
| Object storage (`object_storage/*`) | the quarantine and verified buckets | creation, presigned upload, promotion (copy then delete), delete | |
| Removal by the client (`deposited_file/remove_client_file.ts`) | none of its own | read the row, read the request, delete the row, reopen, delete in both buckets | a removed file is gone for good |
| Access links (`access_link/*`, `domain/access_link.ts`, `domain/verify_client_pin.ts`, `deposit_session/unlock_deposit_link.ts`) | one active link per request, its attempts and dates | issue (replaces), revoke, unlock with a PIN, block, expire | never more guesses than allowed; a dead link stays dead; a blocking is told |
| Client sessions (`deposit_session/*`) | sessions with an upload allowance | open, guard, consume | allowance never exceeded; a session ends with its link |
| Throttling (`auth/login_throttling.ts`, `auth/login_throttle_store.ts`, `deposit_session/client_pin_throttle_store.ts`) | counters in the database with their dates | read, record a failure or a refused probe, forget | refuses who has failed too often, and nobody else |
| Argon2 gate (`shared/argon2_concurrency_gate.ts`) | places taken, waiting requests | enter, wait, refuse, hand over, release | never more than four at once; nobody waits for ever |
| Activity journal (`activity/*`) | rows only ever appended | record, list | one entry per thing that happened |
| Start and stop (`main.ts`, `worker_main.ts`, `config/environment.ts`, `db/*`, `auth/lawyer_account_bootstrap.ts`, `object_storage/object_storage.module.ts`, `deposit/demo_deposit_request_bootstrap.ts`) | configuration, migrations, the account, the buckets, what is open | validate, migrate, seed, listen, stop | concurrent starts do not collide; who serves finds everything |
| Page of the client (`frontend/src/screens/client_*`, `frontend/src/api/client_queries.ts`) | the board last read, slots and their sendings, slots that await a reception | poll, send, remove, finish, unlock | does not go back on what it said; does not stop looking |
| Pages of the lawyer (`frontend/src/screens/*`, `frontend/src/api/lawyer_queries.ts`) | the form, the detail last read, the message of a new link | create, regenerate, revoke, copy, close | the secret of the working link was shown; errors are named |
| Health, metrics, theme, deployment, downloads | | read only | |

### Where it is hard

- *Interleaving*: the webhook, the sweep, the scan, the removal and the client's
  click all read a row, await, and write on the strength of what they read.
  `save_state` is an unconditional update. A PIN is verified for a tenth of a
  second against a row that others may change.
- *Delivery*: MinIO may announce an object late, twice, or never. Bytes may
  arrive after the row was deleted. Answers reach a page that has changed since.
- *Crash*: every operation that touches the database and the storage can stop
  in between; there is no transaction across the two. Starts are interrupted and
  begin again.
- *Time*: upload tickets, the grace of reservations, the delay of overdue scans,
  the expiry of links and sessions, the windows of failed attempts.
- *Counters at their limits*: PIN attempts, upload allowance, argon2 places and
  queue, failures of an address, sizes and settings typed in a form.

The `hazards` of `PROJECT.json` list each at its line with the properties that
cover it.

## 2. Plan

In the order followed:

1. **The deposit pipeline**: one request, its documents, files, objects, jobs
   and actors, with proofs.
2. **ClientAccess**: the emission of links, the compare-and-set on PIN attempts,
   sessions and their allowance, composed with the transitions of the request
   (`DepositRequestStatus`, which the pipeline uses too).
3. **Argon2Gate**, the abstract **EvaluationSlots** it implements, and
   **LawyerLogin**, which composes the gate with the counters of failed logins.
4. **Environment** and **Startup**: two processes from their configuration to
   their service.
5. **ClientBoard** and **LawyerDesk**: the pages, with the portal reduced to
   what they can see.
6. **Proofs** of 1 to 5: `DepositPipeline_proofs`, `ClientAccess_proofs`,
   `LawyerLogin_proofs` (with the refinement of 3), `Startup_proofs`,
   `ClientBoard_proofs` and `LawyerDesk_proofs`.
7. **DepositPromise**, what the deposit of one request promises whoever works on
   it, and the pipeline shown to implement it; **AccessPromise**, the same for
   links, PINs and sessions; **FailureWindow**, the counting of dated failures
   that both throttles use, with its lemmas; `DepositJournal_proofs`, how often a
   reception may be told.

Left for later: the composition of `ClientAccess` with the whole pipeline, where
`LinkEnds` stands for the links today.

## 3. The modules

| Module | Models | Correspondence |
|---|---|---|
| `DepositRequestStatus` | `domain/deposit_request_status.ts` | the two transition tables as pure operators |
| `DepositState` | schema, storage, local state of the actors | constants, the 14 variables, `TypeOK`, `Init`, the updates of a row (`Save`, `DeleteRow`), the unique index (`IndexAllows`), completeness |
| `ObjectArrival` | `record_object_arrival.ts` | one action per await of `record`, for any recorder |
| `ScanWorker` | `scan_deposited_file.ts`, `scan_queue.ts`, `worker_main.ts` | one action per await of `scan` and of what it calls |
| `Reconciler` | `reconcile_deposits.ts` | one action per await of the sweeps; extends the two modules above, whose operations it calls |
| `ClientActions` | `authorize_client_upload.ts`, `remove_client_file.ts`, `apply_client_action`, the upload, the clock, the end of a link | |
| `DepositPipeline` | composition of the six above | faults, `Next`, fairness, specifications and properties |
| `DepositPromise` | the promise of the deposit | files on a list with their verdicts, what is stored, what is served, the status: no queue, bucket, recorder or clock |
| `DepositInvariant`, `DepositPipeline_proofs` | | the inductive invariant `IInv` and the theorems |
| `DepositJournal`, `DepositJournal_proofs` | the journal of receptions | adds a history variable to the pipeline |
| `ClientAccess` | `access_link/*`, `deposit_session/*`, `verify_client_pin.ts` | extends `DepositRequestStatus`; one action per statement of emission, revocation, attempt, session guard and upload |
| `AccessPromise` | the promise of the access to one deposit | links, their misses, who was admitted, sessions and tickets, as if each request were served alone: no attempt between two statements, no journal |
| `Argon2Gate` | `argon2_concurrency_gate.ts` | one operator per answer of `enter` and per outcome of `release` |
| `EvaluationSlots` | the promise of the gate | a set of evaluations with a bound and a fair line |
| `FailureWindow` | `login_throttling.ts:37`, `client_pin_throttle_store.ts:29` | the dated failures of an address and how many a window holds; extended by `ClientAccess` and `LawyerLogin` |
| `LawyerLogin` | `throttle_lawyer_login.ts`, `login_throttling.ts`, `login_throttle_store.ts` | extends `Argon2Gate`; one action per statement on the counters |
| `Environment` | `config/environment.ts` | pure operators: the violations of a configuration, the spellings of a loopback host |
| `Startup` | `main.ts`, `worker_main.ts`, `run_database_migrations.ts`, the bootstraps | extends `Environment`; one action per statement or call |
| `ClientBoard` | the client's screens, `client_queries.ts`, `query_client.ts` | the query, the slots, the mutations and the gate as one state |
| `LawyerDesk` | the lawyer's form and dashboard, the dialog, `lawyer_queries.ts`, the routes behind them | one action per click, per statement of a route and per answer |
| `FailureWindow_proofs`, `ClientAccess_proofs`, `LawyerLogin_proofs`, `Startup_proofs`, `ClientBoard_proofs`, `LawyerDesk_proofs` | | their lemmas, inductive invariants and theorems |
| `MC...` | | instances for TLC |

Beside an operator a `Bug...` operator is the same with a plausible mistake; it
is used to test the properties, never by the specifications.

### State and steps

**Pipeline.** `row[f]` is the status of the row of file `f`, `"none"` before its
reservation, and afterwards `"removed"`, `"superseded"` or `"abandoned"`: no row
either, but the name says which code path deleted it (the code never inserts the
same row again, ids are random). `quarantine` and `verified` are the buckets;
the object of a file has the key of that file, so a bucket is a set of files.
`content[f]` is what the client uploaded, and stays. `job[f]` is the number of
attempts left to the queued job of `f` (`job_key`), 0 when there is none.
`arrival[r]`, `worker`, `removal[f]`, `finish` are the program counters and
local variables of the actors: the values they hold across an await, which may
be stale. `lost` is a history variable: documents whose clean file was deleted,
or put back to scan, since it was found clean. Updates of a row that does not
exist do nothing (`Save`, `DeleteRow`), like the SQL. `SaveArrival` can be
refused by the unique index; `SaveClean` has no such branch because a row under
scan is the occupant already, which `OneOccupant` and its proof establish.

**Access.** `link[l]`, `failed[l]`, `expires[l]` are the columns of a row
`access_link`, `opener[s]`, `ending[s]`, `uploads[s]` those of a session;
`attempt[a]` is an unlocking request with what it read (`at`, `seen`) and what
it still has to do (`then`); `office[o]` a request of the lawyer between its
reading and its writing. `wrong[l]` is a history variable: the wrong PINs
answered since the last right one. `journal[l]` counts the entries of each type.

**Gate and login.** `inFlight` and `queue` are the two variables of the gate;
`holding` are the admissions whose own `release` has not run yet, however often
it is called. `account`, `pair[i]`, `failures[i]` are the three layers of
counters; `misses[i]` is a history variable.

**Start.** `phase[p]` is the next statement of process `p`, `failure[p]` why its
present start fails; `lock`, `applied`, `seen`, `writer`, `account`, `buckets`
are the advisory lock, the migrations, what the migrator has read of its
journal, the open transaction of the account, the committed account and the
storage.

**Pages.** `fetch` (or `reading[r]`) is the query under way: asked, answered and
not received yet, or idle. The portal carries out a request in one step and the
page learns of it in another, so that answers meet a page that has changed, and
`invalidateQueries` drops them. A screen that is replaced loses its state
(`Render`, `Unmount`); requests it sent go on.

**Steps.** One action is one statement, storage call or event handler with the
code that follows it up to the next await.

**Faults.** Pipeline: `HandlerFails`, `ScanFails`, `PassFails`, `RemovalFails`,
`FinishFails`, an exception or the death of a process between any two steps of
an actor; what was written stays, what was in memory goes; a scan that fails
keeps the attempts it has left. Access: `StopHalfWay`, between any two
statements of an attempt. Login: `StoreFails` for each write of a counter,
`Disconnect` of the client. Start: `Crash`, `StatementFails`, `StorageFails`,
`SeedingFails`, `Signal`. Pages: `LoseBoard`, `SendingFails`, `CallFails`,
`LoseDetail`, `Reload`, the end of the session. A constant bounds the number of
faults in each.

### What is abstracted

Pipeline:
- The two reads of `authorize` and its insert are one step. Nothing is lost:
  several reservations of one document coexist anyway (`pending_upload` does not
  occupy it), so a late insert leads to the same states.
- One upload per reservation. The ticket of a presigned POST could be used
  twice; the key is the same and the second object would replace the first.
- Who may call (session, link, lawyer) is not checked in this model: every
  action of the client is always possible. Safety results only get stronger.
- `created_at` and `uploaded_at` are one age, counted in ticks and stopped past
  the longest delay. The proofs only use that the grace of a reservation is at
  least the life of its ticket and the delay of overdue scans
  (`GraceAssumption`, which `scan/reconcile_deposits.ts:24` asks for).
- Contents are `"healthy"`, `"virus"` or `"nonconforming"`; the engines answer
  according to them. Sizes, names, MIME types, sniffed bytes and logs are out.
- Journal entries other than receptions are written beside the change they
  report; their write is part of the neighbouring step.
- A notification batch is several handlers with one arrival each. One "deposit
  finished" request at a time; the second would be refused by its status.
- `LinkEnds` may block or expire the request at any time while it is not over,
  `CloseExpired` may in the sweep: `ClientAccess` says when they do.

Access and login:
- A PIN or a password is right or wrong; tokens, hashes and cookies are the rows
  they open. Delays of the throttlers are waits before the gate, so they only
  leave more time for others.
- The emission of a link is a transaction of two short statements: the clock
  does not tick between its reading and its writing.
- Only the journal entries a property speaks of are counted. An attempt that
  stopped is not used again.
- One account. The three counters of a login are read together: they only grow
  between the readings, so a later reading refuses no less.

Start:
- The migrations apply together, as the migrator's transaction does; the
  advisory lock and an open transaction end with the session that holds them.
- A variable is absent, malformed, a development value or sound. The host of the
  database alone is computed: octets of `Byte` values and a first octet
  `LoopbackNet` stand for 256 and 127, and every short, integer, compressed and
  mapped spelling is evaluated (`ReachesLoopback`).

Pages:
- One tab; one lawyer with one window. Texts, progress and layout are left out,
  caches do not expire by themselves.
- The client's portal is the occupant of each slot, its verdict, the status and
  the session. A mutation that fails changes nothing on the page and is left
  out, except the sending of a file.
- The dialog of the message is modal: behind it no button of the page is
  clicked, while queries go on. Signing in is one step. A refused clipboard
  leaves the message uncopied, which is the state before.
- Numbers of the form are integers; `Empty` is a field left empty.

## 4. What is checked

### Passing runs

| Run | Instance | Distinct states | Question |
|---|---|---|---|
| `MCOneFile` | 1 file of 3 contents, 2 webhooks, 2 notifications, 1 removal, 1 fault | 1.2 M | do row and object agree, whatever overlaps? |
| `MCCompetingFiles` | 2 files for 1 document, webhook and sweep, jobs of 2 attempts, 1 fault | 463 k | one occupant, no healthy file lost? |
| `MCLivenessFaults` | 1 file of 3 contents, a notification that may be lost, 1 removal, 1 fault, with the journal | 329 k | does everything drain all the same, and get journalized? |
| `MCLiveness` | 2 documents, both link events, no fault and no notification | 18 k | do the sweep and the worker alone bring the deposit to its end, and validate it only when complete? |
| `MCClientAccess` | 2 links, 2 attempts, 2 requests of the lawyer, 1 session, 1 upload request, 2 guesses, clock 0..1 | 1.7 M | no guess, link, blocking or upload too many? |
| `MCLawyerLogin` | 2 logins from 2 addresses or none, 1 PIN, 1 place, 1 seat, clock 0..2, 1 failure of the store | 512 k | does the gate implement its promise, do counters bound and spare whom they should? |
| `MCStartup` | API and worker, 18 hosts, one defect at a time, 2 faults | 207 k | do concurrent and interrupted starts end in a portal that is ready? |
| `MCClientBoard` | 2 sendings for 1 or 2 slots, 1 retry, 1 session, 1 fault or reload | 879 k | does the page keep what it said and go on looking? |
| `MCLawyerDesk` | 1 request, 2 links, 2 calls, 15 forms, 1 fault | 557 k | was the secret of the working link shown, are wrong forms named? |

### Properties

| Property | Says | Could go wrong by |
|---|---|---|
| `TypeOK` (each module) | types, program counters and what belongs to whom | |
| `CleanIsStored` | a clean row's object is in the verified bucket | order of promotion and save, removal or repetition in between |
| `DepositPromised` | the pipeline implements `DepositPromise`: one upload per slot, one file per document, the verdict the content deserves, only healthy contents served, nothing healthy deleted unless withdrawn, nothing back from a deletion, no validation before each document had a clean file | any two actors that cross, any stop between two steps |
| `RemovedIsGone` | a finished removal leaves nothing in either bucket, for good | the worker promoting meanwhile; the order of the two deletions |
| `OneOccupant` | one occupant per document, and no verdict meets the unique index | competing arrivals, blind `save_state` |
| `HealthyDepositKept` | an uploaded healthy file stays, unless removed or superseded | the two sweeps that delete on old information |
| `ValidatedWasComplete` | validated implies that each document has had a clean file | verdicts, removals and link events in any order |
| `QuarantineDrains` | every object leaves the quarantine | lost notifications, exhausted jobs, crashes |
| `ReservationCloses` | no reservation stays open | the same |
| `EveryReceptionJournalized` | every recorded arrival gets into the journal | the flag read before the save |
| `ReceptionsBounded` | a reception is journalized after an upload, and at most once by each recorder there is | the same flag, repetitions, sweeps, and recorders that start again after a fault |
| `HealthyFileJudged` | without faults or notifications, a healthy file gets found clean | the sweep as the only channel |
| `CompletenessNoticed` | without faults, a finished and complete request leaves `processing` | the last verdict and the click crossing |
| `GuessesBounded` | no more than `max_pin_attempts` wrong PINs between two right ones | attempts that verify against the same counter |
| `OneActiveLink` | one working link per request | emissions and revocations that cross |
| `BlockingToldOnce` | a blocking is journalized once, of a blocked link | attempts in flight at the limit |
| `BlockingReachesRequest` | a blocked link blocks its request, or an attempt is on its way to | the one that tells is the one that blocked |
| `SessionsAccountedFor` | sessions end with their link and are all in the journal | two statements with a stop between them |
| `AccessPromised` | the access implements `AccessPromise`: a PIN counts on a link that works and in its turn, the last miss blocks at once, a dead link stays dead, one session for each right PIN and within the life of its link, tickets within the allowance, and the request closed once and for a reason | attempts that write back what they read a tenth of a second before, emissions that cross them, concurrent uploads at the limit |
| `IpOvershootBounded` (attempts, logins) | an address exceeds its budget by no more than what was in flight | read before, written after |
| `PlacesExact` | the counter of the gate is the number of places held, and nobody waits while one is free | hand-over, double release |
| `GateIsSlots` | the gate implements `EvaluationSlots` | the same, as a refinement |
| `QueuedIsServed` | who waits is served | a place that is never given back |
| `StrangerNeverRefused` | an address is refused for its own failures only | the counter of the account, which all addresses feed |
| `SuccessForgetsItsAddressOnly` | a right password clears the counter of its own address only | the same counters written by others |
| `StartsNeverCollide` | no process meets a migration of another | the migrator reads its journal outside its transaction |
| `ServingIsReady` | who serves finds schema, account with credential and buckets | deaths between two insertions or creations |
| `ProductionIsElsewhere` | a production never goes on with a database on its own host, nor two servers on one port | spellings of a loopback host |
| `EveryProcessServes` | with a sound configuration every process ends up serving | a lock that stays, a half made account |
| `RemovedStaysRemoved` | no answer shows a file again after its removal was told | readings under way when the removal is answered |
| `AwaitingIsPolled` | a slot that says it waits is polled for | two slots waiting, screens replaced |
| `AnalysisEnds` | a slot shown under analysis ends up shown with its end | a lost answer, an error that stays |
| `LinkSecretShown` | the working link is one whose message the lawyer was shown, or a fault or the lawyer lost it | two regenerations that overtake each other |
| `OnlyFaultsAreUnnamed` | the form names what is wrong with it; "try again" is for faults | bounds written in the form, the domain and the tables |

Every property of a passing run has a mutant (`PROJECT.json`): the definition
replaced by its `Bug...`, which the same run must find violated.

### Bounds

A hazard of the pipeline involves one file and at most three actors, or two
files of one document, or two documents: the instances are the smallest that
hold each of these. Two notifications and two handlers suffice for a repetition
that overlaps with the first or follows it; with the sweep there are three
recorders of one arrival. One fault reaches every place where an actor can stop;
two matter for exhausted jobs only, which `MaxAttempts = 1` reaches with one.
The delays of one tick keep all three ages apart. Its safety properties are
proved for every bound.

`MCClientAccess`: two attempts race for the last guess (`MaxPinAttempts = 2`),
two emissions or an emission and a revocation race for the link, an attempt
meets a link replaced or expired meanwhile (one tick is the life of a link). A
third attempt or link only repeats these; the proofs need none of the bounds.

`MCLawyerLogin`: one place and one seat make the gate full, with a caller that
waits and one that is refused; two logins of one address race for its budget,
two addresses keep the layers apart; three logins reach the threshold and go
past it; clock 0..2 lets counters decay and windows pass.

`MCStartup`: two faults break both processes once, or one twice; octets of four
values keep every carry of the short spellings, in 18 hosts some of which only
look like a loopback address.

`MCClientBoard`: two sendings fill two slots, or replace each other in one. One
fault or reload, with one retry, reaches both a reading that is tried again and
one that fails.

`MCLawyerDesk`: two mutations are what can overtake each other. Each form has
one field wrong, at and past each bound, empty, or past the safe integers, which
are 50000 with megabytes of 1024.

Symmetry (handlers and interchangeable files, links, sessions, attempts,
requests of the lawyer, calls) is used in runs of safety only.

**Deadlock** is checked in all pipeline runs, where the periodic pass is always
possible, in `MCLawyerLogin` and in `MCClientBoard`. It is not in
`MCClientAccess`, `MCRevokedLink`, `MCLawyerDesk`, `MCLostMessage` and
`MCStartup`: once links, calls, clock and faults are used up, or when every
process serves or is refused for its configuration, nothing is left to do.

**Fairness.** Pipeline (`Fairness`): an operation in progress goes on, unless a
fault stops it, because the event loop runs its continuations (weak fairness of
each recorder, of the scan, the pass, removals, the finishing request); time
passes (`Tick`); and the runner takes jobs in order, so neither a queued scan
nor the cron pass is passed over for ever by the other (strong fairness of
`StartScan`, `NothingToScan`, `StartPass`: each is only possible while the
worker is idle, which it is again and again). Neither the client nor the storage
owes anything: `Reserve`, `Upload`, `Deliver`, `StartRemoval`, `FinishDeposit`,
`LinkEnds` have no fairness. Login: `Resume` and `Evaluate` of each caller, the
event loop and a verification that ends. Start: `Proceed` of each process, which
includes its start after an end (`restart: unless-stopped`). Client's page:
`Poll`, `ServeBoard`, `ReceiveBoard` (a timer of the browser, an answer of the
portal) and `Judge`, which stands for `HealthyFileJudged`; nothing makes the
client look at the page or click.

### Runs that show a violation

Three statements of comments, documentation or texts on screen are not kept by
the code. Each has a run whose counterexample shows how.

| Run | What happens |
|---|---|
| `MCNoFileStuck` | A notification repeated after the verdict resets a **clean** file to `pending_scan` while its object is in the verified bucket. Every further scan fails on the quarantine, and the sweep requeues it for ever. Neither a fault nor a removal is needed. |
| `MCRevokedLink` | A link that was revoked or replaced, and has also reached its expiry, closes at the next attempt on it the request whose present link works (`deposit_session/unlock_deposit_link.ts:143` tests the expiry alone). |
| `MCLostMessage` | The dashboard reads the detail again behind the dialog; if that fails, `LawyerResource` replaces the dashboard with its dialog, and the message that exists nowhere else is gone without the warning. |

The first explains why `MCLiveness` has no notifications. For the same reason
`ValidatedWasComplete` speaks of documents that *have had* a clean file, with
the history variable `lost`.

### Divergences and limits met without a run

- Two recorders of one arrival can both believe they are the first: the
  reception is journalized twice (`scan/record_object_arrival.ts:80`).
  `ReceptionsBounded` says that this is as far as it goes: as many entries as
  recorders, and no more with time.
- A worker that stops between the save of the last verdict and the completeness
  check (`scan/scan_deposited_file.ts:162`) leaves the request in `processing`
  with all its documents clean; no sweep asks again. `MCLiveness` therefore has
  no faults.
- A removal that read its row before the verdict does not reopen the request the
  verdict validated: validated, without the file
  (`deposited_file/remove_client_file.ts:96`). One that stops after the deletion
  of the row leaves its object in the verified bucket (`:104`); the sweep only
  lists the quarantine.
- A client that disconnects during a verification frees its place at the gate
  while the hashing goes on (`auth/throttle_lawyer_login.ts:293`): more than
  four may run, although `shared/argon2_concurrency_gate.ts:1` bounds them. The
  gate itself keeps its count, which is what `PlacesExact` says.
- An attempt that blocks a link and stops before it has told the request is told
  by nobody else: `BlockingReachesRequest` has this case.
- `stop_worker` orders its closings, but the shutdown hooks of the framework
  close the pool on the same signal (`worker_main.ts:70`, `:139`).
- Seeding of the demonstration request that stops between the request and its
  link is never completed; two API processes would seed twice; a failed
  bootstrap only sets `process.exitCode`; the API enqueues into a schema that
  only the worker installs. `MINIO_PUBLIC_ENDPOINT` and `CLAMAV_ENDPOINT` are
  not screened in production.
- The client's page polls for ever for a file whose arrival never comes, and
  after a reload no more for one that is still to come
  (`frontend/src/api/client_queries.ts:36`); the form of the PIN stays disabled
  after `rate_limited` until a reload.
- A lawyer who has signed in can be sent to the login form again by the 401 a
  query still holds while it is read again, which is what
  `frontend/src/auth/lawyer_session.ts:36` avoids for the session; after a failure past the
  commit, trying again creates the request twice though the form says it was not
  created; a size past the safe integers is refused as `malformed_payload`
  rather than by the name of the field (the form itself names it first).

## 5. What is proved

Eight modules prove, with TLAPS, for every value of the constants that satisfies
the modules' assumptions. Every safety property the runs check is a theorem, and
so are the three refinements.

### `DepositPipeline_proofs` (`ConstantAssumption`, `GraceAssumption`)

| Theorem | Statement |
|---|---|
| `Invariance` | `Spec => []IInv` |
| `TypeCorrect` | `Spec => []TypeOK` |
| `CleanStored` | `Spec => []CleanIsStored` |
| `VerifiedHealthy` | `Spec => []OnlyHealthyVerified` |
| `UniqueOccupant` | `Spec => []OneOccupant` |
| `HealthyKept` | `Spec => []HealthyDepositKept` |
| `ValidatedVouched` | `Spec => []ValidatedWasComplete` |
| `RemovedGone` | `Spec => []RemovedIsGone` |
| `PipelineKeepsPromise` | `Spec => DepositPromised`, the refinement of `DepositPromise` |
| `FilesOnlyMoveForward` | `Spec => FilesMoveForward`, an action property |

The invariants are not inductive by themselves: the writes are blind, so what
makes them right is what the actor still knows when it writes. `IInv`
(`DepositInvariant`) says it, one conjunct per actor:

- `RowsTellTheTruth` relates row, content and buckets. Its heart: an open
  reservation whose object arrived has it in the quarantine, and an abandoned
  one never had nor will have one.
- `RecordersKnow`: a recorder drops the object of a file without a row only.
- `ScanKnows`: until the verdict is written, the row under scan is
  `pending_scan` or gone. Recorders may rewrite it, but only to the same status;
  so the blind save of the verdict makes nobody an occupant who was not one, and
  the index cannot object.
- `PassKnows`: no scan runs during a pass, so an object that has arrived stays
  in the quarantine while its reservation is examined; a reservation found
  lapsed was older than the ticket, so its object was there before the pass
  looked for it, or never comes. This is where `GraceAssumption` is used, and
  where it is needed: with a grace shorter than the ticket
  `HealthyDepositKept` fails.
- `RemovalKnows`: the removal empties the quarantine first, and its row is gone,
  so that the worker cannot promote the object behind its back once the
  quarantine is empty, except for the copy it has already made, which the second
  deletion takes.
- `ValidationKnows`: an actor about to validate has seen the request complete,
  and each document is still clean or in `lost`.

Each conjunct has a lemma for its preservation (`RowsTellTheTruthStep`,
`ScanKnowsStep`, ...) with a step per action that can disturb it, from the whole
of `IInv` in the state before; `InvStep` puts them together.

`DepositPromised` is `Promise!Spec`, where `Promise` is `DepositPromise` with

| In the promise | In the pipeline |
|---|---|
| `life[f]` | the status of the row; `"withdrawn"` for both deletions of a listed file |
| `kept`, `served` | objects of either bucket; objects of the verified one |
| `vouched` | documents with a clean file, or whose clean file was lost (`lost`) |
| `erased` | files whose removal is over |

The promise knows no actor, so each step of an actor is judged by what it writes:
`IInv` supplies what the actor knows at that moment. A verdict is allowed by
`ScanKnows` (the row waits for it, or is gone and the write does nothing); the
deletion of an object by `RowsTellTheTruth` and `PassKnows`; a validation by
`ValidationKnows`; a reopening because a file was withdrawn or judged not clean.
`WorkerSteps`, `RecordingSteps`, `ClientSteps`, `StatusSteps` and `InnerSteps`
do it by actor; `PromiseStep` puts them together. What the promise leaves open is
what the code leaves open: a clean file may be received again (`MCNoFileStuck`),
so `Receive` has no guard on the status.

### `DepositJournal_proofs` (also `HandlersAssumption`: webhooks are finitely many)

| Theorem | Statement |
|---|---|
| `ReceptionsStayBounded` | `JournalSpec => []ReceptionsBounded` |

The journal only looks on (`StillThePipeline`: `JournalSpec => Spec`), so `IInv`
carries over. The bound counts entries and promises together: `JournalKnown`
says that the entries of a file and its `Eager` recorders, who have read the row
as awaiting its object and not told of it yet, are at most as many as there are
recorders. A recorder only becomes eager while the row awaits its object, when
nothing has been told (so that the recorders themselves are the bound); from then
on an eager one either tells, or stops without telling, and nobody replaces it
because no row goes back to `pending_upload` (`NeverAwaitsAgain`, read off
`DepositPromise`).

### `FailureWindow_proofs`

The failures of an address are rows told apart by date and number, as the table
has them; `WindowCounts` and `OneFailureMore` say that a window that ends later
counts no more of them, and that one row more counts for one at most. No fold is
involved, so the throttles can be reasoned about.

### `ClientAccess_proofs` (`AccessAssumption`)

| Theorem | Statement |
|---|---|
| `Invariance`, `TypeCorrect` | `Spec => []IInv`, `Spec => []TypeOK` |
| `GuessesAreBounded` | `Spec => []GuessesBounded` |
| `UniqueActiveLink` | `Spec => []OneActiveLink` |
| `ToldOnce` | `Spec => []BlockingToldOnce` |
| `BlockingReaches` | `Spec => []BlockingReachesRequest` |
| `SessionsAccounted` | `Spec => []SessionsAccountedFor` |
| `AllowanceKept` | `Spec => []AllowanceBounded`: a session never takes more tickets than allowed |
| `DeadStaysDead` | `Spec => DeadLinkStaysDead`: a blocked or revoked link keeps its status |
| `AccessKeepsPromise` | `Spec => AccessPromised`, the refinement of `AccessPromise` |
| `OvershootBounded` | `Spec => []IpOvershootBounded` |

No row is locked while a PIN is verified, so the argument is what an attempt may
still believe. `CounterTellsGuesses`: the counter of the row is exactly the
number of wrong PINs recorded since the last right one, and a link that works
has one left; the compare-and-set keeps it, since a loser records nothing.
`AttemptsKnow` ties what an attempt has still to tell to where it is.
`OneTeller`: at most one attempt has blocked a link, and until it has told the
journal nobody has. `RequestOfLinks`: the request leaves `incomplete` once.
For sessions, `EventsFirst` counts the entries of the journal against the
sessions that are open *and* those an attempt is about to open, and
`SessionsWithinLink` keeps the expiry they were given. `BudgetKept` adds the
attempts that may still record a failure to those the window counts: an attempt
is let in below the budget, and from then on it is in one of the two. The bound
needs finitely many attempts and a budget of at least one (the code has 20 in
`deposit_session/client_pin_throttle_store.ts`): with no budget at all nobody
would ever be let in, and "the budget less one" would be no bound.

`AccessPromised` is `Promise!Spec`, where `Promise` is `AccessPromise` with

| In the promise | In the access |
|---|---|
| `misses[l]` | `wrong[l]`, the wrong PINs answered since the last right one |
| `admitted[c]` | the link of an attempt at `"granted"` or `"opening"` |
| `tickets`, `inside` | `uploads`, `visit` |
| the others | the variable of the same name |

In the promise a PIN is judged in one step, on a link that works at that moment.
In the code a tenth of a second passes between the reading of the row and its
writing, so the step that counts is the compare-and-set: where it writes,
`CounterTellsGuesses` says that the counter read is the present one, which makes
the write the `Miss` or the `Admit` of the promise; where it does not, nothing is
seen from outside (`Unseen`, `GuessSteps`). A request is closed by an attempt or
by the sweep long after they have seen why. What they saw still holds: an attempt
that has a blocking to tell has blocked its link (`AttemptsKnow`), and whoever
has an expiry to tell leaves behind a link that is past its end (the invariant
`ClosingKnown`), which nothing undoes (`EndedStays`). The promise
lets any such link close the request, also one that was replaced: `MCRevokedLink`
shows that the code does.

### `LawyerLogin_proofs` (`GateAssumption`, `LoginAssumption`)

| Theorem | Statement |
|---|---|
| `Invariance`, `TypeCorrect` | `Spec => []IInv`, `Spec => []TypeOK` |
| `PlacesAreExact` | `Spec => []PlacesExact` |
| `GateImplementsSlots` | `Spec => GateIsSlots`, the refinement: the initial states map to initial states, every step to a step of `EvaluationSlots` or a stutter |
| `ForgetsItsAddressOnly` | `Spec => SuccessForgetsItsAddressOnly` |
| `CountersTell` | `Spec => []CInv` |
| `StrangersKeepTheirDoor` | `Spec => []StrangerNeverRefused` |
| `OvershootBounded` | `Spec => []IpOvershootBounded` |

`PlacesExact` needs `PlacesKnow`: who waits is in the queue once and holds no
place, who holds a place is on its way to a verification or in one. Without it a
hand-over could give a second place to a caller that has one, and a release take
away the place of another. `AddressKnown` says that the counters of an address
are only written for a login that has one.

The counters have an invariant of their own, `CInv`. `MissesTell`: what can
refuse an address, its pair and its window, counts no more than what was missed
from it, the half counted login included (three statements record one failure).
The counter of the account may count anything: it only delays who is let in,
`Refused` does not read it, and that is why `StrangerNeverRefused` holds. `BudgetKept` is the same argument as for PINs.

### `Startup_proofs` (`StartupAssumption`, `OctetAssumption`, `HostsAssumption`)

| Theorem | Statement |
|---|---|
| `Invariance`, `TypeCorrect` | `Spec => []IInv`, `Spec => []TypeOK` |
| `NeverCollide` | `Spec => []StartsNeverCollide` |
| `ServingReady` | `Spec => []ServingIsReady` |
| `ElsewhereInProduction` | `Spec => []ProductionIsElsewhere` |

`EarnedByAll` says, step by step, what a process has made sure of and that no
other one takes back: schema, account, first bucket, both. `MigrationKnown`:
who is about to migrate holds the lock, so what it has read of the journal is
still true; this is why the collision cannot happen. `AccountWhole`: the two
insertions appear together.

`ElsewhereInProduction` compares two ways of reading a host. The code computes
(`parse_ipv4_host_as_integer`, `expand_ipv6_groups`, `targets_loopback_host`);
`ReachesLoopback` says which four octets or eight groups a spelling stands for.
`SpellingsAgree` shows for each of the four lengths of an IPv4 spelling, with any
number of values of an octet, that the code's sum is the number of those octets
and that none of its refusals applies; `GroupsAgree` does it for `::`; and
`LoopbackScreened` concludes that whatever reaches a loopback address is
screened. `Accepted`, an invariant of starts, says that a process only goes on
with a configuration that has no violation. `HostsAssumption` gives a host its
shape: a name, parts in any number, or groups around a `::`.

### `ClientBoard_proofs` (`BoardAssumption`, `NoBoardAssumption`)

| Theorem | Statement |
|---|---|
| `Invariance`, `TypeCorrect` | `Spec => []IInv`, `Spec => []TypeOK` |
| `RemovedStays` | `Spec => []RemovedStaysRemoved` |
| `AwaitingPolled` | `Spec => []AwaitingIsPolled` |

`RemovedStaysRemoved` needs both ends of the exchange. The portal: a removal is
carried out before it is answered (`RemovalsStand`), and who occupies a slot is
pending or clean (`OccupantsStand`), so a board served after the answer cannot
show the file. The page: the answer drops the reading under way, which may have
been served before; the query library only does so once the query has data, and
a removal is only asked from a board that is shown (`removing # {} => data #
NoBoard`). `BoardsFit` and `SlotsKnow` tie the slot of a sending to what the
board shows there, which is what `AwaitingIsPolled` needs when a slot ends.

### `LawyerDesk_proofs` (`DeskAssumption`, `FormAssumption`)

| Theorem | Statement |
|---|---|
| `Invariance`, `TypeCorrect` | `Spec => []IInv`, `Spec => []TypeOK` |
| `SecretShown` | `Spec => []LinkSecretShown` |
| `FaultsAlone` | `Spec => []OnlyFaultsAreUnnamed` |

`ScreensWait` is the heart of `SecretShown`: whoever has sent a call that is not
answered is the one its screen waits for, or the screen is gone. It holds because
a mutation that runs keeps its button disabled, so no second call takes the place
of the first. It also says that a form and a dashboard never wait at once, so a
message is shown by the screen that asked for it. `LinksIssued` remembers that a
link was issued by a call that is not a revocation; its secret is told when that
call ends, or never. `FaultsAlone` rests on the lemma `AcceptedIsStorable`, which
holds for any form and any bounds: what `parse_deposit_request_creation` accepts,
the constraints of the two tables store, since the bounds are the same and the
positions come from the order of the drafts.

### Only model-checked

- Liveness (`QuarantineDrains`, `ReservationCloses`, `HealthyFileJudged`,
  `CompletenessNoticed`, `EveryReceptionJournalized`, `QueuedIsServed`,
  `EveryProcessServes`, `AnalysisEnds`): the prover handles neither fairness nor
  `ENABLED`.
- That a mutant violates a property, and the three runs that expect a violation:
  counterexamples of TLC.

## 6. What is not modelled

- Downloads, the activity of a request, the list of requests, the sidebar:
  readings of one state. What a download relies on is `CleanIsStored`.
- Health and metrics: probes and counters that nothing else reads.
- The library behind the lawyer's sessions, apart from the login route that the
  throttler wraps; the resolution of an address from the chain of proxies; the
  redaction of client addresses: no state the rest depends on.
- The clamd protocol, the signatures of file types, presigning and keys, HTTP:
  pure input and output, abstracted to their outcome.
- Themes, layout, texts and deployment files.
- `exo1-no-ai`, an exercise on a puzzle, apart from the portal.
- `removed only while incomplete` (`domain/deposited_file.ts:190`) is not stated
  as a property: see the removals in "Divergences".

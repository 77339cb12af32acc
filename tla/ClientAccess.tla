---------------------------- MODULE ClientAccess ----------------------------
(***************************************************************************)
(* How a client gets into the deposit of one request: the access links its *)
(* lawyer issues and revokes, the attempts to unlock one with its PIN, the *)
(* sessions a right PIN opens and the uploads a session is allowed.        *)
(*                                                                         *)
(* A PIN takes a tenth of a second to verify and no row is locked while it *)
(* is: an attempt reads the link, verifies against what it read and writes *)
(* under a condition, while other attempts, emissions and revocations go   *)
(* on.  Each of its statements is a step.                                  *)
(***************************************************************************)
EXTENDS Integers, FiniteSets, FailureWindow, DepositRequestStatus

CONSTANTS
    Links,           \* the rows access_link that may come to exist
    NoLink,          \* not a link
    Sessions,        \* the rows deposit_session that may come to exist
    Attempts,        \* the unlocking requests that may be served at once
    Offices,         \* the requests of the owning lawyer served at once
    Visits,          \* the upload requests that may be served at once
    MaxPinAttempts,  \* max_pin_attempts of the security policy
    LinkLifetime,    \* link_lifetime_days, in ticks
    SessionLifetime, \* CLIENT_DEPOSIT_SESSION_LIFETIME_SECONDS, in ticks
    MaxUploads,      \* MAXIMUM_UPLOADS_PER_DEPOSIT_SESSION
    IpBudget,        \* max_failed_attempts_per_window
    IpWindow,        \* window_seconds, in ticks
    Horizon          \* bound: the clock

ASSUME AccessAssumption ==
    /\ NoLink \notin Links
    /\ IsFiniteSet(Attempts)
    /\ MaxPinAttempts \in Nat \ {0}
    /\ LinkLifetime \in Nat \ {0}
    /\ SessionLifetime \in Nat \ {0}
    /\ MaxUploads \in Nat
    /\ IpBudget \in Nat \ {0}
    /\ IpWindow \in Nat
    /\ Horizon \in Nat

VARIABLES
    now,          \* the clock of the API
    request,      \* status of the deposit request
    link,         \* link[l]: status of the row access_link, "absent" without one
    failed,       \* failed[l]: failed_pin_attempts
    expires,      \* expires[l]: expires_at
    journal,      \* journal[l]: how many events of each type name the link
                  \* (the types no property tells apart are left out)
    failures,     \* failures[t]: failures of the address that occurred at t
    opener,       \* opener[s]: access_link_id of the session, NoLink without a row
    ending,       \* ending[s]: expires_at of the session
    uploads,      \* uploads[s]: issued_upload_count
    attempt,      \* attempt[a]: where an unlocking request is
    office,       \* office[o]: where a request of the lawyer is
    visit,        \* visit[v]: the session an upload request was let in with
    expired,      \* requests the sweep has listed and not yet told
    wrong         \* history: wrong PINs recorded on l since its last right one

rows == <<link, failed, expires, wrong>>
tables == <<failures, opener, ending, uploads>>
vars == <<now, request, rows, journal, tables, attempt, office, visit, expired>>

LinkStatuses == {"absent", "active", "blocked", "revoked"}
LinkEventTypes == {"access_link_blocked", "deposit_session_opened"}

IdleAttempt == [pc |-> "idle", of |-> NoLink, at |-> 0, seen |-> 0, then |-> "idle"]
IdleOffice == [pc |-> "idle", seen |-> {}]

Init ==
    /\ now = 0
    /\ request = "incomplete"
    /\ link = [l \in Links |-> "absent"]
    /\ failed = [l \in Links |-> 0]
    /\ expires = [l \in Links |-> 0]
    /\ journal = [l \in Links |-> [e \in LinkEventTypes |-> 0]]
    /\ failures = [t \in 0..Horizon |-> 0]
    /\ opener = [s \in Sessions |-> NoLink]
    /\ ending = [s \in Sessions |-> 0]
    /\ uploads = [s \in Sessions |-> 0]
    /\ attempt = [a \in Attempts |-> IdleAttempt]
    /\ office = [o \in Offices |-> IdleOffice]
    /\ visit = [v \in Visits |-> {}]
    /\ expired = FALSE
    /\ wrong = [l \in Links |-> 0]

-----------------------------------------------------------------------------
(***************************************************************************)
(* Links and sessions, as the domain sees them.                            *)
(***************************************************************************)
ActiveLinks == {l \in Links : link[l] = "active"}

\* The expiry is exclusive.
Usable(l, at) == link[l] = "active" /\ at < expires[l]

HasExpired(l, at) == link[l] # "absent" /\ expires[l] <= at

\* What GET /public/:token answers, and what an attempt goes by.
PublicState(l, at) ==
    CASE link[l] = "blocked" -> "blocked"
      [] Usable(l, at)       -> "active"
      [] OTHER               -> "invalid"

BugSessionEnd(l, at) == at + SessionLifetime

SessionEnd(l, at) ==
    IF at + SessionLifetime <= expires[l] THEN at + SessionLifetime ELSE expires[l]

SessionUsable(s, at) ==
    /\ opener[s] # NoLink
    /\ Usable(opener[s], at)
    /\ at < ending[s]

\* Counted over a window that ends now: the store forgets nothing.
RecentFailures(at) == FailuresWithin(failures, IpWindow, at)

BugIpBudgetExhausted(at) == RecentFailures(at) > IpBudget

IpBudgetExhausted(at) == RecentFailures(at) >= IpBudget

Journalize(l, e) == journal' = [journal EXCEPT ![l][e] = @ + 1]

\* The lifecycle locks the row of the request: one step.
ApplyToRequest(e) == request' = AfterPipelineEvent(request, e)

-----------------------------------------------------------------------------
(***************************************************************************)
(* Unlocking: DepositLinkUnlockService.unlock, one step per statement.     *)
(* The instant of the attempt is read once, at the start.                  *)
(***************************************************************************)
IsAttempt(a, step) == attempt[a].pc = step
GoTo(a, step) == attempt' = [attempt EXCEPT ![a].pc = step]
Answer(a) == attempt' = [attempt EXCEPT ![a] = IdleAttempt]

\* The address is counted before anything is read of the token.
StartAttempt(a, l) ==
    /\ IsAttempt(a, "idle")
    /\ ~ IpBudgetExhausted(now)
    /\ attempt' = [attempt EXCEPT ![a] =
                     [IdleAttempt EXCEPT !.pc = "reading", !.of = l, !.at = now]]
    /\ UNCHANGED <<now, request, rows, journal, tables, office, visit, expired>>

\* An unknown token and a link that no longer works cost a failure of the
\* address; a blocked link does not.  Expiry is told to the request.
ReadLink(a) ==
    LET l == attempt[a].of
        at == attempt[a].at
        state == PublicState(l, at)
    IN  /\ IsAttempt(a, "reading")
        /\ \/ state = "blocked" /\ Answer(a)
           \/ /\ state = "active"
              /\ attempt' = [attempt EXCEPT ![a].pc = "verifying", ![a].seen = failed[l]]
           \/ /\ state = "invalid"
              /\ attempt' = [attempt EXCEPT
                               ![a].pc = "counting",
                               ![a].then = IF HasExpired(l, at) THEN "expiring" ELSE "idle"]
        /\ UNCHANGED <<now, request, rows, journal, tables, office, visit, expired>>

\* verify_client_pin: a PIN of the wrong length is a wrong PIN that is not
\* hashed.
VerifyPin(a, verdict) ==
    /\ IsAttempt(a, "verifying")
    /\ GoTo(a, verdict)
    /\ UNCHANGED <<now, request, rows, journal, tables, office, visit, expired>>

\* The Argon2 gate has no room: the answer is 503 and nothing is consumed.
GateIsFull(a) ==
    /\ IsAttempt(a, "verifying")
    /\ Answer(a)
    /\ UNCHANGED <<now, request, rows, journal, tables, office, visit, expired>>

BugNoCounter(a) == link[attempt[a].of] = "active"
BugNoStatus(a) == failed[attempt[a].of] = attempt[a].seen

\* The condition of save_attempt_outcome.
StillAsRead(a) == /\ failed[attempt[a].of] = attempt[a].seen
                  /\ link[attempt[a].of] = "active"

BugBecomesBlocked(count) == count > MaxPinAttempts

BecomesBlocked(count) == count >= MaxPinAttempts

BugLoseRace(a) ==
    /\ attempt[a].pc \in {"wrong", "right"}
    /\ ~ StillAsRead(a)
    /\ attempt' = [attempt EXCEPT
                     ![a].pc = "counting",
                     ![a].seen = 0,
                     ![a].then = IF BecomesBlocked(attempt[a].seen + 1) THEN "blocked" ELSE "idle"]
    /\ UNCHANGED <<now, request, rows, journal, tables, office, visit, expired>>

\* Somebody else came first: the attempt grants nothing and consumes nothing.
LoseRace(a) ==
    /\ attempt[a].pc \in {"wrong", "right"}
    /\ ~ StillAsRead(a)
    /\ attempt' = [attempt EXCEPT ![a].pc = "counting", ![a].seen = 0]
    /\ UNCHANGED <<now, request, rows, journal, tables, office, visit, expired>>

SaveWrongPin(a) ==
    LET l == attempt[a].of
        count == attempt[a].seen + 1
    IN  /\ IsAttempt(a, "wrong")
        /\ StillAsRead(a)
        /\ failed' = [failed EXCEPT ![l] = count]
        /\ link' = [link EXCEPT ![l] = IF BecomesBlocked(count) THEN "blocked" ELSE "active"]
        /\ wrong' = [wrong EXCEPT ![l] = @ + 1]
        /\ attempt' = [attempt EXCEPT
                         ![a].pc = "counting",
                         ![a].seen = 0,
                         ![a].then = IF BecomesBlocked(count) THEN "blocked" ELSE "idle"]
        /\ UNCHANGED <<now, request, expires, journal, tables, office, visit,
                       expired>>

SaveRightPin(a) ==
    LET l == attempt[a].of
    IN  /\ IsAttempt(a, "right")
        /\ StillAsRead(a)
        /\ failed' = [failed EXCEPT ![l] = 0]
        /\ link' = [link EXCEPT ![l] = "active"]
        /\ wrong' = [wrong EXCEPT ![l] = 0]
        /\ attempt' = [attempt EXCEPT ![a].pc = "granted", ![a].seen = 0]
        /\ UNCHANGED <<now, request, expires, journal, tables, office, visit,
                       expired>>

\* One failure of the address, dated of the start of the attempt.
CountFailure(a) ==
    /\ IsAttempt(a, "counting")
    /\ failures' = [failures EXCEPT ![attempt[a].at] = @ + 1]
    /\ IF attempt[a].then = "idle" THEN Answer(a) ELSE GoTo(a, attempt[a].then)
    /\ UNCHANGED <<now, request, rows, journal, opener, ending, uploads, office,
                   visit, expired>>

TellExpiry(a) ==
    /\ IsAttempt(a, "expiring")
    /\ ApplyToRequest("access_link_expired")
    /\ Answer(a)
    /\ UNCHANGED <<now, rows, journal, tables, office, visit, expired>>

BugJournalizeBlocking(a) ==
    /\ IsAttempt(a, "blocked")
    /\ Journalize(attempt[a].of, "access_link_blocked")
    /\ Answer(a)
    /\ UNCHANGED <<now, request, rows, tables, office, visit, expired>>

\* Only the attempt that blocks the link tells it.
JournalizeBlocking(a) ==
    /\ IsAttempt(a, "blocked")
    /\ Journalize(attempt[a].of, "access_link_blocked")
    /\ GoTo(a, "blocking")
    /\ UNCHANGED <<now, request, rows, tables, office, visit, expired>>

TellBlocking(a) ==
    /\ IsAttempt(a, "blocking")
    /\ ApplyToRequest("access_link_blocked")
    /\ Answer(a)
    /\ UNCHANGED <<now, rows, journal, tables, office, visit, expired>>

JournalizeOpening(a) ==
    /\ IsAttempt(a, "granted")
    /\ Journalize(attempt[a].of, "deposit_session_opened")
    /\ GoTo(a, "opening")
    /\ UNCHANGED <<now, request, rows, tables, office, visit, expired>>

OpenSession(a, s) ==
    /\ IsAttempt(a, "opening")
    /\ opener[s] = NoLink
    /\ opener' = [opener EXCEPT ![s] = attempt[a].of]
    /\ ending' = [ending EXCEPT ![s] = SessionEnd(attempt[a].of, attempt[a].at)]
    /\ Answer(a)
    /\ UNCHANGED <<now, request, rows, journal, failures, uploads, office, visit,
                   expired>>

Unlocking ==
    \E a \in Attempts :
        \/ \E l \in Links : StartAttempt(a, l)
        \/ ReadLink(a)
        \/ \E verdict \in {"wrong", "right"} : VerifyPin(a, verdict)
        \/ GateIsFull(a) \/ LoseRace(a)
        \/ SaveWrongPin(a) \/ SaveRightPin(a)
        \/ CountFailure(a) \/ TellExpiry(a)
        \/ JournalizeBlocking(a) \/ TellBlocking(a) \/ JournalizeOpening(a)
        \/ \E s \in Sessions : OpenSession(a, s)

-----------------------------------------------------------------------------
(***************************************************************************)
(* The lawyer: a new link takes the place of the current one.              *)
(***************************************************************************)
IsOffice(o, step) == office[o].pc = step

\* Once ownership is read, the secrets drawn and the PIN hashed, a transaction
\* begins: its UPDATE sees the links that are active at that instant.
BeginEmission(o) ==
    /\ IsOffice(o, "idle")
    /\ office' = [office EXCEPT ![o] = [pc |-> "emitting", seen |-> ActiveLinks]]
    /\ UNCHANGED <<now, request, rows, journal, tables, attempt, visit, expired>>

BugIndexRefuses(o) == FALSE

\* access_link_one_active_per_request_idx: what the transaction did not see
\* and so did not revoke stands in its way.
IndexRefuses(o) == ActiveLinks \ office[o].seen # {}

\* The transaction fails as a whole, the link it meant to replace still works.
FailEmission(o) ==
    /\ IsOffice(o, "emitting")
    /\ IndexRefuses(o)
    /\ office' = [office EXCEPT ![o] = IdleOffice]
    /\ UNCHANGED <<now, request, rows, journal, tables, attempt, visit, expired>>

\* A link that has been blocked or revoked meanwhile is left as it is.
EmitLink(o, l) ==
    /\ IsOffice(o, "emitting")
    /\ ~ IndexRefuses(o)
    /\ link[l] = "absent"
    /\ link' = [k \in Links |-> IF k = l THEN "active"
                                ELSE IF k \in office[o].seen \cap ActiveLinks THEN "revoked"
                                ELSE link[k]]
    /\ expires' = [expires EXCEPT ![l] = now + LinkLifetime]
    /\ office' = [office EXCEPT ![o] = IdleOffice]
    /\ UNCHANGED <<now, request, failed, wrong, journal, tables, attempt, visit,
                   expired>>

\* One conditional UPDATE; without an active link the answer is 404.
RevokeLink(o, l) ==
    /\ IsOffice(o, "idle")
    /\ link[l] = "active"
    /\ link' = [link EXCEPT ![l] = "revoked"]
    /\ UNCHANGED <<now, request, failed, expires, wrong, journal, tables, attempt,
                   office, visit, expired>>

Lawyering ==
    \E o \in Offices :
        \/ BeginEmission(o) \/ FailEmission(o)
        \/ \E l \in Links : EmitLink(o, l) \/ RevokeLink(o, l)

-----------------------------------------------------------------------------
(***************************************************************************)
(* The sessions: ClientDepositSessionGuard, then the handler.              *)
(***************************************************************************)
\* The cookie names the session, the URL the link it must belong to.
EnterDeposit(v, s, l) ==
    /\ visit[v] = {}
    /\ SessionUsable(s, now)
    /\ opener[s] = l
    /\ visit' = [visit EXCEPT ![v] = {s}]
    /\ UNCHANGED <<now, request, rows, journal, tables, attempt, office, expired>>

BugAllowanceLeft(s) == uploads[s] <= MaxUploads

AllowanceLeft(s) == uploads[s] < MaxUploads

\* consume_upload_allowance is one conditional UPDATE; the guard is not
\* consulted again.
AuthorizeUpload(v, s) ==
    /\ s \in visit[v]
    /\ AllowanceLeft(s)
    /\ uploads' = [uploads EXCEPT ![s] = @ + 1]
    /\ visit' = [visit EXCEPT ![v] = {}]
    /\ UNCHANGED <<now, request, rows, journal, failures, opener, ending, attempt,
                   office, expired>>

Depositing ==
    \E v \in Visits, s \in Sessions :
        \/ \E l \in Links : EnterDeposit(v, s, l)
        \/ AuthorizeUpload(v, s)

-----------------------------------------------------------------------------
(***************************************************************************)
(* The sweep of expired links, time and faults.                            *)
(***************************************************************************)
\* list_incomplete_with_expired_link
ListExpired ==
    /\ ~ expired
    /\ request = "incomplete"
    /\ \E l \in ActiveLinks : HasExpired(l, now)
    /\ expired' = TRUE
    /\ UNCHANGED <<now, request, rows, journal, tables, attempt, office, visit>>

\* close_requests_with_expired_link tells those it has listed.
TellListed ==
    /\ expired
    /\ ApplyToRequest("access_link_expired")
    /\ expired' = FALSE
    /\ UNCHANGED <<now, rows, journal, tables, attempt, office, visit>>

\* An exception, a lost connection or a restart between two statements of an
\* attempt.  One that has written nothing yet leaves no more trace by stopping
\* than by being refused by the gate, a transaction no more than by failing.
\* Bound: its slot is not used again.
StopHalfWay ==
    /\ \E a \in Attempts : /\ attempt[a].pc \in {"blocked", "blocking", "granted", "opening"}
                           /\ attempt' = [attempt EXCEPT ![a] = [IdleAttempt EXCEPT !.pc = "stopped"]]
    /\ UNCHANGED <<now, request, rows, journal, tables, office, visit, expired>>

\* A transaction is short: the clock does not tick inside one.
Tick ==
    /\ now < Horizon
    /\ \A o \in Offices : IsOffice(o, "idle")
    /\ now' = now + 1
    /\ UNCHANGED <<request, rows, journal, tables, attempt, office, visit, expired>>

Next == Unlocking \/ Lawyering \/ Depositing \/ ListExpired \/ TellListed
            \/ StopHalfWay \/ Tick

Spec == Init /\ [][Next]_vars

-----------------------------------------------------------------------------
(***************************************************************************)
(* Properties.                                                             *)
(***************************************************************************)
AttemptSteps == {"idle", "reading", "verifying", "wrong", "right", "counting",
                 "expiring", "blocked", "blocking", "granted", "opening", "stopped"}
AttemptRecords == [pc : AttemptSteps, of : Links \cup {NoLink}, at : 0..Horizon,
                   seen : 0..MaxPinAttempts, then : AttemptSteps]
OfficeSteps == {"idle", "emitting"}

\* The rows keep their schema and every request is at one of its statements.
TypeOK ==
    /\ now \in 0..Horizon
    /\ request \in RequestStatuses
    /\ link \in [Links -> LinkStatuses]
    /\ failed \in [Links -> 0..MaxPinAttempts]
    /\ expires \in [Links -> Nat]
    /\ wrong \in [Links -> Nat]
    /\ journal \in [Links -> [LinkEventTypes -> Nat]]
    /\ failures \in [0..Horizon -> Nat]
    /\ opener \in [Sessions -> Links \cup {NoLink}]
    /\ ending \in [Sessions -> Nat]
    /\ uploads \in [Sessions -> Nat]
    /\ attempt \in [Attempts -> AttemptRecords]
    /\ office \in [Offices -> [pc : OfficeSteps, seen : SUBSET Links]]
    /\ visit \in [Visits -> SUBSET Sessions]
    /\ expired \in BOOLEAN

\* However many attempts verify against the same row at once, no more than
\* max_pin_attempts wrong PINs are answered between two right ones
\* (save_attempt_outcome).
GuessesBounded == \A l \in Links : wrong[l] <= MaxPinAttempts

\* A client never holds two working links to one request, whatever emissions
\* and revocations cross (access_link_one_active_per_request_idx).
OneActiveLink == \A k, l \in ActiveLinks : k = l

\* Attempts in flight when a link is blocked do not tell the blocking again:
\* the journal shows it once, and only of a link that is blocked.
BlockingToldOnce ==
    \A l \in Links : /\ journal[l]["access_link_blocked"] <= 1
                     /\ journal[l]["access_link_blocked"] = 1 => link[l] = "blocked"

\* A session never outlives its link, and the journal shows every session that
\* was opened, even if the request stopped half way (deposit_session_opened is
\* written first).
SessionsAccountedFor ==
    /\ \A s \in Sessions : opener[s] # NoLink => ending[s] <= expires[opener[s]]
    /\ \A l \in Links :
         Cardinality({s \in Sessions : opener[s] = l}) <= journal[l]["deposit_session_opened"]

\* Uploads of one session that run at once never take more tickets than the
\* session is allowed (consume_upload_allowance).
AllowanceBounded == \A s \in Sessions : uploads[s] <= MaxUploads

\* Attempts count their failure after they have been let in: an address may
\* exceed its budget, but only by the attempts that were in flight.
IpOvershootBounded ==
    RecentFailures(now) <= IpBudget - 1 + Cardinality(Attempts)

\* The attempt writes back the status it has read: it never brings a blocked
\* or revoked link to life again.
DeadLinkStaysDead ==
    [][\A l \in Links : link[l] \in {"blocked", "revoked"} => link'[l] = link[l]]_link

\* A link that has blocked has its request blocked, or an attempt is on its way
\* to tell it, unless that attempt stopped half way (link_just_became_blocked:
\* nobody else ever tells it).
BlockingReachesRequest ==
    \A l \in Links : link[l] = "blocked" =>
        \/ request \in {"blocked", "expired_incomplete"}
        \/ \E a \in Attempts : attempt[a].pc = "stopped"
        \/ \E a \in Attempts : attempt[a].of = l /\ attempt[a].then = "blocked"

\* The link whose PIN an attempt knew, until its session is open.
AdmittedTo == [a \in Attempts |-> IF attempt[a].pc \in {"granted", "opening"}
                                  THEN attempt[a].of ELSE NoLink]

Promise == INSTANCE AccessPromise
    WITH Clients <- Attempts, misses <- wrong, admitted <- AdmittedTo,
         tickets <- uploads, inside <- visit

\* Verifying a PIN takes time and locks nothing, and yet every guess counts as if
\* it were made alone: on a link that works, in its turn, the last one blocks.
\* One session for each right PIN, within the life of its link; and the request
\* is closed only for what happened to one of its links (unlock,
\* save_attempt_outcome, issue_link_replacing_current, ClientDepositSessionGuard).
AccessPromised == Promise!Spec

\* Only expiry has a lifecycle event, a revocation never has one
\* (unlock_deposit_link.ts): an attempt that finds its link revoked does not go
\* on to close a request whose present link works.
RevokedLinkClosesNothing ==
    [][\A a \in Attempts :
         /\ IsAttempt(a, "reading") /\ link[attempt[a].of] = "revoked"
         /\ request = "incomplete"
         /\ \E l \in Links : Usable(l, now)
         => attempt'[a].then # "expiring"]_vars
=============================================================================

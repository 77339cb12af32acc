---------------------------- MODULE LawyerLogin ----------------------------
(***************************************************************************)
(* A login of a lawyer: the counters of failures that may refuse it, the   *)
(* place it takes at the gate, the verification of the password, and the   *)
(* counters again before the answer leaves.                                *)
(*                                                                         *)
(* One account, several addresses.  Every statement on the counters is a   *)
(* step: concurrent logins read them before any of them writes.  PIN       *)
(* verifications share the gate.                                           *)
(***************************************************************************)
EXTENDS Argon2Gate, FailureWindow

CONSTANTS
    Logins,          \* the login requests that may be served at once
    Pins,            \* the PIN verifications that may be served at once
    Addresses,       \* the addresses of clients
    NoAddress,       \* client_ip is null: no usable address
    Threshold,       \* attempts_before_backoff
    MaxDelay,        \* max_delay_seconds, in ticks
    Decay,           \* LOGIN_FAILURE_DECAY_SECONDS, in ticks
    IpBudget,        \* max_failed_attempts_per_window
    IpWindow,        \* window_seconds, in ticks
    Horizon,         \* bound: the clock
    MaxLogins,       \* bound: logins tried
    MaxStoreErrors   \* bound: failures of the store of counters

ASSUME LoginAssumption ==
    /\ Callers = Logins \cup Pins
    /\ Logins \cap Pins = {}
    /\ IsFiniteSet(Logins)
    /\ NoAddress \notin Addresses
    /\ Threshold \in Nat \ {0}
    /\ MaxDelay \in Nat \ {0}
    /\ Decay \in Nat
    /\ IpBudget \in Nat \ {0}
    /\ IpWindow \in Nat
    /\ Horizon \in Nat
    /\ MaxLogins \in Nat
    /\ MaxStoreErrors \in Nat

VARIABLES
    now,        \* the clock of the API
    step,       \* step[c]: where the request is
    address,    \* address[r]: client_ip of the login
    gone,       \* gone[r]: the client has closed the connection
    account,    \* row lawyer_login_failure_by_account
    pair,       \* pair[i]: row lawyer_login_failure_by_account_and_ip
    failures,   \* failures[i][t]: rows authentication_failure_by_ip dated t
    logins,     \* bound: logins tried
    errors,     \* bound: failures of the store
    misses      \* history: failures and refused probes of each address

counters == <<account, pair, failures>>
history == <<logins, errors, misses>>
vars == <<gate, now, step, address, gone, counters, history>>

\* A counter without a row has never failed.
NoFailure == [count |-> 0, last |-> 0]

Init ==
    /\ GateInit
    /\ now = 0
    /\ step = [c \in Callers |-> "idle"]
    /\ address = [r \in Logins |-> NoAddress]
    /\ gone = [r \in Logins |-> "no"]
    /\ account = NoFailure
    /\ pair = [i \in Addresses |-> NoFailure]
    /\ failures = [i \in Addresses |-> [t \in 0..Horizon |-> 0]]
    /\ logins = 0
    /\ errors = 0
    /\ misses = [i \in Addresses |-> 0]

-----------------------------------------------------------------------------
(***************************************************************************)
(* login_throttling.ts: delays and refusals.                               *)
(***************************************************************************)
Smaller(m, n) == IF m <= n THEN m ELSE n

\* compute_login_backoff_delay_seconds
Backoff(count) ==
    IF count < Threshold THEN 0 ELSE Smaller(2 ^ (count - Threshold), MaxDelay)

Decayed(counter, at) == IF at - counter.last >= Decay THEN 0 ELSE counter.count

\* remaining_backoff_seconds is positive.
MustWait(counter, at) == Backoff(Decayed(counter, at)) > at - counter.last

\* next_decayed_attempt_count: a counter starts again once it has decayed.
OneMore(counter, at) ==
    [count |-> IF counter = NoFailure \/ at - counter.last >= Decay
               THEN 1 ELSE counter.count + 1,
     last  |-> at]

\* count_failed_attempts_within_window
RecentFailures(i, at) == FailuresWithin(failures[i], IpWindow, at)

BugWindowExhausted(i, at) == RecentFailures(i, at) > IpBudget

WindowExhausted(i, at) == RecentFailures(i, at) >= IpBudget

-----------------------------------------------------------------------------
(***************************************************************************)
(* One login, from the counters to the answer.                             *)
(***************************************************************************)
IsAt(c, s) == step[c] = s
GoTo(c, s) == step' = [step EXCEPT ![c] = s]

BugRefused(i) == MustWait(account, now) \/ WindowExhausted(i, now)

\* read_state and decide_login_throttle.  The account itself is never refused,
\* only delayed, and the delay is a wait before the gate.  A refusal rests on
\* one of the rows that are read, and rows only grow during a window: reading
\* them one after the other has no outcome that reading them at once has not.
Refused(i) == MustWait(pair[i], now) \/ WindowExhausted(i, now)

StartLogin(r, i) ==
    /\ IsAt(r, "idle")
    /\ logins < MaxLogins
    /\ logins' = logins + 1
    /\ address' = [address EXCEPT ![r] = i]
    /\ GoTo(r, IF i # NoAddress /\ Refused(i) THEN "probing" ELSE "entering")
    /\ UNCHANGED <<gate, now, gone, counters, errors, misses>>

\* record_refused_probe: only the counter of the pair, then 429.
RecordProbe(r) ==
    LET i == address[r] IN
    /\ IsAt(r, "probing")
    /\ pair' = [pair EXCEPT ![i] = OneMore(@, now)]
    /\ misses' = [misses EXCEPT ![i] = @ + 1]
    /\ GoTo(r, "idle")
    /\ UNCHANGED <<gate, now, address, gone, account, failures, logins, errors>>

\* The next login of the same name is of a client that is there.
BackAgain(c) == [r \in Logins |-> IF r = c THEN "no" ELSE gone[r]]

Unthrottled == UNCHANGED <<now, address, counters, history>>

EnterGate(c) ==
    /\ \/ c \in Logins /\ IsAt(c, "entering")
       \/ c \in Pins /\ IsAt(c, "idle")
    /\ \/ Admit(c) /\ GoTo(c, "evaluating")
       \/ Enqueue(c) /\ GoTo(c, "queued")
       \/ QueueFull /\ GoTo(c, "idle") /\ UNCHANGED gate
    /\ gone' = IF QueueFull THEN BackAgain(c) ELSE gone
    /\ Unthrottled

\* The promise of a queued caller is resolved by the one who leaves.
Resume(c) ==
    /\ IsAt(c, "queued")
    /\ c \in holding
    /\ GoTo(c, "evaluating")
    /\ UNCHANGED <<gate, gone>>
    /\ Unthrottled

\* The client closes the connection.  The release hangs on that event only from
\* the admission on: then the place is given back at once and the verification
\* goes on.  During the delay, or in the queue, nobody listens to the event and
\* it does not come twice.
LeaveUnheard(r) ==
    /\ step[r] \in {"entering", "queued"}
    /\ gone' = [gone EXCEPT ![r] = "unheard"]
    /\ UNCHANGED gate

BugLeaveHeard(r) ==
    /\ IsAt(r, "evaluating")
    /\ gone' = [gone EXCEPT ![r] = "heard"]
    /\ UNCHANGED gate

LeaveHeard(r) ==
    /\ IsAt(r, "evaluating")
    /\ gone' = [gone EXCEPT ![r] = "heard"]
    /\ Release(r)

Disconnect(r) ==
    /\ gone[r] = "no"
    /\ LeaveUnheard(r) \/ LeaveHeard(r)
    /\ UNCHANGED step
    /\ Unthrottled

\* BetterAuth does not end a response its client has closed: neither the place
\* nor a counter hears of it.  A place that was not given back before is lost.
GoUnanswered(r) ==
    /\ r \in Logins
    /\ gone[r] # "no"
    /\ IsAt(r, "evaluating")
    /\ IF r \in holding THEN GoTo(r, "stranded") /\ UNCHANGED gone
                        ELSE GoTo(r, "idle") /\ gone' = BackAgain(r)
    /\ UNCHANGED gate
    /\ Unthrottled

\* end_response_only_after: the place first, then the counters, then the answer.
FinishLogin(r, verdict) ==
    /\ r \in Logins
    /\ IsAt(r, "evaluating")
    /\ Release(r)
    /\ GoTo(r, IF verdict = "right" THEN "forget account" ELSE "count account")
    /\ gone' = BackAgain(r)
    /\ Unthrottled

\* ConcurrencyBoundedPinHasher releases in a finally.
FinishPin(p) ==
    /\ p \in Pins
    /\ IsAt(p, "evaluating")
    /\ Release(p)
    /\ GoTo(p, "idle")
    /\ UNCHANGED gone
    /\ Unthrottled

-----------------------------------------------------------------------------
(***************************************************************************)
(* The counters after the verdict: forget_account_failures and             *)
(* record_failed_attempt, one statement at a time.                         *)
(***************************************************************************)
ForgetAccount(r) ==
    /\ IsAt(r, "forget account")
    /\ account' = NoFailure
    /\ GoTo(r, IF address[r] = NoAddress THEN "idle" ELSE "forget pair")
    /\ UNCHANGED <<gate, now, address, gone, pair, failures, history>>

BugForgetPair(r) ==
    /\ IsAt(r, "forget pair")
    /\ pair' = [i \in Addresses |-> NoFailure]
    /\ GoTo(r, "idle")
    /\ UNCHANGED <<gate, now, address, gone, account, failures, history>>

ForgetPair(r) ==
    /\ IsAt(r, "forget pair")
    /\ pair' = [pair EXCEPT ![address[r]] = NoFailure]
    /\ GoTo(r, "idle")
    /\ UNCHANGED <<gate, now, address, gone, account, failures, history>>

CountAccount(r) ==
    /\ IsAt(r, "count account")
    /\ account' = OneMore(account, now)
    /\ GoTo(r, IF address[r] = NoAddress THEN "idle" ELSE "count pair")
    /\ UNCHANGED <<gate, now, address, gone, pair, failures, history>>

CountPair(r) ==
    LET i == address[r] IN
    /\ IsAt(r, "count pair")
    /\ pair' = [pair EXCEPT ![i] = OneMore(@, now)]
    /\ misses' = [misses EXCEPT ![i] = @ + 1]
    /\ GoTo(r, "count address")
    /\ UNCHANGED <<gate, now, address, gone, account, failures, logins, errors>>

CountAddress(r) ==
    /\ IsAt(r, "count address")
    /\ failures' = [failures EXCEPT ![address[r]][now] = @ + 1]
    /\ GoTo(r, "idle")
    /\ UNCHANGED <<gate, now, address, gone, account, pair, history>>

Writing == {"probing", "forget account", "forget pair", "count account",
            "count pair", "count address"}

\* A write that fails ends the attempt: a failed probe is an error answer, the
\* other failures are logged and the answer leaves without their write.
StoreFails(r) ==
    /\ step[r] \in Writing
    /\ errors < MaxStoreErrors
    /\ errors' = errors + 1
    /\ GoTo(r, "idle")
    /\ UNCHANGED <<gate, now, address, gone, counters, logins, misses>>

Tick ==
    /\ now < Horizon
    /\ now' = now + 1
    /\ UNCHANGED <<gate, step, address, gone, counters, history>>

Record(r) ==
    \/ RecordProbe(r) \/ ForgetAccount(r) \/ ForgetPair(r)
    \/ CountAccount(r) \/ CountPair(r) \/ CountAddress(r) \/ StoreFails(r)

Evaluate(c) ==
    \/ FinishPin(c) \/ GoUnanswered(c)
    \/ \E verdict \in {"right", "wrong"} : FinishLogin(c, verdict)

Next ==
    \/ \E r \in Logins : \/ \E i \in Addresses \cup {NoAddress} : StartLogin(r, i)
                         \/ Record(r) \/ Disconnect(r)
    \/ \E c \in Callers : EnterGate(c) \/ Resume(c) \/ Evaluate(c)
    \/ Tick

Spec == Init /\ [][Next]_vars

\* The event loop resumes what is ready and a verification ends: nothing in
\* the process keeps either from happening.
Fairness == \A c \in Callers : WF_vars(Resume(c)) /\ WF_vars(Evaluate(c))

FairSpec == Spec /\ Fairness

-----------------------------------------------------------------------------
(***************************************************************************)
(* Properties.                                                             *)
(***************************************************************************)
Steps == {"idle", "entering", "queued", "evaluating", "stranded"} \cup Writing
Counter == [count : Nat, last : Nat]

\* Counters, places and requests keep their shape.
TypeOK ==
    /\ inFlight \in 0..Places
    /\ queue \in Seq(Callers)
    /\ Len(queue) <= QueueRoom
    /\ holding \subseteq Callers
    /\ now \in 0..Horizon
    /\ step \in [Callers -> Steps]
    /\ address \in [Logins -> Addresses \cup {NoAddress}]
    /\ gone \in [Logins -> {"no", "unheard", "heard"}]
    /\ account \in Counter
    /\ pair \in [Addresses -> Counter]
    /\ failures \in [Addresses -> [0..Horizon -> Nat]]
    /\ logins \in 0..MaxLogins
    /\ errors \in 0..MaxStoreErrors
    /\ misses \in [Addresses -> Nat]

\* However many failures other addresses pile up on the account, an address is
\* refused only for what it has itself missed: nobody closes the door of the
\* lawyer from elsewhere (decide_login_throttle).
StrangerNeverRefused ==
    \A r \in Logins : IsAt(r, "probing") =>
        misses[address[r]] >= Smaller(Threshold, IpBudget)

\* Logins that read the counters before the failures of the others are written
\* go over the budget of their address, by no more than their number.
IpOvershootBounded ==
    \A i \in Addresses : RecentFailures(i, now) <= IpBudget - 1 + Cardinality(Logins)

\* A right password opens again the door of its own address, and of no other:
\* who guesses from elsewhere stays where his failures have put him.
SuccessForgetsItsAddressOnly ==
    [][\A i \in Addresses : pair[i] # NoFailure /\ pair'[i] = NoFailure
         => \E r \in Logins : address[r] = i /\ IsAt(r, "forget pair")]_vars

\* The places that nobody gives back any more: their client has left before the
\* admission, when nothing listened to it.
LostPlaces == {r \in holding \cap Logins : gone[r] = "unheard" /\ IsAt(r, "stranded")}

\* A caller in the queue is served, places being handed over in order of arrival,
\* as long as one place is left that was not lost to a client gone too early: who
\* leaves during its verification loses nobody's place.
QueuedIsServed ==
    \A c \in Callers :
        IsAt(c, "queued") ~> \/ ~ IsAt(c, "queued")
                            \/ Cardinality(LostPlaces) = Places
=============================================================================

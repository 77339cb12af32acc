----------------------------- MODULE Argon2Gate -----------------------------
(***************************************************************************)
(* The gate every Argon2 verification of the process goes through, logins  *)
(* and PINs alike: a counter of places taken and a bounded queue, served   *)
(* in order of arrival.  It knows no caller: an admission carries its own  *)
(* release, which gives its place back once however often it is called.    *)
(*                                                                         *)
(* JavaScript runs each of these operations without interruption.          *)
(***************************************************************************)
EXTENDS Integers, FiniteSets, Sequences

CONSTANTS
    Callers,    \* the requests that may want an evaluation at once
    Places,     \* maximum_concurrent_evaluations
    QueueRoom   \* maximum_queued_evaluations

ASSUME GateAssumption == Places \in Nat \ {0} /\ QueueRoom \in Nat

VARIABLES
    inFlight,   \* evaluations_in_flight
    queue,      \* waiting_admissions
    holding     \* callers whose admission has not been released

gate == <<inFlight, queue, holding>>

GateInit == inFlight = 0 /\ queue = <<>> /\ holding = {}

\* enter() has three answers.
Admit(c) ==
    /\ inFlight < Places
    /\ inFlight' = inFlight + 1
    /\ holding' = holding \cup {c}
    /\ UNCHANGED queue

BugEnqueue(c) ==
    /\ inFlight >= Places
    /\ Len(queue) <= QueueRoom
    /\ queue' = Append(queue, c)
    /\ UNCHANGED <<inFlight, holding>>

Enqueue(c) ==
    /\ inFlight >= Places
    /\ Len(queue) < QueueRoom
    /\ queue' = Append(queue, c)
    /\ UNCHANGED <<inFlight, holding>>

QueueFull == inFlight >= Places /\ Len(queue) >= QueueRoom

BugHandOverOrFree(c) ==
    /\ inFlight' = inFlight - 1
    /\ holding' = holding \ {c}
    /\ UNCHANGED queue

\* hand_over_or_free_one_place: a place that is handed over changes hands, the
\* counter does not move.
HandOverOrFree(c) ==
    \/ /\ queue = <<>>
       /\ inFlight' = inFlight - 1
       /\ holding' = holding \ {c}
       /\ UNCHANGED queue
    \/ /\ queue # <<>>
       /\ queue' = Tail(queue)
       /\ holding' = (holding \ {c}) \cup {Head(queue)}
       /\ UNCHANGED inFlight

BugRelease(c) == HandOverOrFree(c)

\* A second release does nothing.
Release(c) == IF c \in holding THEN HandOverOrFree(c) ELSE UNCHANGED gate

Waiting == {queue[i] : i \in 1..Len(queue)}

-----------------------------------------------------------------------------
(***************************************************************************)
(* Properties.                                                             *)
(***************************************************************************)
\* The counter tells exactly the places that are held, within the ceiling, and
\* nobody waits while a place is free: no release is lost or counted twice,
\* whichever of the end of the response and of its closing comes first.
PlacesExact ==
    /\ inFlight = Cardinality(holding)
    /\ inFlight <= Places
    /\ queue # <<>> => inFlight = Places

Slots == INSTANCE EvaluationSlots WITH holders <- holding, waiting <- Waiting

\* The counter and the queue implement the abstract gate.
GateIsSlots == Slots!Spec
=============================================================================

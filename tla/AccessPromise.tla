--------------------------- MODULE AccessPromise ---------------------------
(***************************************************************************)
(* What the access to one deposit promises, as if the verification of a    *)
(* PIN took no time and every request were served alone: no counter read   *)
(* before it is written, no transaction that crosses another, no journal,  *)
(* no sweep.                                                               *)
(***************************************************************************)
EXTENDS Integers

CONSTANTS Links, NoLink, Sessions, Clients, Visits, MaxPinAttempts, LinkLifetime, MaxUploads

VARIABLES
    now,
    request,   \* status of the request the links lead to
    link,      \* link[l]: "absent", "active", "blocked" or "revoked"
    misses,    \* misses[l]: wrong PINs since the last right one
    expires,   \* expires[l]: when the link ends
    admitted,  \* admitted[c]: link whose PIN the client c knew, until it is in
    opener,    \* opener[s]: link the session was opened with
    ending,    \* ending[s]: when the session ends
    tickets,   \* tickets[s]: upload tickets of the session
    inside     \* inside[v]: session an upload was let in with

access == <<link, misses, expires>>
sessions == <<opener, ending, tickets>>
promised == <<now, request, access, admitted, sessions, inside>>

Init ==
    /\ now = 0 /\ request = "incomplete"
    /\ link = [l \in Links |-> "absent"]
    /\ misses = [l \in Links |-> 0] /\ expires = [l \in Links |-> 0]
    /\ admitted = [c \in Clients |-> NoLink]
    /\ opener = [s \in Sessions |-> NoLink]
    /\ ending = [s \in Sessions |-> 0] /\ tickets = [s \in Sessions |-> 0]
    /\ inside = [v \in Visits |-> {}]

-----------------------------------------------------------------------------
\* A new link takes the place of the one that works.
Issue(l) ==
    /\ link[l] = "absent"
    /\ link' = [k \in Links |-> IF k = l THEN "active"
                                ELSE IF link[k] = "active" THEN "revoked" ELSE link[k]]
    /\ expires' = [expires EXCEPT ![l] = now + LinkLifetime]
    /\ UNCHANGED <<now, request, misses, admitted, sessions, inside>>

Revoke(l) ==
    /\ link[l] = "active" /\ link' = [link EXCEPT ![l] = "revoked"]
    /\ UNCHANGED <<now, request, misses, expires, admitted, sessions, inside>>

\* The last wrong PIN allowed blocks the link, at once.
Miss(l) ==
    /\ link[l] = "active" /\ misses[l] < MaxPinAttempts
    /\ misses' = [misses EXCEPT ![l] = @ + 1]
    /\ link' = [link EXCEPT ![l] = IF misses[l] + 1 = MaxPinAttempts THEN "blocked" ELSE @]
    /\ UNCHANGED <<now, request, expires, admitted, sessions, inside>>

Admit(c, l) ==
    /\ link[l] = "active" /\ misses[l] < MaxPinAttempts /\ admitted[c] = NoLink
    /\ misses' = [misses EXCEPT ![l] = 0]
    /\ admitted' = [admitted EXCEPT ![c] = l]
    /\ UNCHANGED <<now, request, link, expires, sessions, inside>>

\* One session for each right PIN, that ends with its link at the latest.
Open(c, s) ==
    /\ admitted[c] # NoLink /\ opener[s] = NoLink
    /\ opener' = [opener EXCEPT ![s] = admitted[c]]
    /\ \E end \in 0..expires[admitted[c]] : ending' = [ending EXCEPT ![s] = end]
    /\ admitted' = [admitted EXCEPT ![c] = NoLink]
    /\ UNCHANGED <<now, request, access, tickets, inside>>

GiveUp(c) ==
    /\ admitted' = [admitted EXCEPT ![c] = NoLink]
    /\ UNCHANGED <<now, request, access, sessions, inside>>

\* Who enters has a session that has not ended, of a link that works.
Enter(v, s) ==
    /\ inside[v] = {} /\ opener[s] # NoLink
    /\ link[opener[s]] = "active" /\ now < expires[opener[s]] /\ now < ending[s]
    /\ inside' = [inside EXCEPT ![v] = {s}]
    /\ UNCHANGED <<now, request, access, admitted, sessions>>

TakeTicket(v, s) ==
    /\ s \in inside[v] /\ tickets[s] < MaxUploads
    /\ tickets' = [tickets EXCEPT ![s] = @ + 1]
    /\ inside' = [inside EXCEPT ![v] = {}]
    /\ UNCHANGED <<now, request, access, admitted, opener, ending>>

\* The request is closed once, for what happened to one of its links.
Close ==
    /\ request = "incomplete"
    /\ \/ request' = "blocked" /\ \E l \in Links : link[l] = "blocked"
       \/ request' = "expired_incomplete"
            /\ \E l \in Links : link[l] # "absent" /\ expires[l] <= now
    /\ UNCHANGED <<now, access, admitted, sessions, inside>>

Tick == now' = now + 1 /\ UNCHANGED <<request, access, admitted, sessions, inside>>

Next ==
    \/ \E l \in Links : Issue(l) \/ Revoke(l) \/ Miss(l)
    \/ \E c \in Clients : \/ GiveUp(c)
                          \/ \E l \in Links : Admit(c, l)
                          \/ \E s \in Sessions : Open(c, s)
    \/ \E v \in Visits, s \in Sessions : Enter(v, s) \/ TakeTicket(v, s)
    \/ Close \/ Tick

Spec == Init /\ [][Next]_promised
=============================================================================

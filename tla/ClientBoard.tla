---------------------------- MODULE ClientBoard ----------------------------
(***************************************************************************)
(* The page of the client: the board it reads again and again, the slots   *)
(* it sends files from, and the gate that replaces the board when the      *)
(* session is over.  One tab; the portal carries out a request and       *)
(* answers it in two steps, so that answers meet a page that has changed.  *)
(*                                                                         *)
(* The portal behind it is reduced to what the page can see: the occupant  *)
(* of a slot, its verdict, the request and the session.                    *)
(***************************************************************************)
EXTENDS Integers, FiniteSets

CONSTANTS
    Slots,        \* expected documents
    Sends,        \* bound: the sendings of a file, and the file of each
    Targets,      \* bound: the slots the sendings are for
    NoSend,
    NoBoard,      \* data is undefined
    MaxRetries,   \* MAXIMUM_RETRY_COUNT
    MaxSessions,  \* bound: sessions opened
    MaxFaults     \* bound: requests that fail on their way, reloads of the page

ASSUME BoardAssumption ==
    /\ NoSend \notin Sends
    /\ Targets \subseteq [Sends -> Slots]
    /\ MaxRetries \in Nat /\ MaxSessions \in Nat /\ MaxFaults \in Nat

VARIABLES
    \* the portal
    occupant,   \* occupant[d]: the file that occupies the slot
    stage,      \* stage[t]: where the file is
    request,    \* deposit_request_status
    session,    \* the cookie opens a usable session
    \* the query of the board
    data,       \* last board received
    error,      \* kind of its last failure
    fetch,      \* what became of the reading under way
    retries,    \* failure_count of the reading under way
    \* the page
    awaiting,   \* slots_awaiting_arrival
    current,    \* current[d]: the sending that slot d shows
    finished,   \* slots with has_finished_its_upload
    step,       \* step[t]: where send_the_chosen_file is
    target,     \* target[t]: the slot of the sending
    removing,   \* files whose removal is carried out and not answered
    finishing,  \* the completion is carried out and not answered
    pin,        \* the form of the code
    \* history and bounds
    gone,       \* files whose removal has been answered
    sessions, faults

portal == <<occupant, stage, request, session>>
query == <<data, error, fetch, retries>>
slots == <<awaiting, current, finished>>
sending == <<step, target>>
mutations == <<removing, finishing, pin>>
limits == <<sessions, faults>>
vars == <<portal, query, slots, sending, mutations, gone, limits>>

Idle == [s |-> "idle"]
Asked == [s |-> "asked"]

Init ==
    /\ occupant = [d \in Slots |-> NoSend]
    /\ stage = [t \in Sends |-> "none"]
    /\ request = "incomplete"
    /\ session = FALSE
    /\ data = NoBoard
    /\ error = "none"
    /\ fetch = Asked
    /\ retries = 0
    /\ awaiting = {}
    /\ current = [d \in Slots |-> NoSend]
    /\ finished = {}
    /\ step = [t \in Sends |-> "new"]
    /\ target \in Targets
    /\ removing = {} /\ finishing = FALSE
    /\ pin = "idle"
    /\ gone = {}
    /\ sessions = 0 /\ faults = 0

-----------------------------------------------------------------------------
(***************************************************************************)
(* What ClientDepositScreen shows.                                         *)
(***************************************************************************)
View(d, e) ==
    IF e = "unauthenticated" THEN "gate"
    ELSE IF e # "none" THEN "error"
    ELSE IF d = NoBoard THEN "loading" ELSE "board"

OnBoard == View(data, error) = "board"

Frozen == data.status # "incomplete"

BugUnsettled(board) == \A d \in Slots : board.occupant[d] \in board.pending

\* has_unsettled_document
Unsettled(board) == \E d \in Slots : board.occupant[d] \in board.pending

\* should_poll_deposit_board
ShouldPoll == awaiting # {} \/ (data # NoBoard /\ Unsettled(data))

\* list_documents_to_deposit: only a file that occupies its slot is shown.
Board == [occupant |-> occupant, status |-> request,
          pending |-> {t \in Sends : stage[t] = "pending_scan"}]

BugForget(observed) == IF observed = {} THEN awaiting ELSE {}

\* on_arrival_observed
Forget(observed) == awaiting \ observed

\* The screen that replaces the board unmounts its slots: their flags are lost,
\* their sendings go on.  The refusal of the form is lost with the gate.
Render(d, e) ==
    /\ data' = d
    /\ error' = e
    /\ IF View(d, e) = "board"
       THEN LET observed == {s \in finished : d.occupant[s] # NoSend} IN
            /\ finished' = finished \ observed
            /\ awaiting' = Forget(observed)
            /\ UNCHANGED current
       ELSE /\ finished' = {}
            /\ current' = [s \in Slots |-> NoSend]
            /\ UNCHANGED awaiting
    /\ pin' = IF View(d, e) # "gate" /\ pin = "limited" THEN "idle" ELSE pin

-----------------------------------------------------------------------------
(***************************************************************************)
(* The query of the board (client_queries.ts, query_client.ts).            *)
(***************************************************************************)
\* A reading that starts without data forgets the former failure.
StartReading ==
    /\ fetch' = Asked
    /\ retries' = 0
    /\ Render(data, IF data = NoBoard THEN "none" ELSE error)

\* refetchInterval, refetchOnWindowFocus, the button of the error.
Refetch ==
    /\ fetch = Idle
    /\ StartReading
    /\ UNCHANGED <<portal, sending, removing, finishing, gone, limits>>

Poll == ShouldPoll /\ Refetch

BugInvalidate == IF fetch = Idle THEN StartReading
                 ELSE UNCHANGED <<query, slots, pin>>

\* invalidateQueries reads again at once: the reading under way is dropped, but
\* for the first one.
Invalidate == IF fetch = Idle \/ data # NoBoard THEN StartReading
              ELSE UNCHANGED <<query, slots, pin>>

ServeBoard ==
    /\ fetch = Asked
    /\ fetch' = IF session THEN [s |-> "board", board |-> Board] ELSE [s |-> "unauthenticated"]
    /\ UNCHANGED <<portal, data, error, retries, slots, sending, mutations, gone, limits>>

ReceiveBoard ==
    /\ fetch.s \in {"board", "unauthenticated"}
    /\ fetch' = Idle
    /\ IF fetch.s = "board" THEN Render(fetch.board, "none")
                            ELSE Render(data, "unauthenticated")
    /\ UNCHANGED <<portal, retries, sending, removing, finishing, gone, limits>>

\* Only a failure of the transport or of the server is tried again.
LoseBoard ==
    /\ fetch # Idle
    /\ faults < MaxFaults
    /\ faults' = faults + 1
    /\ \/ /\ retries < MaxRetries
          /\ retries' = retries + 1
          /\ fetch' = Asked
          /\ UNCHANGED <<data, error, slots, pin>>
       \/ /\ retries >= MaxRetries
          /\ fetch' = Idle
          /\ Render(data, "network_unavailable")
          /\ UNCHANGED retries
    /\ UNCHANGED <<portal, sending, removing, finishing, gone, sessions>>

-----------------------------------------------------------------------------
(***************************************************************************)
(* A slot: send_the_chosen_file, then the removal of what it holds.        *)
(***************************************************************************)
Send(t) ==
    LET d == target[t] IN
    /\ OnBoard /\ ~ Frozen
    /\ step[t] = "new"
    /\ data.occupant[d] = NoSend
    /\ current[d] = NoSend
    /\ d \notin finished
    /\ step' = [step EXCEPT ![t] = "authorizing"]
    /\ current' = [current EXCEPT ![d] = t]
    /\ UNCHANGED <<portal, query, awaiting, finished, target, mutations, gone, limits>>

BugShown(t) == current[target[t]] # t

Shown(t) == current[target[t]] = t

EndSending(t, s) ==
    /\ step' = [step EXCEPT ![t] = s]
    /\ current' = IF Shown(t) THEN [current EXCEPT ![target[t]] = NoSend] ELSE current
    /\ UNCHANGED target

Authorize(t) ==
    /\ step[t] = "authorizing"
    /\ session /\ occupant[target[t]] = NoSend
    /\ step' = [step EXCEPT ![t] = "uploading"]
    /\ UNCHANGED <<portal, query, slots, target, mutations, gone, limits>>

\* Refused by the portal, or lost on its way, before or after the ticket.
SendingFails(t) ==
    /\ step[t] \in {"authorizing", "uploading"}
    /\ \/ /\ step[t] = "authorizing"
          /\ ~ session \/ occupant[target[t]] # NoSend
          /\ UNCHANGED faults
       \/ faults < MaxFaults /\ faults' = faults + 1
    /\ EndSending(t, "failed")
    /\ UNCHANGED <<portal, query, awaiting, finished, mutations, gone, sessions>>

\* The object is in the storage; the page learns it later.
StoreObject(t) ==
    /\ step[t] = "uploading"
    /\ stage[t] = "none"
    /\ stage' = [stage EXCEPT ![t] = "stored"]
    /\ UNCHANGED <<occupant, request, session, query, slots, sending, mutations, gone, limits>>

\* The end of the upload marks the slot in the screen, and in the slot if it is
\* still there and still shown empty.
FinishUpload(t) ==
    LET d == target[t]
        shownEmpty == OnBoard /\ data.occupant[d] = NoSend
    IN /\ step[t] = "uploading"
       /\ stage[t] # "none"
       /\ EndSending(t, "done")
       /\ finished' = IF Shown(t) /\ shownEmpty THEN finished \cup {d} ELSE finished
       /\ awaiting' = IF Shown(t) /\ ~ shownEmpty THEN Forget({d}) ELSE awaiting \cup {d}
       /\ UNCHANGED <<portal, query, mutations, gone, limits>>

\* The portal carries out a request when it is sent; the page learns it later.
Remove(d) ==
    LET t == data.occupant[d] IN
    /\ OnBoard /\ ~ Frozen
    /\ t # NoSend
    /\ t \notin removing
    /\ session /\ request = "incomplete" /\ stage[t] \in {"pending_scan", "clean"}
    /\ stage' = [stage EXCEPT ![t] = "removed"]
    /\ occupant' = [occupant EXCEPT ![d] = NoSend]
    /\ removing' = removing \cup {t}
    /\ UNCHANGED <<request, session, query, slots, sending, finishing, pin, gone, limits>>

\* use_remove_deposited_file: onSuccess.
ReceiveRemoval(t) ==
    /\ t \in removing
    /\ removing' = removing \ {t}
    /\ gone' = gone \cup {t}
    /\ Invalidate
    /\ UNCHANGED <<portal, sending, finishing, limits>>

-----------------------------------------------------------------------------
(***************************************************************************)
(* The completion of the deposit and the code of the link.                 *)
(***************************************************************************)
Complete ==
    /\ OnBoard /\ ~ Frozen
    /\ ~ finishing
    /\ session /\ request = "incomplete"
    /\ request' = "processing"
    /\ finishing' = TRUE
    /\ UNCHANGED <<occupant, stage, session, query, slots, sending, removing, pin, gone, limits>>

\* use_complete_deposit: onSuccess.
ReceiveCompletion ==
    /\ finishing
    /\ finishing' = FALSE
    /\ Invalidate
    /\ UNCHANGED <<portal, sending, removing, gone, limits>>

\* A refused code lets the form try again; too many refusals of one address
\* disable it.
EnterPin ==
    /\ View(data, error) = "gate"
    /\ pin = "idle"
    /\ \/ pin' = "limited" /\ UNCHANGED <<session, sessions>>
       \/ /\ sessions < MaxSessions
          /\ sessions' = sessions + 1
          /\ session' = TRUE
          /\ pin' = "accepted"
    /\ UNCHANGED <<occupant, stage, request, query, slots, sending, removing, finishing, gone,
                   faults>>

\* use_unlock_deposit_link: onSuccess.
ReceiveUnlock ==
    /\ pin = "accepted"
    /\ IF fetch = Idle \/ data # NoBoard
       THEN /\ fetch' = Asked
            /\ retries' = 0
            /\ error' = IF data = NoBoard THEN "none" ELSE error
       ELSE UNCHANGED <<fetch, retries, error>>
    /\ pin' = "idle"
    /\ UNCHANGED <<portal, data, slots, sending, removing, finishing, gone, limits>>

\* A reload starts a new page: requests that are under way are cut, before or
\* after the portal has carried them out.
Reload ==
    /\ faults < MaxFaults
    /\ faults' = faults + 1
    /\ data' = NoBoard /\ error' = "none" /\ fetch' = Asked /\ retries' = 0
    /\ awaiting' = {} /\ finished' = {} /\ current' = [d \in Slots |-> NoSend]
    /\ step' = [t \in Sends |-> IF step[t] \in {"authorizing", "uploading"} THEN "failed" ELSE step[t]]
    /\ removing' = {} /\ finishing' = FALSE /\ pin' = "idle"
    /\ UNCHANGED <<portal, target, gone, sessions>>

-----------------------------------------------------------------------------
(***************************************************************************)
(* The portal by itself.                                                   *)
(***************************************************************************)
\* The object is recorded: it occupies its slot, or another one does.
Arrive(t) ==
    /\ stage[t] = "stored"
    /\ IF occupant[target[t]] = NoSend
       THEN /\ stage' = [stage EXCEPT ![t] = "pending_scan"]
            /\ occupant' = [occupant EXCEPT ![target[t]] = t]
       ELSE stage' = [stage EXCEPT ![t] = "rejected"] /\ UNCHANGED occupant
    /\ UNCHANGED <<request, session, query, slots, sending, mutations, gone, limits>>

Judge(t) ==
    /\ stage[t] = "pending_scan"
    /\ \/ stage' = [stage EXCEPT ![t] = "clean"] /\ UNCHANGED occupant
       \/ /\ stage' = [stage EXCEPT ![t] = "rejected"]
          /\ occupant' = [occupant EXCEPT ![target[t]] = NoSend]
    /\ UNCHANGED <<request, session, query, slots, sending, mutations, gone, limits>>

EndSession ==
    /\ session
    /\ session' = FALSE
    /\ UNCHANGED <<occupant, stage, request, query, slots, sending, mutations, gone, limits>>

Reading == Poll \/ ServeBoard \/ ReceiveBoard

Next ==
    \/ Refetch \/ Reading \/ LoseBoard
    \/ \E t \in Sends : \/ Send(t) \/ Authorize(t) \/ SendingFails(t)
                        \/ StoreObject(t) \/ FinishUpload(t)
                        \/ ReceiveRemoval(t) \/ Arrive(t) \/ Judge(t)
    \/ \E d \in Slots : Remove(d)
    \/ Complete \/ ReceiveCompletion \/ EnterPin \/ ReceiveUnlock
    \/ EndSession \/ Reload

Spec == Init /\ [][Next]_vars

\* The browser runs its timers and the portal answers and judges; nothing makes
\* the client look at the page again.
FairSpec == /\ Spec
            /\ WF_vars(Poll) /\ WF_vars(ServeBoard) /\ WF_vars(ReceiveBoard)
            /\ \A t \in Sends : WF_vars(Judge(t))

-----------------------------------------------------------------------------
(***************************************************************************)
(* Properties.                                                             *)
(***************************************************************************)
Boards == [occupant : [Slots -> Sends \cup {NoSend}], pending : SUBSET Sends,
           status : {"incomplete", "processing"}]

ASSUME NoBoardAssumption == NoBoard \notin Boards

\* The page and the portal keep their shape; a slot shows a sending of its own
\* that is under way, and only on the board.
TypeOK ==
    /\ occupant \in [Slots -> Sends \cup {NoSend}]
    /\ stage \in [Sends -> {"none", "stored", "pending_scan", "clean", "rejected", "removed"}]
    /\ request \in {"incomplete", "processing"}
    /\ session \in BOOLEAN
    /\ data \in Boards \cup {NoBoard}
    /\ error \in {"none", "unauthenticated", "network_unavailable"}
    /\ fetch \in {Idle, Asked, [s |-> "unauthenticated"]} \cup [s : {"board"}, board : Boards]
    /\ retries \in 0..MaxRetries
    /\ awaiting \subseteq Slots /\ finished \subseteq Slots
    /\ \A d \in Slots : current[d] # NoSend =>
         /\ OnBoard
         /\ target[current[d]] = d
         /\ step[current[d]] \in {"authorizing", "uploading"}
    /\ step \in [Sends -> {"new", "authorizing", "uploading", "done", "failed"}]
    /\ removing \subseteq Sends
    /\ pin \in {"idle", "accepted", "limited"}

\* Once the client has been told that a file is removed, no answer on its way to
\* the page shows it again, whenever it was asked (use_remove_deposited_file).
RemovedStaysRemoved ==
    fetch.s = "board" => \A d \in Slots : fetch.board.occupant[d] \notin gone

\* A slot that says it awaits a reception is read again until it is shown: the
\* screen remembers each slot on its own.
AwaitingIsPolled == finished \subseteq awaiting /\ (finished # {} => OnBoard)

Analysing(t) ==
    data # NoBoard /\ data.occupant[target[t]] = t /\ t \in data.pending

\* A slot shown as being analysed ends up shown with the end of it, whatever is
\* lost meanwhile, unless the session is over.
AnalysisEnds ==
    \A t \in Sends : Analysing(t) ~> ~ Analysing(t) \/ error = "unauthenticated"
=============================================================================

------------------------- MODULE ClientBoard_proofs -------------------------
(***************************************************************************)
(* Proofs about ClientBoard, for any number of slots, sendings, sessions,  *)
(* retries and faults.                                                     *)
(***************************************************************************)
EXTENDS ClientBoard, TLAPS

-----------------------------------------------------------------------------
(***************************************************************************)
(* The inductive invariant.                                                *)
(***************************************************************************)
\* Who occupies a slot was sent for it and stands there.
OccupantsStand ==
    \A d \in Slots : occupant[d] # NoSend =>
        /\ target[occupant[d]] = d
        /\ stage[occupant[d]] \in {"pending_scan", "clean"}

\* A board shows in a slot what was sent for it.
FitsSlots(board) ==
    \A d \in Slots : board.occupant[d] # NoSend => target[board.occupant[d]] = d

BoardsFit ==
    /\ data # NoBoard => FitsSlots(data)
    /\ fetch.s = "board" => FitsSlots(fetch.board)

\* A removal is carried out before it is told, from a board that was shown.
RemovalsStand ==
    /\ gone \subseteq Sends
    /\ \A t \in gone \cup removing : stage[t] = "removed"
    /\ removing # {} => data # NoBoard

\* A slot that sends is on the board and has not finished.
SlotsKnow ==
    /\ current \in [Slots -> Sends \cup {NoSend}]
    /\ target \in [Sends -> Slots]
    /\ \A d \in Slots : current[d] # NoSend => d \notin finished

IInv ==
    /\ TypeOK
    /\ OccupantsStand
    /\ BoardsFit
    /\ RemovalsStand
    /\ SlotsKnow
    /\ AwaitingIsPolled
    /\ RemovedStaysRemoved

-----------------------------------------------------------------------------
(***************************************************************************)
(* What the page shows.                                                    *)
(***************************************************************************)
Errors == {"none", "unauthenticated", "network_unavailable"}
Fetches == {Idle, Asked, [s |-> "unauthenticated"]} \cup [s : {"board"}, board : Boards]

\* The part of the invariant that is about the slots of the page.
PageKnows ==
    /\ SlotsKnow
    /\ AwaitingIsPolled
    /\ awaiting \subseteq Slots /\ finished \subseteq Slots
    /\ \A d \in Slots : current[d] # NoSend =>
         /\ OnBoard
         /\ target[current[d]] = d
         /\ step[current[d]] \in {"authorizing", "uploading"}

\* A view that replaces another keeps what the slots rely on.
LEMMA RenderKeeps ==
    ASSUME PageKnows, NEW d \in Boards \cup {NoBoard}, NEW e \in Errors,
           Render(d, e), UNCHANGED sending
    PROVE  PageKnows' /\ data' = d /\ error' = e
<1>1. data' = d /\ error' = e /\ OnBoard' = (View(d, e) = "board")
  BY DEF Render, OnBoard
<1>2. UNCHANGED <<step, target>>
  BY DEF sending
<1>3. CASE View(d, e) = "board"
  <2> DEFINE observed == {s \in finished : d.occupant[s] # NoSend}
  <2>1. finished' = finished \ observed /\ awaiting' = awaiting \ observed /\ current' = current
    BY <1>3 DEF Render, Forget
  <2> HIDE DEF observed
  <2> QED  BY <1>1, <1>2, <1>3, <2>1 DEF PageKnows, SlotsKnow, AwaitingIsPolled
<1>4. CASE View(d, e) # "board"
  <2>1. /\ finished' = {} /\ current' = [s \in Slots |-> NoSend]
        /\ awaiting' = awaiting
    BY <1>4 DEF Render
  <2> QED  BY <1>1, <1>2, <2>1 DEF PageKnows, SlotsKnow, AwaitingIsPolled
<1> QED  BY <1>1, <1>3, <1>4

\* The refusal of the form keeps its type.
LEMMA RenderPin ==
    ASSUME NEW d, NEW e, Render(d, e), pin \in {"idle", "accepted", "limited"}
    PROVE  pin' \in {"idle", "accepted", "limited"}
BY DEF Render

\* A reading that starts asks, and shows what was shown.
LEMMA StartKeeps ==
    ASSUME TypeOK, PageKnows, StartReading, UNCHANGED sending
    PROVE  /\ PageKnows'
           /\ data' = data /\ error' \in Errors
           /\ fetch' = Asked /\ retries' = 0
           /\ pin' \in {"idle", "accepted", "limited"}
<1> DEFINE e == IF data = NoBoard THEN "none" ELSE error
<1>1. e \in Errors /\ data \in Boards \cup {NoBoard}
  BY DEF TypeOK, Errors
<1>2. Render(data, e) /\ fetch' = Asked /\ retries' = 0
  BY DEF StartReading
<1>3. pin' \in {"idle", "accepted", "limited"}
  BY <1>2, RenderPin DEF TypeOK
<1> HIDE DEF e
<1> QED  BY <1>1, <1>2, <1>3, RenderKeeps

\* A mutation that is answered drops the reading under way, unless it is the
\* first one.
LEMMA InvalidateKeeps ==
    ASSUME TypeOK, PageKnows, Invalidate, UNCHANGED sending
    PROVE  /\ PageKnows'
           /\ data' = data /\ error' \in Errors
           /\ fetch' = Asked \/ (fetch' = fetch /\ data = NoBoard)
           /\ retries' \in 0..MaxRetries
           /\ pin' \in {"idle", "accepted", "limited"}
<1>1. CASE fetch = Idle \/ data # NoBoard
  <2>1. StartReading
    BY <1>1 DEF Invalidate
  <2> QED  BY <2>1, StartKeeps, BoardAssumption
<1>2. CASE ~ (fetch = Idle \/ data # NoBoard)
  <2>1. UNCHANGED <<data, error, fetch, retries, awaiting, current, finished, pin, step, target>>
    BY <1>2 DEF Invalidate, query, slots, sending
  <2>2. PageKnows'
    BY <2>1 DEF PageKnows, SlotsKnow, AwaitingIsPolled, OnBoard
  <2> QED  BY <1>2, <2>1, <2>2 DEF TypeOK, Errors
<1> QED  BY <1>1, <1>2

-----------------------------------------------------------------------------
(***************************************************************************)
(* The invariant by parts of the system.                                   *)
(***************************************************************************)
PortalType ==
    /\ occupant \in [Slots -> Sends \cup {NoSend}]
    /\ stage \in [Sends -> {"none", "stored", "pending_scan", "clean", "rejected", "removed"}]
    /\ request \in {"incomplete", "processing"}
    /\ session \in BOOLEAN

QueryType ==
    /\ data \in Boards \cup {NoBoard}
    /\ error \in Errors
    /\ fetch \in Fetches
    /\ retries \in 0..MaxRetries

RestType ==
    /\ step \in [Sends -> {"new", "authorizing", "uploading", "done", "failed"}]
    /\ removing \subseteq Sends
    /\ pin \in {"idle", "accepted", "limited"}

Shows == BoardsFit /\ RemovalsStand /\ RemovedStaysRemoved

\* The parts make the whole.
LEMMA Parts ==
    IInv <=> /\ PortalType /\ QueryType /\ RestType /\ PageKnows
             /\ OccupantsStand /\ Shows
BY DEF IInv, TypeOK, PortalType, QueryType, RestType, PageKnows, Shows, SlotsKnow,
       AwaitingIsPolled, Errors, Fetches

\* So they do after a step.
LEMMA PartsAfter ==
    IInv' <=> /\ PortalType' /\ QueryType' /\ RestType' /\ PageKnows'
              /\ OccupantsStand' /\ Shows'
BY DEF IInv, TypeOK, PortalType, QueryType, RestType, PageKnows, Shows, SlotsKnow,
       AwaitingIsPolled, Errors, Fetches

\* A portal that does nothing stays as it is.
LEMMA PortalStays ==
    ASSUME PortalType, OccupantsStand, UNCHANGED portal, UNCHANGED target
    PROVE  PortalType' /\ OccupantsStand'
BY DEF PortalType, OccupantsStand, portal

\* The slots stay as they are under an unchanged board.
LEMMA PageStays ==
    ASSUME PageKnows, UNCHANGED <<data, error, slots, sending>>
    PROVE  PageKnows'
BY DEF PageKnows, SlotsKnow, AwaitingIsPolled, OnBoard, slots, sending

\* A board that is served shows what stands in the slots.
LEMMA BoardType ==
    ASSUME PortalType PROVE Board \in Boards
BY DEF PortalType, Board, Boards

\* A reading that is dropped shows nothing any more.
LEMMA ShowsDropped ==
    ASSUME Shows, UNCHANGED <<stage, removing, gone, target>>, data' = data,
           fetch'.s # "board" \/ fetch' = fetch
    PROVE  Shows'
BY DEF Shows, BoardsFit, FitsSlots, RemovalsStand, RemovedStaysRemoved

-----------------------------------------------------------------------------
(***************************************************************************)
(* The query.                                                              *)
(***************************************************************************)
\* Reading the board again, serving it, receiving it and losing it.
LEMMA QueryStep ==
    ASSUME IInv, Refetch \/ ServeBoard \/ ReceiveBoard \/ LoseBoard
    PROVE  IInv'
<1>0. PortalType /\ QueryType /\ RestType /\ PageKnows /\ OccupantsStand /\ Shows /\ TypeOK
  BY Parts DEF IInv
<1>1. UNCHANGED <<portal, sending, removing, gone>>
  BY DEF Refetch, ServeBoard, ReceiveBoard, LoseBoard, mutations
<1>2. PortalType' /\ OccupantsStand' /\ UNCHANGED <<stage, target>>
  BY <1>0, <1>1, PortalStays DEF portal, sending
<1>3. SUFFICES QueryType' /\ pin' \in {"idle", "accepted", "limited"} /\ PageKnows' /\ Shows'
  BY <1>0, <1>1, <1>2, PartsAfter DEF RestType, sending
<1>4. CASE Refetch
  <2>1. StartReading
    BY <1>4 DEF Refetch
  <2>2. /\ PageKnows' /\ data' = data /\ error' \in Errors
        /\ fetch' = Asked /\ retries' = 0 /\ pin' \in {"idle", "accepted", "limited"}
    BY <1>0, <1>1, <2>1, StartKeeps
  <2>3. QueryType'
    BY <1>0, <2>2, BoardAssumption DEF QueryType, Fetches
  <2>4. Shows'
    BY <1>0, <1>1, <1>2, <2>2, ShowsDropped DEF Asked
  <2> QED  BY <2>2, <2>3, <2>4
<1>5. CASE ServeBoard
  <2>1. /\ UNCHANGED <<data, error, retries, slots, pin>>
        /\ fetch' = [s |-> "board", board |-> Board] \/ fetch' = [s |-> "unauthenticated"]
    BY <1>5 DEF ServeBoard, mutations
  <2>2. PageKnows'
    BY <1>0, <1>1, <2>1, PageStays
  <2>3. QueryType'
    BY <1>0, <2>1, BoardType DEF QueryType, Fetches
  <2>4. FitsSlots(Board)
    BY <1>0 DEF FitsSlots, OccupantsStand, Board
  <2>5. \A d \in Slots : Board.occupant[d] \notin gone
    <3>1. NoSend \notin gone
      BY <1>0, BoardAssumption DEF Shows, RemovalsStand
    <3> QED  BY <1>0, <3>1 DEF Shows, RemovalsStand, OccupantsStand, Board
  <2>6. Shows'
    <3>1. fetch'.s = "board" => fetch'.board = Board
      BY <2>1
    <3> HIDE DEF Board
    <3> QED
      BY <1>0, <1>1, <1>2, <2>1, <2>4, <2>5, <3>1
         DEF Shows, BoardsFit, FitsSlots, RemovalsStand, RemovedStaysRemoved
  <2> QED  BY <1>0, <2>1, <2>2, <2>3, <2>6 DEF RestType
<1>6. CASE ReceiveBoard
  <2>1. fetch' = Idle /\ retries' = retries
    BY <1>6 DEF ReceiveBoard
  <2>2. CASE fetch.s = "board"
    <3>1. Render(fetch.board, "none") /\ fetch.board \in Boards
      BY <1>0, <1>6, <2>2 DEF ReceiveBoard, QueryType, Fetches, Idle, Asked
    <3>2. PageKnows' /\ data' = fetch.board /\ error' = "none"
      BY <1>0, <1>1, <3>1, RenderKeeps DEF Errors
    <3>3. pin' \in {"idle", "accepted", "limited"}
      BY <1>0, <3>1, RenderPin DEF RestType
    <3>4. QueryType'
      BY <1>0, <2>1, <3>1, <3>2 DEF QueryType, Errors, Fetches
    <3>5. Shows'
      <4>1. data' # NoBoard => FitsSlots(data')
        BY <1>0, <2>2, <3>2 DEF Shows, BoardsFit
      <4>2. removing # {} => data' # NoBoard
        BY <1>0, <3>1, <3>2, NoBoardAssumption DEF Shows
      <4> QED
        BY <1>0, <1>1, <1>2, <2>1, <4>1, <4>2
           DEF Shows, BoardsFit, FitsSlots, RemovalsStand, RemovedStaysRemoved, Idle
    <3> QED  BY <3>2, <3>3, <3>4, <3>5
  <2>3. CASE fetch.s # "board"
    <3>1. Render(data, "unauthenticated") /\ data \in Boards \cup {NoBoard}
      BY <1>0, <1>6, <2>3 DEF ReceiveBoard, QueryType
    <3>2. PageKnows' /\ data' = data /\ error' = "unauthenticated"
      BY <1>0, <1>1, <3>1, RenderKeeps DEF Errors
    <3>3. pin' \in {"idle", "accepted", "limited"}
      BY <1>0, <3>1, RenderPin DEF RestType
    <3>4. QueryType'
      BY <1>0, <2>1, <3>2 DEF QueryType, Errors, Fetches
    <3>5. Shows'
      BY <1>0, <1>1, <1>2, <2>1, <3>2, ShowsDropped DEF Idle
    <3> QED  BY <3>2, <3>3, <3>4, <3>5
  <2> QED  BY <2>2, <2>3
<1>7. CASE LoseBoard
  <2>1. CASE /\ retries < MaxRetries /\ retries' = retries + 1 /\ fetch' = Asked
             /\ UNCHANGED <<data, error, slots, pin>>
    <3>1. PageKnows'
      BY <1>0, <1>1, <2>1, PageStays
    <3>2. QueryType'
      BY <1>0, <2>1, BoardAssumption DEF QueryType, Fetches
    <3>3. Shows'
      BY <1>0, <1>1, <1>2, <2>1, ShowsDropped DEF Asked
    <3> QED  BY <1>0, <2>1, <3>1, <3>2, <3>3 DEF RestType
  <2>2. CASE fetch' = Idle /\ Render(data, "network_unavailable") /\ UNCHANGED retries
    <3>1. PageKnows' /\ data' = data /\ error' = "network_unavailable"
      BY <1>0, <1>1, <2>2, RenderKeeps DEF Errors, QueryType
    <3>2. pin' \in {"idle", "accepted", "limited"}
      BY <1>0, <2>2, RenderPin DEF RestType
    <3>3. QueryType'
      BY <1>0, <2>2, <3>1 DEF QueryType, Errors, Fetches
    <3>4. Shows'
      BY <1>0, <1>1, <1>2, <2>2, <3>1, ShowsDropped DEF Idle
    <3> QED  BY <3>1, <3>2, <3>3, <3>4
  <2> QED  BY <1>7, <2>1, <2>2 DEF LoseBoard
<1> QED  BY <1>4, <1>5, <1>6, <1>7

-----------------------------------------------------------------------------
(***************************************************************************)
(* Sendings.                                                               *)
(***************************************************************************)
\* A sending ends in the slot that shows it, if there is one.
LEMMA SendingEnds ==
    ASSUME IInv, NEW t \in Sends, NEW s \in {"done", "failed"}, EndSending(t, s)
    PROVE  /\ current' \in [Slots -> Sends \cup {NoSend}]
           /\ step' \in [Sends -> {"new", "authorizing", "uploading", "done", "failed"}]
           /\ UNCHANGED target
           /\ \A d \in Slots : current'[d] # NoSend =>
                /\ current'[d] = current[d]
                /\ current[d] # t
                /\ step'[current[d]] = step[current[d]]
           /\ Shown(t) => current'[target[t]] = NoSend
<1>1. /\ current \in [Slots -> Sends \cup {NoSend}]
      /\ target \in [Sends -> Slots]
      /\ step \in [Sends -> {"new", "authorizing", "uploading", "done", "failed"}]
      /\ \A d \in Slots : current[d] # NoSend => target[current[d]] = d
  BY DEF IInv, SlotsKnow, TypeOK
<1>2. step' = [step EXCEPT ![t] = s] /\ UNCHANGED target
  BY DEF EndSending
<1>3. CASE Shown(t)
  <2>1. current' = [current EXCEPT ![target[t]] = NoSend]
    BY <1>3 DEF EndSending
  <2>2. \A d \in Slots : current'[d] # NoSend => d # target[t] /\ current'[d] = current[d]
    BY <1>1, <2>1
  <2>3. \A d \in Slots : current'[d] # NoSend => current[d] # t
    BY <1>1, <2>2, BoardAssumption
  <2> QED  BY <1>1, <1>2, <2>1, <2>2, <2>3
<1>4. CASE ~ Shown(t)
  <2>1. current' = current
    BY <1>4 DEF EndSending
  <2>2. \A d \in Slots : current[d] # t
    BY <1>1, <1>4, BoardAssumption DEF Shown
  <2> QED  BY <1>1, <1>2, <1>4, <2>1, <2>2
<1> QED  BY <1>3, <1>4

\* Choosing a file, getting a ticket, failing and finishing an upload.
LEMMA SendingStep ==
    ASSUME IInv, NEW t \in Sends,
           Send(t) \/ Authorize(t) \/ SendingFails(t) \/ FinishUpload(t)
    PROVE  IInv'
<1>0. /\ PortalType /\ QueryType /\ RestType /\ PageKnows /\ OccupantsStand /\ Shows
      /\ SlotsKnow /\ AwaitingIsPolled
  BY Parts DEF IInv
<1>1. UNCHANGED <<portal, query, target, mutations, gone>>
  BY DEF Send, Authorize, SendingFails, FinishUpload, EndSending
<1>2. PortalType' /\ OccupantsStand' /\ UNCHANGED <<stage, data, error, fetch, retries, removing, pin>>
  BY <1>0, <1>1, PortalStays DEF portal, query, mutations
<1>3. QueryType' /\ Shows'
  BY <1>0, <1>1, <1>2, ShowsDropped DEF QueryType
<1>4. OnBoard' = OnBoard
  BY <1>2 DEF OnBoard
<1>5. SUFFICES /\ step' \in [Sends -> {"new", "authorizing", "uploading", "done", "failed"}]
               /\ PageKnows'
  BY <1>0, <1>2, <1>3, PartsAfter DEF RestType
<1>6. CASE Send(t)
  <2> DEFINE d == target[t]
  <2>1. /\ OnBoard /\ d \notin finished /\ step[t] = "new"
        /\ step' = [step EXCEPT ![t] = "authorizing"]
        /\ current' = [current EXCEPT ![d] = t]
        /\ UNCHANGED <<awaiting, finished>>
    BY <1>6 DEF Send
  <2>2. d \in Slots
    BY <1>0 DEF SlotsKnow
  <2>3. ASSUME NEW e \in Slots, current'[e] # NoSend
        PROVE  /\ OnBoard /\ e \notin finished /\ target[current'[e]] = e
               /\ step'[current'[e]] \in {"authorizing", "uploading"}
    <3>1. CASE e = d
      BY <1>0, <2>1, <2>2, <3>1 DEF SlotsKnow, RestType
    <3>2. CASE e # d
      BY <1>0, <2>1, <2>2, <2>3, <3>2 DEF SlotsKnow, PageKnows, RestType
    <3> QED  BY <3>1, <3>2
  <2>4. current' \in [Slots -> Sends \cup {NoSend}]
    BY <1>0, <2>1 DEF SlotsKnow
  <2>5. step' \in [Sends -> {"new", "authorizing", "uploading", "done", "failed"}]
    BY <1>0, <2>1 DEF RestType
  <2> QED
    BY <1>0, <1>1, <1>4, <2>1, <2>3, <2>4, <2>5 DEF PageKnows, SlotsKnow, AwaitingIsPolled
<1>7. CASE Authorize(t)
  <2>1. step' = [step EXCEPT ![t] = "uploading"] /\ UNCHANGED <<awaiting, current, finished>>
    BY <1>7 DEF Authorize, slots
  <2> QED
    BY <1>0, <1>1, <1>4, <2>1 DEF PageKnows, SlotsKnow, AwaitingIsPolled, RestType
<1>8. CASE SendingFails(t)
  <2>1. EndSending(t, "failed") /\ UNCHANGED <<awaiting, finished>>
    BY <1>8 DEF SendingFails
  <2> QED
    BY <1>0, <1>1, <1>4, <2>1, SendingEnds DEF PageKnows, SlotsKnow, AwaitingIsPolled
<1>9. CASE FinishUpload(t)
  <2> DEFINE d == target[t]
             shownEmpty == OnBoard /\ data.occupant[d] = NoSend
  <2>1. /\ EndSending(t, "done")
        /\ finished' = IF Shown(t) /\ shownEmpty THEN finished \cup {d} ELSE finished
        /\ awaiting' = IF Shown(t) /\ ~ shownEmpty THEN awaiting \ {d} ELSE awaiting \cup {d}
    BY <1>9 DEF FinishUpload, Forget
  <2>2. d \in Slots /\ (Shown(t) => d \notin finished)
    BY <1>0, BoardAssumption DEF SlotsKnow, Shown
  <2>3. /\ finished' \subseteq awaiting' /\ awaiting' \subseteq Slots
        /\ finished' # {} => OnBoard
    BY <1>0, <2>1, <2>2 DEF PageKnows, AwaitingIsPolled
  <2>4. \A e \in Slots : current'[e] # NoSend => e \notin finished'
    <3>1. \A e \in Slots : current'[e] # NoSend => current[e] # NoSend
      BY <2>1, SendingEnds
    <3>2. Shown(t) => current'[d] = NoSend
      BY <2>1, SendingEnds
    <3> QED  BY <1>0, <2>1, <3>1, <3>2 DEF SlotsKnow
  <2> HIDE DEF d, shownEmpty
  <2> QED
    BY <1>0, <1>1, <1>4, <2>1, <2>3, <2>4, SendingEnds
       DEF PageKnows, SlotsKnow, AwaitingIsPolled
<1> QED  BY <1>6, <1>7, <1>8, <1>9

-----------------------------------------------------------------------------
(***************************************************************************)
(* The portal by itself, and what it carries out.                          *)
(***************************************************************************)
\* Storing, recording and judging an object, removing one, ending the session.
LEMMA PortalStep ==
    ASSUME IInv,
           \/ \E t \in Sends : StoreObject(t) \/ Arrive(t) \/ Judge(t)
           \/ \E d \in Slots : Remove(d)
           \/ EndSession
    PROVE  IInv'
<1>0. /\ PortalType /\ QueryType /\ RestType /\ PageKnows /\ OccupantsStand /\ Shows
      /\ SlotsKnow /\ RemovalsStand /\ BoardsFit
  BY Parts DEF IInv, Shows
<1>1. /\ UNCHANGED <<query, slots, sending, pin, gone, request>>
      /\ session' \in BOOLEAN
  BY <1>0 DEF StoreObject, Arrive, Judge, Remove, EndSession, mutations, PortalType
<1>2. PageKnows' /\ QueryType'
  BY <1>0, <1>1, PageStays DEF query, QueryType
<1>3. SUFFICES /\ occupant' \in [Slots -> Sends \cup {NoSend}]
               /\ stage' \in [Sends -> {"none", "stored", "pending_scan", "clean", "rejected", "removed"}]
               /\ removing' \subseteq Sends
               /\ OccupantsStand'
               /\ \A t \in gone \cup removing' : stage'[t] = "removed"
               /\ removing' # {} => data # NoBoard
  BY <1>0, <1>1, <1>2, PartsAfter
     DEF PortalType, RestType, Shows, BoardsFit, FitsSlots, RemovalsStand,
         RemovedStaysRemoved, query, sending
<1>4. \A t \in gone \cup removing : t \in Sends /\ stage[t] = "removed"
  BY <1>0 DEF RemovalsStand, RestType
<1>5. target' = target /\ target \in [Sends -> Slots]
  BY <1>0, <1>1 DEF sending, SlotsKnow
<1>6. ASSUME NEW t \in Sends, StoreObject(t)
      PROVE  /\ UNCHANGED <<occupant, removing>>
             /\ stage[t] = "none" /\ stage' = [stage EXCEPT ![t] = "stored"]
  BY <1>6 DEF StoreObject, mutations
<1>7. ASSUME NEW t \in Sends, Arrive(t)
      PROVE  /\ UNCHANGED removing
             /\ stage[t] = "stored"
             /\ \/ /\ stage' = [stage EXCEPT ![t] = "pending_scan"]
                   /\ occupant' = [occupant EXCEPT ![target[t]] = t]
                \/ stage' = [stage EXCEPT ![t] = "rejected"] /\ UNCHANGED occupant
  BY <1>7 DEF Arrive, mutations
<1>8. ASSUME NEW t \in Sends, Judge(t)
      PROVE  /\ UNCHANGED removing
             /\ stage[t] = "pending_scan"
             /\ \/ stage' = [stage EXCEPT ![t] = "clean"] /\ UNCHANGED occupant
                \/ /\ stage' = [stage EXCEPT ![t] = "rejected"]
                   /\ occupant' = [occupant EXCEPT ![target[t]] = NoSend]
  BY <1>8 DEF Judge, mutations
<1>9. ASSUME NEW t \in Sends, NEW s \in {"stored", "pending_scan", "clean", "rejected"},
             stage[t] \in {"none", "stored", "pending_scan"},
             stage' = [stage EXCEPT ![t] = s], UNCHANGED removing
      PROVE  /\ stage' \in [Sends -> {"none", "stored", "pending_scan", "clean", "rejected", "removed"}]
             /\ removing' \subseteq Sends
             /\ \A u \in gone \cup removing' : stage'[u] = "removed"
             /\ removing' # {} => data # NoBoard
  BY <1>0, <1>4, <1>9 DEF PortalType, RestType, RemovalsStand
<1>10. CASE \E t \in Sends : StoreObject(t)
  <2>1. PICK t \in Sends : StoreObject(t)
    BY <1>10
  <2>2. OccupantsStand'
    BY <1>0, <1>5, <1>6, <2>1 DEF OccupantsStand, PortalType
  <2> QED  BY <1>0, <1>6, <1>9, <2>1, <2>2 DEF PortalType
<1>11. CASE \E t \in Sends : Arrive(t)
  <2>1. PICK t \in Sends : Arrive(t)
    BY <1>11
  <2>2. occupant' \in [Slots -> Sends \cup {NoSend}] /\ OccupantsStand'
    <3>1. CASE /\ stage' = [stage EXCEPT ![t] = "pending_scan"]
               /\ occupant' = [occupant EXCEPT ![target[t]] = t]
      <4>1. occupant' \in [Slots -> Sends \cup {NoSend}]
        BY <1>0, <3>1 DEF PortalType
      <4>2. ASSUME NEW d \in Slots, occupant'[d] # NoSend
            PROVE  /\ target[occupant'[d]] = d
                   /\ stage'[occupant'[d]] \in {"pending_scan", "clean"}
        <5>1. CASE d = target[t]
          BY <1>0, <3>1, <5>1 DEF PortalType
        <5>2. CASE d # target[t]
          BY <1>0, <3>1, <4>2, <5>2 DEF PortalType, OccupantsStand
        <5> QED  BY <5>1, <5>2
      <4> QED  BY <1>5, <4>1, <4>2 DEF OccupantsStand
    <3>2. CASE stage' = [stage EXCEPT ![t] = "rejected"] /\ UNCHANGED occupant
      <4>1. stage[t] = "stored"
        BY <1>7, <2>1
      <4>2. \A d \in Slots : occupant[d] # NoSend => occupant[d] # t
        BY <1>0, <4>1 DEF OccupantsStand
      <4> QED  BY <1>0, <1>5, <3>2, <4>2 DEF OccupantsStand, PortalType
    <3> QED  BY <1>7, <2>1, <3>1, <3>2
  <2> QED  BY <1>7, <1>9, <2>1, <2>2
<1>12. CASE \E t \in Sends : Judge(t)
  <2>1. PICK t \in Sends : Judge(t)
    BY <1>12
  <2>2. occupant' \in [Slots -> Sends \cup {NoSend}] /\ OccupantsStand'
    <3>1. CASE stage' = [stage EXCEPT ![t] = "clean"] /\ UNCHANGED occupant
      BY <1>0, <1>5, <3>1 DEF OccupantsStand, PortalType
    <3>2. CASE /\ stage' = [stage EXCEPT ![t] = "rejected"]
               /\ occupant' = [occupant EXCEPT ![target[t]] = NoSend]
      BY <1>0, <1>5, <3>2, BoardAssumption DEF OccupantsStand, PortalType
    <3> QED  BY <1>8, <2>1, <3>1, <3>2
  <2> QED  BY <1>8, <1>9, <2>1, <2>2
<1>13. CASE \E d \in Slots : Remove(d)
  <2>1. PICK d \in Slots : Remove(d)
    BY <1>13
  <2> DEFINE t == data.occupant[d]
  <2>2. /\ OnBoard /\ t # NoSend
        /\ stage' = [stage EXCEPT ![t] = "removed"]
        /\ occupant' = [occupant EXCEPT ![d] = NoSend]
        /\ removing' = removing \cup {t}
    BY <2>1 DEF Remove
  <2>3. data # NoBoard
    BY <2>2 DEF OnBoard, View
  <2>4. t \in Sends /\ target[t] = d
    BY <1>0, <2>2, <2>3 DEF QueryType, Boards, BoardsFit, FitsSlots
  <2> HIDE DEF t
  <2>5. OccupantsStand' /\ occupant' \in [Slots -> Sends \cup {NoSend}]
    BY <1>0, <1>5, <2>2, <2>4 DEF OccupantsStand, PortalType
  <2> QED  BY <1>0, <1>4, <2>2, <2>3, <2>4, <2>5 DEF PortalType, RestType
<1>14. CASE EndSession
  <2>1. UNCHANGED <<occupant, stage, removing>>
    BY <1>14 DEF EndSession, mutations
  <2> QED  BY <1>0, <1>4, <1>5, <2>1 DEF OccupantsStand, PortalType, RestType, RemovalsStand
<1> QED  BY <1>10, <1>11, <1>12, <1>13, <1>14

-----------------------------------------------------------------------------
(***************************************************************************)
(* Answers of mutations, the form of the code, reloads.                    *)
(***************************************************************************)
\* The answer of a removal drops the reading under way: what it would have shown
\* may be older than the removal.
LEMMA AnswerStep ==
    ASSUME IInv, ReceiveCompletion \/ \E t \in Sends : ReceiveRemoval(t)
    PROVE  IInv'
<1>0. /\ PortalType /\ QueryType /\ RestType /\ PageKnows /\ OccupantsStand /\ Shows
      /\ RemovalsStand /\ BoardsFit /\ TypeOK
  BY Parts DEF IInv, Shows
<1>1. Invalidate /\ UNCHANGED <<portal, sending>>
  BY DEF ReceiveCompletion, ReceiveRemoval
<1>2. /\ PageKnows' /\ data' = data /\ error' \in Errors
      /\ fetch' = Asked \/ (fetch' = fetch /\ data = NoBoard)
      /\ retries' \in 0..MaxRetries
      /\ pin' \in {"idle", "accepted", "limited"}
  BY <1>0, <1>1, InvalidateKeeps
<1>3. PortalType' /\ OccupantsStand' /\ UNCHANGED <<stage, step, target>>
  BY <1>0, <1>1, PortalStays DEF portal, sending
<1>4. QueryType'
  BY <1>0, <1>2 DEF QueryType, Fetches
<1>5. /\ removing' \subseteq removing
      /\ gone' \cup removing' = gone \cup removing
      /\ removing # {} \/ gone' = gone
  BY DEF ReceiveCompletion, ReceiveRemoval
<1>6. RemovalsStand'
  BY <1>0, <1>2, <1>3, <1>5 DEF RemovalsStand, RestType
<1>7. BoardsFit'
  BY <1>0, <1>2, <1>3 DEF BoardsFit, FitsSlots, Asked
<1>8. RemovedStaysRemoved'
  <2>1. CASE fetch' = Asked
    BY <2>1 DEF RemovedStaysRemoved, Asked
  <2>2. CASE fetch' = fetch /\ data = NoBoard
    BY <1>0, <1>5, <2>2 DEF RemovedStaysRemoved, RemovalsStand, Shows
  <2> QED  BY <1>2, <2>1, <2>2
<1>9. RestType'
  BY <1>0, <1>2, <1>3, <1>5 DEF RestType
<1> QED  BY <1>2, <1>3, <1>4, <1>6, <1>7, <1>8, <1>9, PartsAfter DEF Shows

\* The completion, the code and a reload.
LEMMA OtherStep ==
    ASSUME IInv, Complete \/ EnterPin \/ ReceiveUnlock \/ Reload
    PROVE  IInv'
<1>0. /\ PortalType /\ QueryType /\ RestType /\ PageKnows /\ OccupantsStand /\ Shows
      /\ SlotsKnow
  BY Parts DEF IInv
<1>1. UNCHANGED <<occupant, stage, target, gone>>
  BY DEF Complete, EnterPin, ReceiveUnlock, Reload, portal, sending
<1>2. PortalType' /\ OccupantsStand'
  <2>1. request' \in {"incomplete", "processing"} /\ session' \in BOOLEAN
    BY <1>0 DEF Complete, EnterPin, ReceiveUnlock, Reload, portal, PortalType
  <2> QED  BY <1>0, <1>1, <2>1 DEF PortalType, OccupantsStand
<1>3. CASE Complete \/ EnterPin
  <2>1. /\ UNCHANGED <<query, slots, sending, removing>>
        /\ pin' \in {"idle", "accepted", "limited"}
    BY <1>0, <1>3 DEF Complete, EnterPin, mutations, RestType
  <2>2. PageKnows'
    BY <1>0, <2>1, PageStays DEF query
  <2>3. QueryType' /\ Shows' /\ RestType'
    BY <1>0, <1>1, <2>1, ShowsDropped DEF QueryType, RestType, query, sending
  <2> QED  BY <1>2, <2>2, <2>3, PartsAfter
<1>4. CASE ReceiveUnlock
  <2>1. /\ UNCHANGED <<data, slots, sending, removing>> /\ pin' = "idle"
        /\ \/ fetch' = Asked /\ retries' = 0 /\ error' = IF data = NoBoard THEN "none" ELSE error
           \/ UNCHANGED <<fetch, retries, error>>
    BY <1>4 DEF ReceiveUnlock
  <2>2. PageKnows'
    <3>1. OnBoard => OnBoard'
      BY <2>1 DEF OnBoard, View
    <3> QED
      BY <1>0, <2>1, <3>1 DEF PageKnows, SlotsKnow, AwaitingIsPolled, slots, sending
  <2>3. QueryType'
    BY <1>0, <2>1, BoardAssumption DEF QueryType, Fetches, Errors
  <2>4. Shows' /\ RestType'
    BY <1>0, <1>1, <2>1, ShowsDropped DEF RestType, sending, Asked
  <2> QED  BY <1>2, <2>2, <2>3, <2>4, PartsAfter
<1>5. CASE Reload
  <2>1. /\ data' = NoBoard /\ error' = "none" /\ fetch' = Asked /\ retries' = 0
        /\ awaiting' = {} /\ finished' = {} /\ current' = [d \in Slots |-> NoSend]
        /\ step' = [t \in Sends |-> IF step[t] \in {"authorizing", "uploading"} THEN "failed" ELSE step[t]]
        /\ removing' = {} /\ pin' = "idle"
    BY <1>5 DEF Reload
  <2>2. PageKnows'
    BY <1>0, <1>1, <2>1 DEF PageKnows, SlotsKnow, AwaitingIsPolled
  <2>3. QueryType' /\ RestType'
    BY <1>0, <2>1, BoardAssumption DEF QueryType, RestType, Fetches, Errors
  <2>4. Shows'
    BY <1>0, <1>1, <2>1 DEF Shows, BoardsFit, RemovalsStand, RemovedStaysRemoved, Asked
  <2> QED  BY <1>2, <2>2, <2>3, <2>4, PartsAfter
<1> QED  BY <1>3, <1>4, <1>5

-----------------------------------------------------------------------------
(***************************************************************************)
(* The invariant is inductive.                                             *)
(***************************************************************************)
\* It holds of a page that opens.
LEMMA InvInit == Init => IInv
<1> SUFFICES ASSUME Init PROVE IInv
  OBVIOUS
<1>1. target \in [Sends -> Slots]
  BY BoardAssumption DEF Init
<1>2. /\ request = "incomplete" /\ session = FALSE
      /\ occupant = [d \in Slots |-> NoSend] /\ stage = [t \in Sends |-> "none"]
  BY DEF Init
<1>3. PortalType
  BY <1>2 DEF PortalType
<1>4. QueryType /\ RestType
  BY BoardAssumption DEF Init, QueryType, RestType, Errors, Fetches
<1>5. PageKnows
  BY <1>1 DEF Init, PageKnows, SlotsKnow, AwaitingIsPolled
<1>6. OccupantsStand /\ Shows
  BY DEF Init, OccupantsStand, Shows, BoardsFit, RemovalsStand, RemovedStaysRemoved, Asked
<1> QED  BY <1>3, <1>4, <1>5, <1>6, Parts

\* Every step keeps the invariant.
LEMMA InvStep == IInv /\ [Next]_vars => IInv'
<1> SUFFICES ASSUME IInv, [Next]_vars PROVE IInv'
  OBVIOUS
<1>1. CASE UNCHANGED vars
  <2>1. /\ PortalType /\ QueryType /\ RestType /\ PageKnows /\ OccupantsStand /\ Shows
    BY Parts
  <2>2. UNCHANGED <<portal, data, error, fetch, retries, slots, sending, removing, pin, gone>>
    BY <1>1 DEF vars, query, mutations
  <2>3. PortalType' /\ OccupantsStand' /\ PageKnows' /\ UNCHANGED <<stage, target, step>>
    BY <2>1, <2>2, PortalStays, PageStays DEF portal, sending
  <2>4. Shows' /\ QueryType' /\ RestType'
    BY <2>1, <2>2, <2>3, ShowsDropped DEF QueryType, RestType
  <2> QED  BY <2>3, <2>4, PartsAfter
<1>2. CASE Refetch \/ Reading \/ LoseBoard
  BY <1>2, QueryStep DEF Reading, Poll
<1>3. CASE \E t \in Sends : Send(t) \/ Authorize(t) \/ SendingFails(t) \/ FinishUpload(t)
  BY <1>3, SendingStep
<1>4. CASE \/ \E t \in Sends : StoreObject(t) \/ Arrive(t) \/ Judge(t)
           \/ \E d \in Slots : Remove(d)
           \/ EndSession
  BY <1>4, PortalStep
<1>5. CASE ReceiveCompletion \/ \E t \in Sends : ReceiveRemoval(t)
  BY <1>5, AnswerStep
<1>6. CASE Complete \/ EnterPin \/ ReceiveUnlock \/ Reload
  BY <1>6, OtherStep
<1> QED  BY <1>1, <1>2, <1>3, <1>4, <1>5, <1>6 DEF Next

\* In every reachable state the page knows what it shows.
THEOREM Invariance == Spec => []IInv
BY InvInit, InvStep, PTL DEF Spec

-----------------------------------------------------------------------------
\* The page and the portal keep their shape.
THEOREM TypeCorrect == Spec => []TypeOK
<1>1. IInv => TypeOK
  BY DEF IInv
<1> QED  BY <1>1, Invariance, PTL

\* Once a removal has been answered, no reading shows its file again.
THEOREM RemovedStays == Spec => []RemovedStaysRemoved
<1>1. IInv => RemovedStaysRemoved
  BY DEF IInv
<1> QED  BY <1>1, Invariance, PTL

\* A slot that says it awaits a reception is remembered by the screen that polls.
THEOREM AwaitingPolled == Spec => []AwaitingIsPolled
<1>1. IInv => AwaitingIsPolled
  BY DEF IInv
<1> QED  BY <1>1, Invariance, PTL
=============================================================================

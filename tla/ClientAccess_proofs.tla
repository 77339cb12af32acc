------------------------ MODULE ClientAccess_proofs ------------------------
(***************************************************************************)
(* Proofs about ClientAccess, for any number of links, sessions, attempts, *)
(* requests of the lawyer and uploads, and for every value of the limits.  *)
(*                                                                         *)
(* No row is locked while a PIN is verified, so each invariant rests on    *)
(* what an attempt may know of the row between two of its statements.      *)
(***************************************************************************)
EXTENDS ClientAccess, FailureWindow_proofs, FiniteSetTheorems, TLAPS

-----------------------------------------------------------------------------
(***************************************************************************)
(* The inductive invariant.                                                *)
(***************************************************************************)
\* The counter of the row is exactly the number of wrong PINs recorded since
\* the last right one, and a link that works has guesses left.
CounterTellsGuesses ==
    \A l \in Links : /\ wrong[l] = failed[l]
                     /\ link[l] = "active" => failed[l] < MaxPinAttempts
                     /\ link[l] = "absent" => failed[l] = 0

Telling(a, l) == attempt[a].of = l /\ attempt[a].then = "blocked"

\* What comes next of an attempt fits where it is.
AttemptsKnow ==
    \A a \in Attempts :
        /\ attempt[a].pc \notin {"idle", "stopped"} => attempt[a].of \in Links
        /\ attempt[a].then = "blocked" =>
             attempt[a].pc \in {"counting", "blocked", "blocking"}
        /\ attempt[a].pc \in {"blocked", "blocking"} => attempt[a].then = "blocked"
        /\ attempt[a].then \in {"idle", "expiring", "blocked"}

\* Of the attempts on one link at most one has blocked it, the link stays
\* blocked, and until that attempt has told the journal nobody has.
OneTeller ==
    /\ \A a \in Attempts, l \in Links : Telling(a, l) => link[l] = "blocked"
    /\ \A a, b \in Attempts, l \in Links : Telling(a, l) /\ Telling(b, l) => a = b
    /\ \A a \in Attempts, l \in Links :
         Telling(a, l) /\ attempt[a].pc # "blocking" => journal[l]["access_link_blocked"] = 0

\* The request of a link only knows three of the statuses.
RequestOfLinks == request \in {"incomplete", "blocked", "expired_incomplete"}

IInv ==
    /\ TypeOK
    /\ CounterTellsGuesses
    /\ AttemptsKnow
    /\ OneTeller
    /\ RequestOfLinks
    /\ OneActiveLink
    /\ BlockingToldOnce
    /\ BlockingReachesRequest
    /\ AllowanceBounded

-----------------------------------------------------------------------------
(***************************************************************************)
(* The types.                                                              *)
(***************************************************************************)
\* An attempt that is not being served is of the right type.
LEMMA IdleType == IdleAttempt \in AttemptRecords
BY AccessAssumption DEF IdleAttempt, AttemptRecords, AttemptSteps

\* An attempt that is answered keeps its type.
LEMMA AttemptAnswered ==
    ASSUME attempt \in [Attempts -> AttemptRecords], NEW a \in Attempts, Answer(a)
    PROVE  attempt' \in [Attempts -> AttemptRecords]
BY IdleType DEF Answer

\* So does one that goes on to another statement,
LEMMA AttemptMoves ==
    ASSUME attempt \in [Attempts -> AttemptRecords], NEW a \in Attempts,
           NEW s \in AttemptSteps, GoTo(a, s)
    PROVE  attempt' \in [Attempts -> AttemptRecords]
BY DEF GoTo, AttemptRecords

\* and keeps what it has read,
LEMMA AttemptReads ==
    ASSUME attempt \in [Attempts -> AttemptRecords], NEW a \in Attempts,
           NEW s \in AttemptSteps, NEW k \in 0..MaxPinAttempts,
           attempt' = [attempt EXCEPT ![a].pc = s, ![a].seen = k]
    PROVE  attempt' \in [Attempts -> AttemptRecords]
BY DEF AttemptRecords

\* or what it does next,
LEMMA AttemptPlans ==
    ASSUME attempt \in [Attempts -> AttemptRecords], NEW a \in Attempts,
           NEW s \in AttemptSteps, NEW t \in AttemptSteps,
           attempt' = [attempt EXCEPT ![a].pc = s, ![a].then = t]
    PROVE  attempt' \in [Attempts -> AttemptRecords]
BY DEF AttemptRecords

\* or both,
LEMMA AttemptWrites ==
    ASSUME attempt \in [Attempts -> AttemptRecords], NEW a \in Attempts,
           NEW s \in AttemptSteps, NEW k \in 0..MaxPinAttempts, NEW t \in AttemptSteps,
           attempt' = [attempt EXCEPT ![a].pc = s, ![a].seen = k, ![a].then = t]
    PROVE  attempt' \in [Attempts -> AttemptRecords]
<1> DEFINE r == [attempt[a] EXCEPT !.pc = s, !.seen = k, !.then = t]
<1>1. r \in AttemptRecords
  BY DEF AttemptRecords
<1>2. attempt' = [attempt EXCEPT ![a] = r]
  OBVIOUS
<1> HIDE DEF r
<1> QED  BY <1>1, <1>2

\* one that starts,
LEMMA AttemptStarts ==
    ASSUME attempt \in [Attempts -> AttemptRecords], NEW a \in Attempts,
           NEW l \in Links, now \in 0..Horizon,
           attempt' = [attempt EXCEPT ![a] =
                         [IdleAttempt EXCEPT !.pc = "reading", !.of = l, !.at = now]]
    PROVE  attempt' \in [Attempts -> AttemptRecords]
<1>1. "reading" \in AttemptSteps
  BY DEF AttemptSteps
<1>2. [IdleAttempt EXCEPT !.pc = "reading", !.of = l, !.at = now] \in AttemptRecords
  BY IdleType, <1>1 DEF AttemptRecords
<1> QED  BY <1>2

\* and one that stops for good.
LEMMA AttemptStops ==
    ASSUME attempt \in [Attempts -> AttemptRecords], NEW a \in Attempts,
           attempt' = [attempt EXCEPT ![a] = [IdleAttempt EXCEPT !.pc = "stopped"]]
    PROVE  attempt' \in [Attempts -> AttemptRecords]
<1>1. "stopped" \in AttemptSteps
  BY DEF AttemptSteps
<1>2. [IdleAttempt EXCEPT !.pc = "stopped"] \in AttemptRecords
  BY IdleType, <1>1 DEF AttemptRecords
<1> QED  BY <1>2

\* A request of the lawyer that is not being served is of the right type.
LEMMA IdleOfficeType == IdleOffice \in [pc : OfficeSteps, seen : SUBSET Links]
BY DEF IdleOffice, OfficeSteps

\* The events of the links only lead to statuses of the request.
LEMMA EventType ==
    ASSUME NEW s \in RequestStatuses, NEW e
    PROVE  AfterPipelineEvent(s, e) \in RequestStatuses
BY DEF AfterPipelineEvent, RequestStatuses

\* An event more leaves a journal.
LEMMA JournalType ==
    ASSUME journal \in [Links -> [LinkEventTypes -> Nat]],
           NEW l \in Links, NEW e \in LinkEventTypes, Journalize(l, e)
    PROVE  journal' \in [Links -> [LinkEventTypes -> Nat]]
<1>1. journal[l] \in [LinkEventTypes -> Nat]
  OBVIOUS
<1>2. [journal[l] EXCEPT ![e] = @ + 1] \in [LinkEventTypes -> Nat]
  BY <1>1
<1>3. journal' = [journal EXCEPT ![l] = [journal[l] EXCEPT ![e] = @ + 1]]
  BY DEF Journalize
<1> QED  BY <1>2, <1>3

\* The initial state is of the right types.
LEMMA TypeInit == Init => TypeOK
<1> SUFFICES ASSUME Init PROVE TypeOK
  OBVIOUS
<1>1. now \in 0..Horizon /\ request \in RequestStatuses
  BY AccessAssumption DEF Init, RequestStatuses
<1>7. expired \in BOOLEAN
  BY DEF Init
<1>6. link \in [Links -> LinkStatuses] /\ failures \in [0..Horizon -> Nat]
  BY DEF Init, LinkStatuses
<1>2. /\ failed \in [Links -> 0..MaxPinAttempts]
      /\ expires \in [Links -> Nat] /\ wrong \in [Links -> Nat]
      /\ journal \in [Links -> [LinkEventTypes -> Nat]]
  BY AccessAssumption DEF Init
<1>3. /\ opener \in [Sessions -> Links \cup {NoLink}]
      /\ ending \in [Sessions -> Nat] /\ uploads \in [Sessions -> Nat]
      /\ visit \in [Visits -> SUBSET Sessions]
  BY DEF Init
<1>4. attempt \in [Attempts -> AttemptRecords]
  BY IdleType DEF Init
<1>5. office \in [Offices -> [pc : OfficeSteps, seen : SUBSET Links]]
  BY IdleOfficeType DEF Init
<1> QED  BY <1>1, <1>2, <1>3, <1>4, <1>5, <1>6, <1>7 DEF TypeOK

\* Every step keeps the types; that the counter of a row stays within the limit
\* needs CounterTellsGuesses.
LEMMA TypeStep == TypeOK /\ CounterTellsGuesses /\ AttemptsKnow /\ [Next]_vars => TypeOK'
<1> SUFFICES ASSUME TypeOK, CounterTellsGuesses, AttemptsKnow, [Next]_vars PROVE TypeOK'
  OBVIOUS
<1> DEFINE Typed == attempt' \in [Attempts -> AttemptRecords]
<1>1. CASE UNCHANGED vars
  BY <1>1 DEF vars, rows, tables, TypeOK
<1>2. ASSUME NEW a \in Attempts, NEW l \in Links, StartAttempt(a, l) PROVE TypeOK'
  <2>1. Typed
    BY <1>2, AttemptStarts DEF StartAttempt, TypeOK
  <2> QED  BY <2>1, <1>2 DEF StartAttempt, TypeOK, rows, tables
<1>3. ASSUME NEW a \in Attempts, ReadLink(a) PROVE TypeOK'
  <2>1. attempt[a].of \in Links
    BY <1>3 DEF AttemptsKnow, ReadLink, IsAttempt
  <2>2. failed[attempt[a].of] \in 0..MaxPinAttempts
    BY <2>1 DEF TypeOK
  <2>3. /\ "verifying" \in AttemptSteps /\ "counting" \in AttemptSteps
        /\ "expiring" \in AttemptSteps /\ "idle" \in AttemptSteps
    BY DEF AttemptSteps
  <2>4. \/ Answer(a)
        \/ attempt' = [attempt EXCEPT ![a].pc = "verifying", ![a].seen = failed[attempt[a].of]]
        \/ \E t \in AttemptSteps : attempt' = [attempt EXCEPT ![a].pc = "counting", ![a].then = t]
    BY <1>3, <2>3 DEF ReadLink
  <2>5. Typed
    BY <2>2, <2>3, <2>4, AttemptAnswered, AttemptReads, AttemptPlans DEF TypeOK
  <2> QED  BY <1>3, <2>5 DEF ReadLink, TypeOK, rows, tables
<1>4. ASSUME NEW a \in Attempts, NEW verdict \in {"wrong", "right"}, VerifyPin(a, verdict)
      PROVE  TypeOK'
  <2>1. verdict \in AttemptSteps /\ GoTo(a, verdict)
    BY <1>4 DEF VerifyPin, AttemptSteps
  <2>2. Typed
    BY <2>1, AttemptMoves DEF TypeOK
  <2> QED  BY <2>2, <1>4 DEF VerifyPin, TypeOK, rows, tables
<1>5. ASSUME NEW a \in Attempts, GateIsFull(a) PROVE TypeOK'
  <2>1. Typed
    BY <1>5, AttemptAnswered DEF GateIsFull, TypeOK
  <2> QED  BY <2>1, <1>5 DEF GateIsFull, TypeOK, rows, tables
<1>6. ASSUME NEW a \in Attempts, LoseRace(a) PROVE TypeOK'
  <2>1. "counting" \in AttemptSteps /\ 0 \in 0..MaxPinAttempts
    BY AccessAssumption DEF AttemptSteps
  <2>2. attempt' = [attempt EXCEPT ![a].pc = "counting", ![a].seen = 0]
    BY <1>6 DEF LoseRace
  <2>3. Typed
    BY <2>1, <2>2, AttemptReads DEF TypeOK
  <2> QED  BY <2>3, <1>6 DEF LoseRace, TypeOK, rows, tables
<1>7. ASSUME NEW a \in Attempts, SaveWrongPin(a) PROVE TypeOK'
  <2> DEFINE l == attempt[a].of
  <2>1. l \in Links /\ link \in [Links -> LinkStatuses] /\ wrong \in [Links -> Nat]
    BY <1>7 DEF SaveWrongPin, IsAttempt, AttemptsKnow, TypeOK
  <2>2. failed[l] \in 0..MaxPinAttempts /\ failed[l] < MaxPinAttempts
    BY <1>7, <2>1 DEF SaveWrongPin, StillAsRead, CounterTellsGuesses, TypeOK
  <2>3. attempt[a].seen + 1 \in 0..MaxPinAttempts
    BY <1>7, <2>2, AccessAssumption DEF SaveWrongPin, StillAsRead
  <2>4. failed' \in [Links -> 0..MaxPinAttempts]
    BY <1>7, <2>3 DEF SaveWrongPin, TypeOK
  <2>5. link' = [link EXCEPT ![l] = "blocked"] \/ link' = [link EXCEPT ![l] = "active"]
    BY <1>7 DEF SaveWrongPin
  <2>6. link' \in [Links -> LinkStatuses] /\ wrong' \in [Links -> Nat]
    BY <2>1, <2>5, <1>7 DEF SaveWrongPin, LinkStatuses
  <2>7. /\ "counting" \in AttemptSteps /\ "blocked" \in AttemptSteps
        /\ "idle" \in AttemptSteps /\ 0 \in 0..MaxPinAttempts
    BY AccessAssumption DEF AttemptSteps
  <2>8. \E t \in AttemptSteps :
          attempt' = [attempt EXCEPT ![a].pc = "counting", ![a].seen = 0, ![a].then = t]
    BY <1>7, <2>7 DEF SaveWrongPin
  <2>9. Typed
    BY <2>7, <2>8, AttemptWrites DEF TypeOK
  <2> QED  BY <1>7, <2>4, <2>6, <2>9 DEF SaveWrongPin, TypeOK, rows, tables
<1>8. ASSUME NEW a \in Attempts, SaveRightPin(a) PROVE TypeOK'
  <2>1. "granted" \in AttemptSteps /\ 0 \in 0..MaxPinAttempts
    BY AccessAssumption DEF AttemptSteps
  <2>2. attempt' = [attempt EXCEPT ![a].pc = "granted", ![a].seen = 0]
    BY <1>8 DEF SaveRightPin
  <2>3. Typed
    BY <2>1, <2>2, AttemptReads DEF TypeOK
  <2>4. link' \in [Links -> LinkStatuses] /\ wrong' \in [Links -> Nat]
    BY <1>8 DEF SaveRightPin, LinkStatuses, TypeOK
  <2>5. failed' \in [Links -> 0..MaxPinAttempts]
    BY <1>8, <2>1 DEF SaveRightPin, TypeOK
  <2> QED  BY <2>3, <2>4, <2>5, <1>8 DEF SaveRightPin, TypeOK, rows, tables
<1>9. ASSUME NEW a \in Attempts, CountFailure(a) PROVE TypeOK'
  <2>1. attempt[a].then \in AttemptSteps /\ attempt[a].at \in 0..Horizon
    BY DEF AttemptRecords, TypeOK
  <2>2. failures' \in [0..Horizon -> Nat]
    BY <1>9, <2>1 DEF CountFailure, TypeOK
  <2>3. Answer(a) \/ GoTo(a, attempt[a].then)
    BY <1>9 DEF CountFailure
  <2>4. Typed
    BY <2>1, <2>3, AttemptMoves, AttemptAnswered DEF TypeOK
  <2> QED  BY <1>9, <2>2, <2>4 DEF CountFailure, TypeOK, rows, tables
<1>10. ASSUME NEW a \in Attempts, TellExpiry(a) \/ TellBlocking(a) PROVE TypeOK'
  <2>1. Typed
    BY <1>10, AttemptAnswered DEF TellExpiry, TellBlocking, TypeOK
  <2>2. request' \in RequestStatuses
    BY <1>10, EventType DEF TellExpiry, TellBlocking, ApplyToRequest, TypeOK
  <2> QED  BY <2>1, <2>2, <1>10 DEF TellExpiry, TellBlocking, TypeOK, rows, tables
<1>11. ASSUME NEW a \in Attempts, JournalizeBlocking(a) \/ JournalizeOpening(a) PROVE TypeOK'
  <2>1. "blocking" \in AttemptSteps /\ "opening" \in AttemptSteps
    BY DEF AttemptSteps
  <2>2. GoTo(a, "blocking") \/ GoTo(a, "opening")
    BY <1>11 DEF JournalizeBlocking, JournalizeOpening
  <2>3. Typed
    BY <2>1, <2>2, AttemptMoves DEF TypeOK
  <2>4. PICK e \in LinkEventTypes : Journalize(attempt[a].of, e)
    BY <1>11 DEF JournalizeBlocking, JournalizeOpening, LinkEventTypes
  <2>5. attempt[a].of \in Links
    BY <1>11 DEF JournalizeBlocking, JournalizeOpening, IsAttempt, AttemptsKnow
  <2>6. journal' \in [Links -> [LinkEventTypes -> Nat]]
    BY <2>4, <2>5, JournalType DEF TypeOK
  <2> QED
    BY <2>3, <2>6, <1>11 DEF JournalizeBlocking, JournalizeOpening, TypeOK, rows, tables
<1>12. ASSUME NEW a \in Attempts, NEW s \in Sessions, OpenSession(a, s) PROVE TypeOK'
  <2>1. attempt[a].of \in Links /\ attempt[a].at \in 0..Horizon
    BY <1>12 DEF OpenSession, IsAttempt, AttemptsKnow, AttemptRecords, TypeOK
  <2>2. SessionEnd(attempt[a].of, attempt[a].at) \in Nat
    BY <2>1, AccessAssumption DEF SessionEnd, TypeOK
  <2>3. Typed
    BY <1>12, AttemptAnswered DEF OpenSession, TypeOK
  <2>4. opener' \in [Sessions -> Links \cup {NoLink}] /\ ending' \in [Sessions -> Nat]
    BY <1>12, <2>1, <2>2 DEF OpenSession, TypeOK
  <2> QED  BY <1>12, <2>3, <2>4 DEF OpenSession, TypeOK, rows, tables
<1>13. ASSUME NEW o \in Offices, BeginEmission(o) \/ FailEmission(o) PROVE TypeOK'
  <2>1. CASE BeginEmission(o)
    <3>1. [pc |-> "emitting", seen |-> ActiveLinks] \in [pc : OfficeSteps, seen : SUBSET Links]
      BY DEF OfficeSteps, ActiveLinks
    <3> QED  BY <2>1, <3>1 DEF BeginEmission, TypeOK, rows, tables
  <2>2. CASE FailEmission(o)
    BY <2>2, IdleOfficeType DEF FailEmission, TypeOK, rows, tables
  <2> QED  BY <1>13, <2>1, <2>2
<1>14. ASSUME NEW o \in Offices, NEW l \in Links, EmitLink(o, l) PROVE TypeOK'
  <2>1. office' \in [Offices -> [pc : OfficeSteps, seen : SUBSET Links]]
    BY <1>14, IdleOfficeType DEF EmitLink, TypeOK
  <2>2. link' \in [Links -> LinkStatuses]
    BY <1>14 DEF EmitLink, LinkStatuses, TypeOK
  <2>3. expires' \in [Links -> Nat]
    BY <1>14, AccessAssumption DEF EmitLink, TypeOK
  <2> QED  BY <2>1, <2>2, <2>3, <1>14 DEF EmitLink, TypeOK, rows, tables
<1>15. ASSUME NEW o \in Offices, NEW l \in Links, RevokeLink(o, l) PROVE TypeOK'
  BY <1>15 DEF RevokeLink, LinkStatuses, TypeOK, rows, tables
<1>16. ASSUME NEW v \in Visits, NEW s \in Sessions, NEW l \in Links, EnterDeposit(v, s, l)
       PROVE  TypeOK'
  BY <1>16 DEF EnterDeposit, TypeOK, rows, tables
<1>17. ASSUME NEW v \in Visits, NEW s \in Sessions, AuthorizeUpload(v, s) PROVE TypeOK'
  BY <1>17 DEF AuthorizeUpload, TypeOK, rows, tables
<1>18. CASE ListExpired
  BY <1>18 DEF ListExpired, TypeOK, rows, tables
<1>19. CASE TellListed
  BY <1>19, EventType DEF TellListed, ApplyToRequest, TypeOK, rows, tables
<1>20. CASE StopHalfWay
  <2>1. PICK a \in Attempts : /\ attempt[a].pc \in {"blocked", "blocking", "granted", "opening"}
                              /\ attempt' = [attempt EXCEPT ![a] = [IdleAttempt EXCEPT !.pc = "stopped"]]
    BY <1>20 DEF StopHalfWay
  <2>2. Typed
    BY <2>1, AttemptStops DEF TypeOK
  <2> QED  BY <2>2, <1>20 DEF StopHalfWay, TypeOK, rows, tables
<1>21. CASE Tick
  BY <1>21, AccessAssumption DEF Tick, TypeOK, rows, tables
<1> QED
  BY <1>1, <1>2, <1>3, <1>4, <1>5, <1>6, <1>7, <1>8, <1>9, <1>10, <1>11, <1>12,
     <1>13, <1>14, <1>15, <1>16, <1>17, <1>18, <1>19, <1>20, <1>21
     DEF Next, Unlocking, Lawyering, Depositing

-----------------------------------------------------------------------------
(***************************************************************************)
(* Which actions touch what.                                               *)
(***************************************************************************)
\* The rows of the links are written by four actions.
LEMMA RowsChange ==
    ASSUME [Next]_vars
    PROVE  \/ UNCHANGED rows
           \/ \E a \in Attempts : SaveWrongPin(a) \/ SaveRightPin(a)
           \/ \E o \in Offices, l \in Links : EmitLink(o, l) \/ RevokeLink(o, l)
<1>1. CASE UNCHANGED vars
  BY <1>1 DEF vars
<1>2. CASE Unlocking
  BY <1>2 DEF Unlocking, StartAttempt, ReadLink, VerifyPin, GateIsFull, LoseRace,
         CountFailure, TellExpiry, JournalizeBlocking, TellBlocking, JournalizeOpening,
         OpenSession
<1>3. CASE Lawyering
  BY <1>3 DEF Lawyering, BeginEmission, FailEmission
<1>4. CASE Depositing
  BY <1>4 DEF Depositing, EnterDeposit, AuthorizeUpload
<1>5. CASE ListExpired \/ TellListed \/ StopHalfWay \/ Tick
  BY <1>5 DEF ListExpired, TellListed, StopHalfWay, Tick
<1> QED  BY <1>1, <1>2, <1>3, <1>4, <1>5 DEF Next

\* A statement of an attempt that leads to another one.
Served(a) ==
    \/ \E l \in Links : StartAttempt(a, l)
    \/ ReadLink(a)
    \/ \E verdict \in {"wrong", "right"} : VerifyPin(a, verdict)
    \/ LoseRace(a)
    \/ SaveWrongPin(a)
    \/ SaveRightPin(a)
    \/ CountFailure(a)
    \/ JournalizeBlocking(a)
    \/ JournalizeOpening(a)

\* An attempt comes to its end: answered, or stopped half way.
Ended(a) ==
    \/ GateIsFull(a) \/ TellExpiry(a) \/ TellBlocking(a)
    \/ \E s \in Sessions : OpenSession(a, s)
    \/ attempt' = [attempt EXCEPT ![a] = [IdleAttempt EXCEPT !.pc = "stopped"]]

\* The attempts are moved one at a time, by their own statements.
LEMMA AttemptsChange ==
    ASSUME [Next]_vars
    PROVE  \/ UNCHANGED attempt
           \/ \E a \in Attempts : Served(a) \/ Ended(a)
<1>1. CASE UNCHANGED vars
  BY <1>1 DEF vars
<1>2. CASE Unlocking
  BY <1>2 DEF Unlocking, Served, Ended
<1>3. CASE Lawyering
  BY <1>3 DEF Lawyering, BeginEmission, FailEmission, EmitLink, RevokeLink
<1>4. CASE Depositing
  BY <1>4 DEF Depositing, EnterDeposit, AuthorizeUpload
<1>5. CASE ListExpired \/ TellListed \/ StopHalfWay \/ Tick
  BY <1>5 DEF ListExpired, TellListed, StopHalfWay, Tick, Ended
<1> QED  BY <1>1, <1>2, <1>3, <1>4, <1>5 DEF Next

-----------------------------------------------------------------------------
(***************************************************************************)
(* Every step keeps the invariant, one conjunct at a time.                 *)
(***************************************************************************)
\* The counter of a row keeps telling the guesses: a wrong PIN is written only
\* on the counter it was verified against.
LEMMA CounterStep ==
    TypeOK /\ CounterTellsGuesses /\ AttemptsKnow /\ [Next]_vars => CounterTellsGuesses'
<1> SUFFICES ASSUME TypeOK, CounterTellsGuesses, AttemptsKnow, [Next]_vars
             PROVE  CounterTellsGuesses'
  OBVIOUS
<1>0. /\ link \in [Links -> LinkStatuses] /\ wrong \in [Links -> Nat]
      /\ failed \in [Links -> 0..MaxPinAttempts]
  BY DEF TypeOK
<1>1. CASE UNCHANGED rows
  BY <1>1 DEF rows, CounterTellsGuesses
<1>2. ASSUME NEW a \in Attempts, SaveWrongPin(a) PROVE CounterTellsGuesses'
  <2> DEFINE l == attempt[a].of
  <2>1. l \in Links /\ failed[l] = attempt[a].seen /\ link[l] = "active"
    BY <1>2 DEF SaveWrongPin, IsAttempt, AttemptsKnow, StillAsRead
  <2>2. /\ failed' = [failed EXCEPT ![l] = failed[l] + 1]
        /\ wrong' = [wrong EXCEPT ![l] = wrong[l] + 1]
        /\ link' = [link EXCEPT ![l] = IF failed[l] + 1 >= MaxPinAttempts
                                       THEN "blocked" ELSE "active"]
    BY <1>2, <2>1 DEF SaveWrongPin, BecomesBlocked
  <2> QED  BY <1>0, <2>1, <2>2, AccessAssumption DEF CounterTellsGuesses
<1>3. ASSUME NEW a \in Attempts, SaveRightPin(a) PROVE CounterTellsGuesses'
  BY <1>0, <1>3, AccessAssumption DEF SaveRightPin, StillAsRead, CounterTellsGuesses
<1>4. ASSUME NEW o \in Offices, NEW l \in Links, EmitLink(o, l) PROVE CounterTellsGuesses'
  BY <1>0, <1>4, AccessAssumption DEF EmitLink, CounterTellsGuesses
<1>5. ASSUME NEW o \in Offices, NEW l \in Links, RevokeLink(o, l) PROVE CounterTellsGuesses'
  BY <1>0, <1>5 DEF RevokeLink, CounterTellsGuesses
<1> QED  BY <1>1, <1>2, <1>3, <1>4, <1>5, RowsChange

\* What comes next of an attempt keeps fitting where it is.
LEMMA AttemptsKnowStep == TypeOK /\ AttemptsKnow /\ [Next]_vars => AttemptsKnow'
<1> SUFFICES ASSUME TypeOK, AttemptsKnow, [Next]_vars PROVE AttemptsKnow'
  OBVIOUS
<1>0. attempt \in [Attempts -> AttemptRecords]
  BY DEF TypeOK
<1>1. CASE UNCHANGED attempt
  BY <1>1 DEF AttemptsKnow
<1>2. ASSUME NEW a \in Attempts, NEW l \in Links, StartAttempt(a, l) PROVE AttemptsKnow'
  BY <1>0, <1>2 DEF StartAttempt, IdleAttempt, AttemptsKnow
<1>3. ASSUME NEW a \in Attempts, ReadLink(a) PROVE AttemptsKnow'
  <2>1. attempt[a].pc = "reading" /\ attempt[a].then # "blocked"
    BY <1>3 DEF ReadLink, IsAttempt, AttemptsKnow
  <2>2. \/ Answer(a)
        \/ attempt' = [attempt EXCEPT ![a].pc = "verifying", ![a].seen = failed[attempt[a].of]]
        \/ attempt' = [attempt EXCEPT ![a].pc = "counting", ![a].then = "expiring"]
        \/ attempt' = [attempt EXCEPT ![a].pc = "counting", ![a].then = "idle"]
    BY <1>3 DEF ReadLink
  <2> QED  BY <1>0, <2>1, <2>2 DEF Answer, IdleAttempt, AttemptsKnow, AttemptRecords
<1>4. ASSUME NEW a \in Attempts, NEW verdict \in {"wrong", "right"}, VerifyPin(a, verdict)
      PROVE  AttemptsKnow'
  BY <1>0, <1>4 DEF VerifyPin, IsAttempt, GoTo, AttemptsKnow, AttemptRecords
<1>5. ASSUME NEW a \in Attempts, LoseRace(a) PROVE AttemptsKnow'
  BY <1>0, <1>5 DEF LoseRace, AttemptsKnow, AttemptRecords
<1>6. ASSUME NEW a \in Attempts, SaveWrongPin(a) PROVE AttemptsKnow'
  BY <1>0, <1>6 DEF SaveWrongPin, IsAttempt, AttemptsKnow, AttemptRecords
<1>7. ASSUME NEW a \in Attempts, SaveRightPin(a) PROVE AttemptsKnow'
  BY <1>0, <1>7 DEF SaveRightPin, IsAttempt, AttemptsKnow, AttemptRecords
<1>8. ASSUME NEW a \in Attempts, CountFailure(a) PROVE AttemptsKnow'
  <2>1. attempt[a].pc = "counting" /\ attempt[a].of \in Links
    BY <1>8 DEF CountFailure, IsAttempt, AttemptsKnow
  <2>2. attempt[a].then \in {"idle", "expiring", "blocked"}
    BY DEF AttemptsKnow
  <2>3. \/ Answer(a)
        \/ attempt[a].then # "idle" /\ GoTo(a, attempt[a].then)
    BY <1>8 DEF CountFailure
  <2> QED
    BY <1>0, <2>1, <2>2, <2>3 DEF Answer, GoTo, IdleAttempt, AttemptsKnow, AttemptRecords
<1>9. ASSUME NEW a \in Attempts, JournalizeBlocking(a) \/ JournalizeOpening(a)
      PROVE  AttemptsKnow'
  BY <1>0, <1>9 DEF JournalizeBlocking, JournalizeOpening, IsAttempt, GoTo, AttemptsKnow,
         AttemptRecords
<1>10. ASSUME NEW a \in Attempts, Ended(a) PROVE AttemptsKnow'
  <2>1. attempt' = [attempt EXCEPT ![a] = IdleAttempt]
        \/ attempt' = [attempt EXCEPT ![a] = [IdleAttempt EXCEPT !.pc = "stopped"]]
    BY <1>10 DEF Ended, GateIsFull, TellExpiry, TellBlocking, OpenSession, Answer
  <2> QED  BY <1>0, <2>1 DEF IdleAttempt, AttemptsKnow
<1> QED
  BY <1>1, <1>2, <1>3, <1>4, <1>5, <1>6, <1>7, <1>8, <1>9, <1>10, AttemptsChange DEF Served

\* Two working links never stand side by side: the index refuses the second.
LEMMA OneActiveLinkStep == TypeOK /\ OneActiveLink /\ [Next]_vars => OneActiveLink'
<1> SUFFICES ASSUME TypeOK, OneActiveLink, [Next]_vars PROVE OneActiveLink'
  OBVIOUS
<1>0. link \in [Links -> LinkStatuses]
  BY DEF TypeOK
<1>1. CASE UNCHANGED rows
  BY <1>1 DEF rows, OneActiveLink, ActiveLinks
<1>2. ASSUME NEW a \in Attempts, SaveWrongPin(a) \/ SaveRightPin(a) PROVE OneActiveLink'
  <2>1. \A l \in Links : link'[l] = "active" => link[l] = "active"
    BY <1>0, <1>2 DEF SaveWrongPin, SaveRightPin, StillAsRead
  <2> QED  BY <2>1 DEF OneActiveLink, ActiveLinks
<1>3. ASSUME NEW o \in Offices, NEW l \in Links, EmitLink(o, l) PROVE OneActiveLink'
  <2>1. ActiveLinks \subseteq office[o].seen
    BY <1>3 DEF EmitLink, IndexRefuses
  <2>2. \A k \in Links : link'[k] = "active" => k = l
    BY <1>3, <2>1 DEF EmitLink, ActiveLinks
  <2> QED  BY <2>2 DEF OneActiveLink, ActiveLinks
<1>4. ASSUME NEW o \in Offices, NEW l \in Links, RevokeLink(o, l) PROVE OneActiveLink'
  BY <1>0, <1>4 DEF RevokeLink, OneActiveLink, ActiveLinks
<1> QED  BY <1>1, <1>2, <1>3, <1>4, RowsChange

\* Only a wrong PIN makes an attempt the one that tells the blocking, and one
\* that has told the journal has told it for good.
NoNewTeller ==
    \A b \in Attempts, l \in Links :
        attempt'[b].of = l /\ attempt'[b].then = "blocked" =>
            /\ Telling(b, l)
            /\ attempt[b].pc = "blocking" => attempt'[b].pc = "blocking"

\* Whatever else happens, no attempt becomes the one that tells a blocking.
LEMMA TellersOnlyLeave ==
    ASSUME TypeOK, AttemptsKnow, [Next]_vars
    PROVE  NoNewTeller \/ \E a \in Attempts : SaveWrongPin(a)
<1>0. attempt \in [Attempts -> AttemptRecords]
  BY DEF TypeOK
<1>1. CASE UNCHANGED attempt
  BY <1>1 DEF NoNewTeller, Telling
<1>2. ASSUME NEW a \in Attempts, NEW l \in Links, StartAttempt(a, l) PROVE NoNewTeller
  BY <1>0, <1>2 DEF StartAttempt, IdleAttempt, NoNewTeller, Telling
<1>3. ASSUME NEW a \in Attempts, ReadLink(a) PROVE NoNewTeller
  <2>1. attempt[a].then # "blocked"
    BY <1>3 DEF ReadLink, IsAttempt, AttemptsKnow
  <2>2. \/ Answer(a)
        \/ attempt' = [attempt EXCEPT ![a].pc = "verifying", ![a].seen = failed[attempt[a].of]]
        \/ attempt' = [attempt EXCEPT ![a].pc = "counting", ![a].then = "expiring"]
        \/ attempt' = [attempt EXCEPT ![a].pc = "counting", ![a].then = "idle"]
    BY <1>3 DEF ReadLink
  <2> QED
    BY <1>0, <2>1, <2>2 DEF Answer, IdleAttempt, NoNewTeller, Telling, AttemptRecords
<1>4. ASSUME NEW a \in Attempts, NEW verdict \in {"wrong", "right"}, VerifyPin(a, verdict)
      PROVE  NoNewTeller
  BY <1>0, <1>4 DEF VerifyPin, IsAttempt, GoTo, NoNewTeller, Telling, AttemptRecords
<1>5. ASSUME NEW a \in Attempts, LoseRace(a) PROVE NoNewTeller
  BY <1>0, <1>5 DEF LoseRace, NoNewTeller, Telling, AttemptRecords
<1>6. ASSUME NEW a \in Attempts, SaveRightPin(a) PROVE NoNewTeller
  BY <1>0, <1>6 DEF SaveRightPin, IsAttempt, NoNewTeller, Telling, AttemptRecords
<1>7. ASSUME NEW a \in Attempts, CountFailure(a) PROVE NoNewTeller
  <2>1. attempt[a].pc = "counting"
    BY <1>7 DEF CountFailure, IsAttempt
  <2>2. Answer(a) \/ GoTo(a, attempt[a].then)
    BY <1>7 DEF CountFailure
  <2> QED
    BY <1>0, <2>1, <2>2 DEF Answer, GoTo, IdleAttempt, NoNewTeller, Telling, AttemptRecords
<1>8. ASSUME NEW a \in Attempts, JournalizeBlocking(a) \/ JournalizeOpening(a)
      PROVE  NoNewTeller
  BY <1>0, <1>8 DEF JournalizeBlocking, JournalizeOpening, IsAttempt, GoTo, NoNewTeller,
         Telling, AttemptRecords
<1>9. ASSUME NEW a \in Attempts, Ended(a) PROVE NoNewTeller
  <2>1. attempt' = [attempt EXCEPT ![a] = IdleAttempt]
        \/ attempt' = [attempt EXCEPT ![a] = [IdleAttempt EXCEPT !.pc = "stopped"]]
    BY <1>9 DEF Ended, GateIsFull, TellExpiry, TellBlocking, OpenSession, Answer
  <2> QED  BY <1>0, <2>1 DEF IdleAttempt, NoNewTeller, Telling
<1> QED
  BY <1>1, <1>2, <1>3, <1>4, <1>5, <1>6, <1>7, <1>8, <1>9, AttemptsChange DEF Served

\* The journal of blockings is written by one action.
LEMMA JournalChange ==
    ASSUME TypeOK, AttemptsKnow, [Next]_vars
    PROVE  \/ \A l \in Links : journal'[l]["access_link_blocked"] = journal[l]["access_link_blocked"]
           \/ \E a \in Attempts : JournalizeBlocking(a)
<1>1. CASE UNCHANGED journal
  BY <1>1
<1>2. ASSUME NEW a \in Attempts, JournalizeOpening(a)
      PROVE  \A l \in Links : journal'[l]["access_link_blocked"] = journal[l]["access_link_blocked"]
  BY <1>2 DEF JournalizeOpening, Journalize, TypeOK, LinkEventTypes
<1>3. \/ UNCHANGED journal
      \/ \E a \in Attempts : JournalizeOpening(a) \/ JournalizeBlocking(a)
  <2>1. CASE UNCHANGED vars
    BY <2>1 DEF vars
  <2>2. CASE Unlocking
    BY <2>2 DEF Unlocking, StartAttempt, ReadLink, VerifyPin, GateIsFull, LoseRace,
           SaveWrongPin, SaveRightPin, CountFailure, TellExpiry, TellBlocking, OpenSession
  <2>3. CASE Lawyering
    BY <2>3 DEF Lawyering, BeginEmission, FailEmission, EmitLink, RevokeLink
  <2>4. CASE Depositing
    BY <2>4 DEF Depositing, EnterDeposit, AuthorizeUpload
  <2>5. CASE ListExpired \/ TellListed \/ StopHalfWay \/ Tick
    BY <2>5 DEF ListExpired, TellListed, StopHalfWay, Tick
  <2> QED  BY <2>1, <2>2, <2>3, <2>4, <2>5 DEF Next
<1> QED  BY <1>1, <1>2, <1>3

\* A blocked link stays blocked, and only a wrong PIN blocks one.
LEMMA BlockedStays ==
    ASSUME TypeOK, [Next]_vars
    PROVE  /\ \A l \in Links : link[l] = "blocked" => link'[l] = "blocked"
           /\ \/ \A l \in Links : link'[l] = "blocked" => link[l] = "blocked"
              \/ \E a \in Attempts : SaveWrongPin(a)
<1>0. link \in [Links -> LinkStatuses]
  BY DEF TypeOK
<1>1. CASE UNCHANGED rows
  BY <1>1 DEF rows
<1>2. ASSUME NEW a \in Attempts, SaveWrongPin(a)
      PROVE  \A l \in Links : link[l] = "blocked" => link'[l] = "blocked"
  BY <1>0, <1>2 DEF SaveWrongPin, StillAsRead
<1>3. ASSUME NEW a \in Attempts, SaveRightPin(a)
      PROVE  \A l \in Links : link[l] = "blocked" <=> link'[l] = "blocked"
  BY <1>0, <1>3 DEF SaveRightPin, StillAsRead
<1>4. ASSUME NEW o \in Offices, NEW k \in Links, EmitLink(o, k) \/ RevokeLink(o, k)
      PROVE  \A l \in Links : link[l] = "blocked" <=> link'[l] = "blocked"
  BY <1>0, <1>4 DEF EmitLink, RevokeLink, ActiveLinks
<1> QED  BY <1>1, <1>2, <1>3, <1>4, RowsChange

\* At most one attempt has blocked a link, and the journal is told once.
LEMMA TellerStep ==
    IInv /\ [Next]_vars => OneTeller' /\ BlockingToldOnce'
<1> SUFFICES ASSUME IInv, [Next]_vars PROVE OneTeller' /\ BlockingToldOnce'
  OBVIOUS
<1> USE DEF IInv
<1>0. /\ attempt \in [Attempts -> AttemptRecords] /\ link \in [Links -> LinkStatuses]
      /\ journal \in [Links -> [LinkEventTypes -> Nat]]
      /\ "access_link_blocked" \in LinkEventTypes
  BY DEF TypeOK, LinkEventTypes
<1>4. ASSUME NEW k \in Links, link[k] # "blocked" PROVE journal[k]["access_link_blocked"] = 0
  <2>1. journal[k] \in [LinkEventTypes -> Nat]
    BY <1>0
  <2>2. journal[k]["access_link_blocked"] \in Nat
    BY <1>0, <2>1
  <2> QED  BY <1>4, <2>2 DEF BlockingToldOnce
<1>1. ASSUME NEW a \in Attempts, SaveWrongPin(a) PROVE OneTeller' /\ BlockingToldOnce'
  <2> DEFINE l == attempt[a].of
  <2>1. l \in Links /\ link[l] = "active" /\ journal' = journal
    BY <1>1 DEF SaveWrongPin, IsAttempt, AttemptsKnow, StillAsRead
  <2>2. \A b \in Attempts : ~ Telling(b, l)
    BY <2>1 DEF OneTeller
  <2>3. journal[l]["access_link_blocked"] = 0
    BY <1>4, <2>1
  <2>4. \A k \in Links : k # l => link'[k] = link[k]
    BY <1>0, <1>1 DEF SaveWrongPin
  <2>5. \A b \in Attempts : b # a => attempt'[b] = attempt[b]
    BY <1>0, <1>1 DEF SaveWrongPin
  <2>6. /\ attempt'[a].of = l /\ attempt'[a].pc = "counting"
        /\ attempt'[a].then = "blocked" => link'[l] = "blocked"
    BY <1>0, <1>1, <2>1 DEF SaveWrongPin, AttemptRecords
  <2>7. OneTeller'
    BY <2>1, <2>2, <2>3, <2>4, <2>5, <2>6 DEF OneTeller, Telling
  <2>8. BlockingToldOnce'
    BY <2>1, <2>3, <2>4 DEF BlockingToldOnce
  <2> QED  BY <2>7, <2>8
<1>2. ASSUME NEW a \in Attempts, JournalizeBlocking(a) PROVE OneTeller' /\ BlockingToldOnce'
  <2> DEFINE l == attempt[a].of
  <2>1. /\ l \in Links /\ attempt[a].pc = "blocked" /\ link' = link
        /\ Telling(a, l)
    BY <1>2 DEF JournalizeBlocking, IsAttempt, AttemptsKnow, Telling, rows
  <2>2. link[l] = "blocked" /\ journal[l]["access_link_blocked"] = 0
    BY <2>1 DEF OneTeller
  <2>3. \A k \in Links : k # l => journal'[k] = journal[k]
    BY <1>0, <1>2 DEF JournalizeBlocking, Journalize
  <2>4. journal'[l]["access_link_blocked"] = 1
    BY <1>0, <1>2, <2>1, <2>2 DEF JournalizeBlocking, Journalize
  <2>5. \A b \in Attempts : b # a => attempt'[b] = attempt[b]
    BY <1>0, <1>2 DEF JournalizeBlocking, GoTo
  <2>6. attempt'[a].of = l /\ attempt'[a].pc = "blocking" /\ attempt'[a].then = "blocked"
    BY <1>0, <1>2, <2>1 DEF JournalizeBlocking, GoTo, AttemptRecords, Telling
  <2>7. OneTeller'
    BY <2>1, <2>3, <2>5, <2>6 DEF OneTeller, Telling
  <2>8. BlockingToldOnce'
    BY <2>1, <2>2, <2>3, <2>4 DEF BlockingToldOnce
  <2> QED  BY <2>7, <2>8
<1>3. CASE /\ NoNewTeller
           /\ \A l \in Links : journal'[l]["access_link_blocked"] = journal[l]["access_link_blocked"]
  <2>1. \A l \in Links : link[l] = "blocked" => link'[l] = "blocked"
    BY BlockedStays
  <2>2. OneTeller'
    BY <1>3, <2>1 DEF OneTeller, NoNewTeller, Telling
  <2>3. BlockingToldOnce'
    BY <1>3, <2>1 DEF BlockingToldOnce
  <2> QED  BY <2>2, <2>3
<1> QED  BY <1>1, <1>2, <1>3, TellersOnlyLeave, JournalChange

\* The request of a link only hears of its blocking and of its expiry, and a
\* request that has heard of either stays where it is.
LEMMA RequestChange ==
    ASSUME RequestOfLinks, [Next]_vars
    PROVE  /\ RequestOfLinks'
           /\ request # "incomplete" => request' = request
           /\ \A a \in Attempts : TellBlocking(a) => request' # "incomplete"
<1>1. UNCHANGED request \/ \E e : ApplyToRequest(e)
  <2>1. CASE UNCHANGED vars
    BY <2>1 DEF vars
  <2>2. CASE Unlocking
    BY <2>2 DEF Unlocking, StartAttempt, ReadLink, VerifyPin, GateIsFull, LoseRace,
           SaveWrongPin, SaveRightPin, CountFailure, TellExpiry, JournalizeBlocking,
           TellBlocking, JournalizeOpening, OpenSession
  <2>3. CASE Lawyering
    BY <2>3 DEF Lawyering, BeginEmission, FailEmission, EmitLink, RevokeLink
  <2>4. CASE Depositing
    BY <2>4 DEF Depositing, EnterDeposit, AuthorizeUpload
  <2>5. CASE ListExpired \/ TellListed \/ StopHalfWay \/ Tick
    BY <2>5 DEF ListExpired, TellListed, StopHalfWay, Tick
  <2> QED  BY <2>1, <2>2, <2>3, <2>4, <2>5 DEF Next
<1>2. request' = request \/ \E e : request' = AfterPipelineEvent(request, e)
  BY <1>1 DEF ApplyToRequest
<1>3. \A e : /\ AfterPipelineEvent(request, e) \in {"incomplete", "blocked", "expired_incomplete"}
             /\ request # "incomplete" => AfterPipelineEvent(request, e) = request
  BY DEF RequestOfLinks, AfterPipelineEvent
<1>4. ASSUME NEW a \in Attempts, TellBlocking(a) PROVE request' # "incomplete"
  BY <1>4 DEF TellBlocking, ApplyToRequest, AfterPipelineEvent
<1> QED  BY <1>2, <1>3, <1>4 DEF RequestOfLinks

\* An attempt that has a blocking to tell goes on to tell it, unless it stops.
LEMMA TellersTell ==
    ASSUME TypeOK, AttemptsKnow, [Next]_vars,
           NEW a \in Attempts, NEW l \in Links, Telling(a, l)
    PROVE  \/ attempt'[a].of = l /\ attempt'[a].then = "blocked"
           \/ attempt'[a].pc = "stopped"
           \/ TellBlocking(a)
<1>0. attempt \in [Attempts -> AttemptRecords]
  BY DEF TypeOK
<1>1. /\ attempt[a].pc \in {"counting", "blocked", "blocking"}
      /\ attempt[a].of = l /\ attempt[a].then = "blocked"
  BY DEF AttemptsKnow, Telling
<1>2. ASSUME NEW b \in Attempts, b # a, Served(b) \/ Ended(b) PROVE attempt'[a] = attempt[a]
  <2>1. CASE Served(b)
    BY <1>0, <1>2, <2>1 DEF Served, StartAttempt, ReadLink, VerifyPin, LoseRace, SaveWrongPin,
           SaveRightPin, CountFailure, JournalizeBlocking, JournalizeOpening, Answer, GoTo
  <2>2. CASE Ended(b)
    BY <1>0, <1>2, <2>2 DEF Ended, GateIsFull, TellExpiry, TellBlocking, OpenSession, Answer
  <2> QED  BY <1>2, <2>1, <2>2
<1>3. CASE Served(a)
  <2>1. CountFailure(a) \/ JournalizeBlocking(a)
    BY <1>3, <1>1 DEF Served, StartAttempt, ReadLink, VerifyPin, LoseRace, SaveWrongPin,
           SaveRightPin, JournalizeOpening, IsAttempt
  <2>2. GoTo(a, "blocked") \/ GoTo(a, "blocking")
    BY <2>1, <1>1 DEF CountFailure, JournalizeBlocking
  <2> QED  BY <1>0, <1>1, <2>2 DEF GoTo, AttemptRecords
<1>4. CASE Ended(a)
  <2>1. \/ TellBlocking(a)
        \/ attempt' = [attempt EXCEPT ![a] = [IdleAttempt EXCEPT !.pc = "stopped"]]
    BY <1>1, <1>4 DEF Ended, GateIsFull, TellExpiry, OpenSession, IsAttempt
  <2> QED  BY <1>0, <2>1 DEF IdleAttempt
<1> QED  BY <1>1, <1>2, <1>3, <1>4, AttemptsChange

\* An attempt that has stopped half way is not taken up again.
LEMMA StoppedStays ==
    ASSUME TypeOK, AttemptsKnow, [Next]_vars, NEW a \in Attempts, attempt[a].pc = "stopped"
    PROVE  attempt'[a].pc = "stopped"
<1>0. attempt \in [Attempts -> AttemptRecords]
  BY DEF TypeOK
<1>1. ASSUME NEW b \in Attempts, Served(b) PROVE attempt'[a] = attempt[a]
  BY <1>0, <1>1 DEF Served, StartAttempt, ReadLink, VerifyPin, LoseRace, SaveWrongPin,
         SaveRightPin, CountFailure, JournalizeBlocking, JournalizeOpening, IsAttempt, Answer, GoTo
<1>2. ASSUME NEW b \in Attempts, Ended(b) PROVE attempt'[a].pc = "stopped"
  BY <1>0, <1>2 DEF Ended, GateIsFull, TellExpiry, TellBlocking, OpenSession, Answer,
         IsAttempt, IdleAttempt
<1> QED  BY <1>1, <1>2, AttemptsChange

\* A blocking reaches the request, or an attempt is still on its way to tell it.
LEMMA ReachesStep == IInv /\ [Next]_vars => BlockingReachesRequest'
<1> SUFFICES ASSUME IInv, [Next]_vars, NEW l \in Links, link'[l] = "blocked"
             PROVE  \/ request' \in {"blocked", "expired_incomplete"}
                    \/ \E a \in Attempts : attempt'[a].pc = "stopped"
                    \/ \E a \in Attempts : attempt'[a].of = l /\ attempt'[a].then = "blocked"
  BY DEF BlockingReachesRequest
<1> USE DEF IInv
<1>1. RequestOfLinks' /\ (request # "incomplete" => request' = request)
  BY RequestChange
<1>2. ASSUME NEW a \in Attempts, SaveWrongPin(a), link[l] # "blocked"
      PROVE  attempt'[a].of = l /\ attempt'[a].then = "blocked"
  <2>1. attempt \in [Attempts -> AttemptRecords] /\ link \in [Links -> LinkStatuses]
    BY DEF TypeOK
  <2>2. attempt[a].of = l /\ BecomesBlocked(attempt[a].seen + 1)
    BY <2>1, <1>2 DEF SaveWrongPin
  <2> QED  BY <2>1, <2>2, <1>2 DEF SaveWrongPin, AttemptRecords
<1>3. CASE link[l] = "blocked" /\ request \in {"blocked", "expired_incomplete"}
  BY <1>1, <1>3
<1>4. ASSUME NEW a \in Attempts, attempt[a].pc = "stopped" PROVE attempt'[a].pc = "stopped"
  BY <1>4, StoppedStays
<1>5. ASSUME NEW a \in Attempts, Telling(a, l)
      PROVE  \/ attempt'[a].of = l /\ attempt'[a].then = "blocked"
             \/ attempt'[a].pc = "stopped"
             \/ request' # "incomplete"
  BY <1>5, TellersTell, RequestChange
<1>6. link[l] = "blocked" =>
        \/ request \in {"blocked", "expired_incomplete"}
        \/ \E a \in Attempts : attempt[a].pc = "stopped"
        \/ \E a \in Attempts : Telling(a, l)
  BY DEF BlockingReachesRequest, Telling
<1>7. link[l] = "blocked" \/ \E a \in Attempts : SaveWrongPin(a)
  BY BlockedStays
<1> QED
  BY <1>1, <1>2, <1>3, <1>4, <1>5, <1>6, <1>7 DEF RequestOfLinks

\* A session never takes more tickets than it is allowed: the last one is
\* counted and compared in one statement.
LEMMA AllowanceStep == TypeOK /\ AllowanceBounded /\ [Next]_vars => AllowanceBounded'
<1> SUFFICES ASSUME TypeOK, AllowanceBounded, [Next]_vars PROVE AllowanceBounded'
  OBVIOUS
<1>0. uploads \in [Sessions -> Nat]
  BY DEF TypeOK
<1>1. ASSUME NEW v \in Visits, NEW s \in Sessions, AuthorizeUpload(v, s)
      PROVE  AllowanceBounded'
  BY <1>0, <1>1, AccessAssumption DEF AuthorizeUpload, AllowanceLeft, AllowanceBounded
<1>2. CASE UNCHANGED uploads
  BY <1>2 DEF AllowanceBounded
<1>3. UNCHANGED uploads \/ \E v \in Visits, s \in Sessions : AuthorizeUpload(v, s)
  <2>1. CASE UNCHANGED vars
    BY <2>1 DEF vars, tables
  <2>2. CASE Unlocking
    BY <2>2 DEF Unlocking, StartAttempt, ReadLink, VerifyPin, GateIsFull, LoseRace,
           SaveWrongPin, SaveRightPin, CountFailure, TellExpiry, JournalizeBlocking,
           TellBlocking, JournalizeOpening, OpenSession, tables
  <2>3. CASE Lawyering
    BY <2>3 DEF Lawyering, BeginEmission, FailEmission, EmitLink, RevokeLink, tables
  <2>4. CASE Depositing
    BY <2>4 DEF Depositing, EnterDeposit, tables
  <2>5. CASE ListExpired \/ TellListed \/ StopHalfWay \/ Tick
    BY <2>5 DEF ListExpired, TellListed, StopHalfWay, Tick, tables
  <2> QED  BY <2>1, <2>2, <2>3, <2>4, <2>5 DEF Next
<1> QED  BY <1>1, <1>2, <1>3

-----------------------------------------------------------------------------
(***************************************************************************)
(* The theorems.                                                           *)
(***************************************************************************)
\* Initially there is no link, no session and no attempt.
LEMMA InvInit == Init => IInv
<1> SUFFICES ASSUME Init PROVE IInv
  OBVIOUS
<1>1. CounterTellsGuesses /\ OneActiveLink /\ AllowanceBounded
  BY AccessAssumption
     DEF Init, CounterTellsGuesses, OneActiveLink, ActiveLinks, AllowanceBounded
<1>2. AttemptsKnow /\ RequestOfLinks
  BY DEF Init, AttemptsKnow, IdleAttempt, RequestOfLinks
<1>3. OneTeller
  BY DEF Init, OneTeller, Telling, IdleAttempt
<1>4. BlockingToldOnce /\ BlockingReachesRequest
  BY DEF Init, BlockingToldOnce, BlockingReachesRequest, LinkEventTypes
<1> QED  BY <1>1, <1>2, <1>3, <1>4, TypeInit DEF IInv

\* Every step keeps the invariant.
LEMMA InvStep == IInv /\ [Next]_vars => IInv'
<1> SUFFICES ASSUME IInv, [Next]_vars PROVE IInv'
  OBVIOUS
<1>1. TypeOK' /\ CounterTellsGuesses' /\ AttemptsKnow'
  BY TypeStep, CounterStep, AttemptsKnowStep DEF IInv
<1>2. OneTeller' /\ BlockingToldOnce' /\ BlockingReachesRequest'
  BY TellerStep, ReachesStep
<1>3. OneActiveLink' /\ AllowanceBounded' /\ RequestOfLinks'
  BY OneActiveLinkStep, AllowanceStep, RequestChange DEF IInv
<1> QED  BY <1>1, <1>2, <1>3 DEF IInv

\* The invariant holds in every state the portal reaches.
THEOREM Invariance == Spec => []IInv
BY InvInit, InvStep, PTL DEF Spec

\* The rows keep their schema and every request is at one of its statements.
THEOREM TypeCorrect == Spec => []TypeOK
<1>1. IInv => TypeOK
  BY DEF IInv
<1> QED  BY <1>1, Invariance, PTL

\* However many attempts verify at once, no more than max_pin_attempts wrong
\* PINs are answered between two right ones.
THEOREM GuessesAreBounded == Spec => []GuessesBounded
<1>1. IInv => GuessesBounded
  BY DEF IInv, CounterTellsGuesses, GuessesBounded, TypeOK
<1> QED  BY <1>1, Invariance, PTL

\* A client never holds two working links to one request.
THEOREM UniqueActiveLink == Spec => []OneActiveLink
<1>1. IInv => OneActiveLink
  BY DEF IInv
<1> QED  BY <1>1, Invariance, PTL

\* The journal shows a blocking once, and only of a link that is blocked.
THEOREM ToldOnce == Spec => []BlockingToldOnce
<1>1. IInv => BlockingToldOnce
  BY DEF IInv
<1> QED  BY <1>1, Invariance, PTL

\* A blocking reaches the request, or an attempt is on its way to tell it,
\* unless an attempt has stopped half way.
THEOREM BlockingReaches == Spec => []BlockingReachesRequest
<1>1. IInv => BlockingReachesRequest
  BY DEF IInv
<1> QED  BY <1>1, Invariance, PTL

\* Uploads that run at once never take more tickets than a session is allowed.
THEOREM AllowanceKept == Spec => []AllowanceBounded
<1>1. IInv => AllowanceBounded
  BY DEF IInv
<1> QED  BY <1>1, Invariance, PTL

\* No attempt, emission or revocation brings a dead link to life again.
THEOREM DeadStaysDead == Spec => DeadLinkStaysDead
<1>1. ASSUME IInv, [Next]_vars
      PROVE  [\A l \in Links : link[l] \in {"blocked", "revoked"} => link'[l] = link[l]]_link
  <2>0. link \in [Links -> LinkStatuses]
    BY <1>1 DEF IInv, TypeOK
  <2>1. CASE UNCHANGED rows
    BY <2>1 DEF rows
  <2>2. ASSUME NEW a \in Attempts, SaveWrongPin(a) \/ SaveRightPin(a)
        PROVE  \A l \in Links : link[l] # "active" => link'[l] = link[l]
    BY <2>0, <2>2 DEF SaveWrongPin, SaveRightPin, StillAsRead
  <2>3. ASSUME NEW o \in Offices, NEW k \in Links, EmitLink(o, k) \/ RevokeLink(o, k)
        PROVE  \A l \in Links : link[l] \in {"blocked", "revoked"} => link'[l] = link[l]
    BY <2>0, <2>3 DEF EmitLink, RevokeLink, ActiveLinks
  <2> QED  BY <1>1, <2>1, <2>2, <2>3, RowsChange
<1>2. IInv /\ [Next]_vars
        => [\A l \in Links : link[l] \in {"blocked", "revoked"} => link'[l] = link[l]]_link
  BY <1>1
<1> QED  BY <1>2, Invariance, PTL DEF Spec, DeadLinkStaysDead

-----------------------------------------------------------------------------
(***************************************************************************)
(* The sessions: an invariant of their own, on top of the first one.       *)
(***************************************************************************)
Opened(l) == {s \in Sessions : opener[s] = l}
Opening(l) == {a \in Attempts : attempt[a].pc = "opening" /\ attempt[a].of = l}

\* The event is written first: it accounts for the sessions that are open and
\* for the attempts that are about to open one.
EventsFirst ==
    \A l \in Links :
        /\ IsFiniteSet(Opened(l)) /\ IsFiniteSet(Opening(l))
        /\ Cardinality(Opened(l)) + Cardinality(Opening(l)) <= journal[l]["deposit_session_opened"]

\* Only a link that has been issued, and has its expiry, opens a session.
SessionsWithinLink ==
    /\ \A a \in Attempts :
         attempt[a].pc \in {"granted", "opening"} => link[attempt[a].of] # "absent"
    /\ \A s \in Sessions : opener[s] # NoLink =>
         link[opener[s]] # "absent" /\ ending[s] <= expires[opener[s]]

SInv == EventsFirst /\ SessionsWithinLink

\* Initially there is no session.
LEMMA SessionsInit == Init => SInv
<1> SUFFICES ASSUME Init PROVE SInv
  OBVIOUS
<1>1. \A l \in Links : Opened(l) = {} /\ Opening(l) = {}
  BY AccessAssumption DEF Init, IdleAttempt, Opened, Opening
<1>2. \A l \in Links : journal[l]["deposit_session_opened"] = 0
  BY DEF Init, LinkEventTypes
<1>3. EventsFirst
  BY <1>1, <1>2, FS_EmptySet DEF EventsFirst
<1>4. SessionsWithinLink
  BY DEF Init, IdleAttempt, SessionsWithinLink
<1> QED  BY <1>3, <1>4 DEF SInv

\* The table of sessions and the journal of openings are written by one action
\* each.
LEMMA SessionsChange ==
    ASSUME TypeOK, AttemptsKnow, [Next]_vars
    PROVE  /\ \/ UNCHANGED <<opener, ending>>
              \/ \E a \in Attempts, s \in Sessions : OpenSession(a, s)
           /\ \/ \A l \in Links : journal'[l]["deposit_session_opened"]
                                    = journal[l]["deposit_session_opened"]
              \/ \E a \in Attempts : JournalizeOpening(a)
<1>1. ASSUME NEW a \in Attempts, JournalizeBlocking(a)
      PROVE  \A l \in Links : journal'[l]["deposit_session_opened"]
                                = journal[l]["deposit_session_opened"]
  BY <1>1 DEF JournalizeBlocking, Journalize, TypeOK, LinkEventTypes
<1>2. CASE UNCHANGED vars
  BY <1>2 DEF vars, tables
<1>3. CASE Unlocking
  <2>1. \/ UNCHANGED <<opener, ending>>
        \/ \E a \in Attempts, s \in Sessions : OpenSession(a, s)
    BY <1>3 DEF Unlocking, StartAttempt, ReadLink, VerifyPin, GateIsFull, LoseRace,
           SaveWrongPin, SaveRightPin, CountFailure, TellExpiry, JournalizeBlocking,
           TellBlocking, JournalizeOpening, tables
  <2>2. \/ UNCHANGED journal
        \/ \E a \in Attempts : JournalizeBlocking(a) \/ JournalizeOpening(a)
    BY <1>3 DEF Unlocking, StartAttempt, ReadLink, VerifyPin, GateIsFull, LoseRace,
           SaveWrongPin, SaveRightPin, CountFailure, TellExpiry, TellBlocking, OpenSession
  <2> QED  BY <1>1, <2>1, <2>2
<1>4. CASE Lawyering
  BY <1>4 DEF Lawyering, BeginEmission, FailEmission, EmitLink, RevokeLink, tables
<1>5. CASE Depositing
  BY <1>5 DEF Depositing, EnterDeposit, AuthorizeUpload, tables
<1>6. CASE ListExpired \/ TellListed \/ StopHalfWay \/ Tick
  BY <1>6 DEF ListExpired, TellListed, StopHalfWay, Tick, tables
<1> QED  BY <1>2, <1>3, <1>4, <1>5, <1>6 DEF Next

\* An attempt that is granted, or about to open its session, was already, unless
\* a right PIN has just been saved or its event written.
LEMMA GrantsOnlyLeave ==
    ASSUME TypeOK, AttemptsKnow, [Next]_vars
    PROVE  \/ \A a \in Attempts : attempt'[a].pc \in {"granted", "opening"} =>
                                    attempt'[a] = attempt[a]
           \/ \E a \in Attempts : SaveRightPin(a) \/ JournalizeOpening(a)
<1>0. attempt \in [Attempts -> AttemptRecords]
  BY DEF TypeOK
<1> DEFINE Leave == \A a \in Attempts : attempt'[a].pc \in {"granted", "opening"} =>
                                           attempt'[a] = attempt[a]
<1>1. ASSUME NEW a \in Attempts, \/ \E l \in Links : StartAttempt(a, l)
                                 \/ \E verdict \in {"wrong", "right"} : VerifyPin(a, verdict)
      PROVE  Leave
  <2>1. CASE \E l \in Links : StartAttempt(a, l)
    BY <1>0, <2>1 DEF StartAttempt, IdleAttempt
  <2>2. CASE \E verdict \in {"wrong", "right"} : VerifyPin(a, verdict)
    BY <1>0, <2>2 DEF VerifyPin, GoTo, AttemptRecords
  <2> QED  BY <1>1, <2>1, <2>2
<1>2. ASSUME NEW a \in Attempts, ReadLink(a) PROVE Leave
  <2>1. \/ Answer(a)
        \/ attempt' = [attempt EXCEPT ![a].pc = "verifying", ![a].seen = failed[attempt[a].of]]
        \/ attempt' = [attempt EXCEPT ![a].pc = "counting", ![a].then = "expiring"]
        \/ attempt' = [attempt EXCEPT ![a].pc = "counting", ![a].then = "idle"]
    BY <1>2 DEF ReadLink
  <2> QED  BY <1>0, <2>1 DEF Answer, IdleAttempt, AttemptRecords
<1>3. ASSUME NEW a \in Attempts, LoseRace(a) \/ SaveWrongPin(a) PROVE Leave
  BY <1>0, <1>3 DEF LoseRace, SaveWrongPin, AttemptRecords
<1>4. ASSUME NEW a \in Attempts, CountFailure(a) PROVE Leave
  <2>1. attempt[a].then \notin {"granted", "opening"}
    BY DEF AttemptsKnow
  <2>2. Answer(a) \/ GoTo(a, attempt[a].then)
    BY <1>4 DEF CountFailure
  <2> QED  BY <1>0, <2>1, <2>2 DEF Answer, GoTo, IdleAttempt, AttemptRecords
<1>5. ASSUME NEW a \in Attempts, JournalizeBlocking(a) PROVE Leave
  BY <1>0, <1>5 DEF JournalizeBlocking, GoTo, AttemptRecords
<1>6. ASSUME NEW a \in Attempts, Ended(a) PROVE Leave
  <2>1. \/ attempt' = [attempt EXCEPT ![a] = IdleAttempt]
        \/ attempt' = [attempt EXCEPT ![a] = [IdleAttempt EXCEPT !.pc = "stopped"]]
    BY <1>6 DEF Ended, GateIsFull, TellExpiry, TellBlocking, OpenSession, Answer
  <2> QED  BY <1>0, <2>1 DEF IdleAttempt
<1> QED  BY <1>1, <1>2, <1>3, <1>4, <1>5, <1>6, AttemptsChange DEF Served

\* Every session that is open, or about to be, has its event.
LEMMA EventsFirstStep == IInv /\ SInv /\ [Next]_vars => EventsFirst'
<1> SUFFICES ASSUME IInv, SInv, [Next]_vars PROVE EventsFirst'
  OBVIOUS
<1>0. /\ TypeOK /\ AttemptsKnow
      /\ attempt \in [Attempts -> AttemptRecords]
      /\ journal \in [Links -> [LinkEventTypes -> Nat]]
      /\ opener \in [Sessions -> Links \cup {NoLink}]
      /\ "deposit_session_opened" \in LinkEventTypes
  BY DEF IInv, TypeOK, LinkEventTypes
<1> DEFINE Told(l) == journal[l]["deposit_session_opened"]
<1>1. \A l \in Links : /\ IsFiniteSet(Opened(l)) /\ IsFiniteSet(Opening(l))
                       /\ Cardinality(Opened(l)) \in Nat /\ Cardinality(Opening(l)) \in Nat
                       /\ Cardinality(Opened(l)) + Cardinality(Opening(l)) <= Told(l)
                       /\ Told(l) \in Nat
  BY <1>0, FS_CardinalityType DEF SInv, EventsFirst
<1>2. ASSUME NEW a \in Attempts, JournalizeOpening(a) PROVE EventsFirst'
  <2> SUFFICES ASSUME NEW l \in Links
               PROVE  /\ IsFiniteSet(Opened(l)') /\ IsFiniteSet(Opening(l)')
                      /\ Cardinality(Opened(l)') + Cardinality(Opening(l)') <= Told(l)'
    BY DEF EventsFirst
  <2>1. Opened(l)' = Opened(l)
    BY <1>2 DEF JournalizeOpening, Opened, tables
  <2>2. a \notin Opening(l)
    BY <1>2 DEF JournalizeOpening, IsAttempt, Opening
  <2>3. attempt[a].of \in Links
    BY <1>0, <1>2 DEF JournalizeOpening, IsAttempt, AttemptsKnow
  <2>4. CASE attempt[a].of = l
    <3>1. Opening(l)' = Opening(l) \cup {a}
      BY <1>0, <1>2, <2>4 DEF JournalizeOpening, GoTo, Opening, AttemptRecords
    <3>2. Told(l)' = Told(l) + 1
      BY <1>0, <1>2, <2>4 DEF JournalizeOpening, Journalize
    <3>3. /\ IsFiniteSet(Opening(l) \cup {a})
          /\ Cardinality(Opening(l) \cup {a}) = Cardinality(Opening(l)) + 1
      BY <1>1, <2>2, FS_AddElement
    <3> QED  BY <1>1, <2>1, <3>1, <3>2, <3>3
  <2>5. CASE attempt[a].of # l
    <3>1. Opening(l)' = Opening(l)
      BY <1>0, <1>2, <2>5 DEF JournalizeOpening, GoTo, Opening, AttemptRecords
    <3>2. Told(l)' = Told(l)
      BY <1>0, <1>2, <2>3, <2>5 DEF JournalizeOpening, Journalize
    <3> QED  BY <1>1, <2>1, <3>1, <3>2
  <2> QED  BY <2>4, <2>5
<1>3. ASSUME NEW a \in Attempts, NEW s \in Sessions, OpenSession(a, s) PROVE EventsFirst'
  <2> SUFFICES ASSUME NEW l \in Links
               PROVE  /\ IsFiniteSet(Opened(l)') /\ IsFiniteSet(Opening(l)')
                      /\ Cardinality(Opened(l)') + Cardinality(Opening(l)') <= Told(l)'
    BY DEF EventsFirst
  <2>1. Told(l)' = Told(l)
    BY <1>3 DEF OpenSession
  <2>2. s \notin Opened(l)
    BY <1>3, AccessAssumption DEF OpenSession, Opened
  <2>3. CASE attempt[a].of = l
    <3>1. Opening(l)' = Opening(l) \ {a} /\ a \in Opening(l)
      BY <1>0, <1>3, <2>3, AccessAssumption
         DEF OpenSession, IsAttempt, Answer, IdleAttempt, Opening
    <3>2. Opened(l)' = Opened(l) \cup {s}
      BY <1>0, <1>3, <2>3 DEF OpenSession, Opened
    <3>3. /\ IsFiniteSet(Opening(l) \ {a})
          /\ Cardinality(Opening(l) \ {a}) = Cardinality(Opening(l)) - 1
      BY <1>1, <3>1, FS_RemoveElement
    <3>4. /\ IsFiniteSet(Opened(l) \cup {s})
          /\ Cardinality(Opened(l) \cup {s}) = Cardinality(Opened(l)) + 1
      BY <1>1, <2>2, FS_AddElement
    <3> QED  BY <1>1, <2>1, <3>1, <3>2, <3>3, <3>4
  <2>4. CASE attempt[a].of # l
    <3>1. Opening(l)' = Opening(l) /\ Opened(l)' = Opened(l)
      BY <1>0, <1>3, <2>2, <2>4 DEF OpenSession, IsAttempt, Answer, IdleAttempt, Opening, Opened
    <3> QED  BY <1>1, <2>1, <3>1
  <2> QED  BY <2>3, <2>4
<1>4. CASE /\ UNCHANGED opener
           /\ \A l \in Links : Told(l)' = Told(l)
           /\ \A a \in Attempts : attempt'[a].pc = "opening" => attempt'[a] = attempt[a]
  <2> SUFFICES ASSUME NEW l \in Links
               PROVE  /\ IsFiniteSet(Opened(l)') /\ IsFiniteSet(Opening(l)')
                      /\ Cardinality(Opened(l)') + Cardinality(Opening(l)') <= Told(l)'
    BY DEF EventsFirst
  <2>1. Opened(l)' = Opened(l) /\ Opening(l)' \subseteq Opening(l)
    BY <1>4 DEF Opened, Opening
  <2>2. IsFiniteSet(Opening(l)') /\ Cardinality(Opening(l)') <= Cardinality(Opening(l))
    BY <1>1, <2>1, FS_Subset
  <2>3. Cardinality(Opening(l)') \in Nat
    BY <2>2, FS_CardinalityType
  <2> QED  BY <1>1, <1>4, <2>1, <2>2, <2>3
<1>5. ASSUME NEW b \in Attempts, SaveRightPin(b)
      PROVE  \A a \in Attempts : attempt'[a].pc = "opening" => attempt'[a] = attempt[a]
  BY <1>0, <1>5 DEF SaveRightPin, AttemptRecords
<1> QED  BY <1>0, <1>2, <1>3, <1>4, <1>5, SessionsChange, GrantsOnlyLeave

\* A session that is open ends no later than its link.
LEMMA SessionsWithinLinkStep == IInv /\ SInv /\ [Next]_vars => SessionsWithinLink'
<1> SUFFICES ASSUME IInv, SInv, [Next]_vars PROVE SessionsWithinLink'
  OBVIOUS
<1>0. /\ TypeOK /\ AttemptsKnow
      /\ attempt \in [Attempts -> AttemptRecords] /\ link \in [Links -> LinkStatuses]
      /\ opener \in [Sessions -> Links \cup {NoLink}]
      /\ expires \in [Links -> Nat] /\ ending \in [Sessions -> Nat] /\ now \in 0..Horizon
  BY DEF IInv, TypeOK
<1>1. \A l \in Links : link[l] # "absent" => link'[l] # "absent" /\ expires'[l] = expires[l]
  <2>1. CASE UNCHANGED rows
    BY <2>1 DEF rows
  <2>2. ASSUME NEW a \in Attempts, SaveWrongPin(a) \/ SaveRightPin(a)
        PROVE  \A l \in Links :
                 link[l] # "absent" => link'[l] # "absent" /\ expires'[l] = expires[l]
    BY <1>0, <2>2 DEF SaveWrongPin, SaveRightPin
  <2>3. ASSUME NEW o \in Offices, NEW k \in Links, EmitLink(o, k) \/ RevokeLink(o, k)
        PROVE  \A l \in Links :
                 link[l] # "absent" => link'[l] # "absent" /\ expires'[l] = expires[l]
    BY <1>0, <2>3 DEF EmitLink, RevokeLink
  <2> QED  BY <2>1, <2>2, <2>3, RowsChange
<1>2. \A a \in Attempts :
        attempt'[a].pc \in {"granted", "opening"} => link'[attempt'[a].of] # "absent"
  <2>1. ASSUME NEW b \in Attempts, SaveRightPin(b), NEW a \in Attempts,
               attempt'[a].pc \in {"granted", "opening"}
        PROVE  link'[attempt'[a].of] # "absent"
    <3>1. attempt[b].of \in Links /\ link[attempt[b].of] = "active"
      BY <1>0, <2>1 DEF SaveRightPin, IsAttempt, AttemptsKnow, StillAsRead
    <3>2. attempt'[a].of = attempt[a].of /\ (a # b => attempt'[a] = attempt[a])
      BY <1>0, <2>1 DEF SaveRightPin, AttemptRecords
    <3>3. attempt[a].of \in Links /\ link[attempt[a].of] # "absent"
      BY <1>0, <2>1, <3>1, <3>2 DEF SInv, SessionsWithinLink, AttemptsKnow
    <3> QED  BY <1>1, <3>2, <3>3
  <2>2. ASSUME NEW b \in Attempts, JournalizeOpening(b), NEW a \in Attempts,
               attempt'[a].pc \in {"granted", "opening"}
        PROVE  link'[attempt'[a].of] # "absent"
    <3>1. attempt[b].pc = "granted"
      BY <2>2 DEF JournalizeOpening, IsAttempt
    <3>2. attempt'[a].of = attempt[a].of /\ (a # b => attempt'[a] = attempt[a])
      BY <1>0, <2>2 DEF JournalizeOpening, GoTo, AttemptRecords
    <3>3. attempt[a].of \in Links /\ link[attempt[a].of] # "absent"
      BY <1>0, <2>2, <3>1, <3>2 DEF SInv, SessionsWithinLink, AttemptsKnow
    <3> QED  BY <1>1, <3>2, <3>3
  <2>3. CASE \A a \in Attempts : attempt'[a].pc \in {"granted", "opening"} =>
                                   attempt'[a] = attempt[a]
    BY <1>0, <1>1, <2>3 DEF SInv, SessionsWithinLink, AttemptsKnow
  <2> QED  BY <1>0, <2>1, <2>2, <2>3, GrantsOnlyLeave
<1>3. ASSUME NEW s \in Sessions, opener'[s] # NoLink
      PROVE  link'[opener'[s]] # "absent" /\ ending'[s] <= expires'[opener'[s]]
  <2>1. CASE UNCHANGED <<opener, ending>>
    BY <1>0, <1>1, <1>3, <2>1 DEF SInv, SessionsWithinLink
  <2>2. ASSUME NEW a \in Attempts, NEW t \in Sessions, OpenSession(a, t), t # s
        PROVE  opener'[s] = opener[s] /\ ending'[s] = ending[s]
    BY <1>0, <2>2 DEF OpenSession
  <2>3. ASSUME NEW a \in Attempts, OpenSession(a, s)
        PROVE  link'[opener'[s]] # "absent" /\ ending'[s] <= expires'[opener'[s]]
    <3>1. attempt[a].of \in Links /\ link[attempt[a].of] # "absent" /\ attempt[a].at \in 0..Horizon
      BY <1>0, <2>3 DEF OpenSession, IsAttempt, SInv, SessionsWithinLink, AttemptsKnow,
             AttemptRecords
    <3>2. SessionEnd(attempt[a].of, attempt[a].at) <= expires[attempt[a].of]
      BY <1>0, <3>1, AccessAssumption DEF SessionEnd
    <3>3. opener'[s] = attempt[a].of /\ ending'[s] = SessionEnd(attempt[a].of, attempt[a].at)
      BY <1>0, <2>3 DEF OpenSession
    <3> QED  BY <1>1, <3>1, <3>2, <3>3
  <2>4. CASE opener'[s] = opener[s] /\ ending'[s] = ending[s]
    BY <1>0, <1>1, <1>3, <2>4 DEF SInv, SessionsWithinLink
  <2> QED  BY <1>0, <2>1, <2>2, <2>3, <2>4, SessionsChange
<1> QED  BY <1>2, <1>3 DEF SessionsWithinLink

\* A session never outlives its link, and the journal shows every session that
\* was opened, wherever its attempt stopped.
THEOREM SessionsAccounted == Spec => []SessionsAccountedFor
<1>1. IInv /\ SInv /\ [Next]_vars => SInv'
  BY EventsFirstStep, SessionsWithinLinkStep DEF SInv
<1>2. IInv /\ SInv => SessionsAccountedFor
  <2> SUFFICES ASSUME IInv, SInv PROVE SessionsAccountedFor
    OBVIOUS
  <2>1. ASSUME NEW l \in Links
        PROVE  Cardinality(Opened(l)) <= journal[l]["deposit_session_opened"]
    <3>1. /\ Cardinality(Opened(l)) \in Nat /\ Cardinality(Opening(l)) \in Nat
          /\ Cardinality(Opened(l)) + Cardinality(Opening(l)) <= journal[l]["deposit_session_opened"]
      BY FS_CardinalityType DEF SInv, EventsFirst
    <3>2. journal[l]["deposit_session_opened"] \in Nat
      BY DEF IInv, TypeOK, LinkEventTypes
    <3> QED  BY <3>1, <3>2
  <2> QED  BY <2>1 DEF SInv, SessionsWithinLink, SessionsAccountedFor, Opened
<1> QED  BY <1>1, <1>2, SessionsInit, Invariance, PTL DEF Spec
-----------------------------------------------------------------------------
(***************************************************************************)
(* The budget of the address: another invariant on top of the first one.   *)
(***************************************************************************)
\* The attempts that have been let in and may still count a failure.
Pending == {a \in Attempts :
              attempt[a].pc \in {"reading", "verifying", "wrong", "right", "counting"}}

\* What the address has counted and what its attempts may still count fit in
\* its budget, or are the attempts that read the budget together.
BudgetKept ==
    /\ IsFiniteSet(FailureRows(failures))
    /\ RecentFailures(now) + Cardinality(Pending) <= IpBudget - 1 + Cardinality(Attempts)

\* How many attempts there are to count.
LEMMA AttemptsCounted ==
    /\ Pending \subseteq Attempts /\ Pending' \subseteq Attempts
    /\ IsFiniteSet(Pending) /\ IsFiniteSet(Pending')
    /\ Cardinality(Pending) \in Nat /\ Cardinality(Pending') \in Nat
    /\ Cardinality(Attempts) \in Nat
    /\ Cardinality(Pending') <= Cardinality(Attempts)
    /\ Pending' \subseteq Pending => Cardinality(Pending') <= Cardinality(Pending)
<1>1. Pending \subseteq Attempts /\ Pending' \subseteq Attempts
  BY DEF Pending
<1> HIDE DEF Pending
<1>2. IsFiniteSet(Attempts) /\ IsFiniteSet(Pending) /\ IsFiniteSet(Pending')
  BY <1>1, FS_Subset, AccessAssumption
<1> QED  BY <1>1, <1>2, FS_Subset, FS_CardinalityType

\* What a window counts of the failures.
LEMMA WindowCounts ==
    ASSUME IInv, IsFiniteSet(FailureRows(failures)),
           NEW at \in Int, NEW later \in Int, at <= later
    PROVE  /\ RecentFailures(at) \in Nat
           /\ RecentFailures(later) <= RecentFailures(at)
<1>1. DOMAIN failures = 0..Horizon /\ 0..Horizon \subseteq Int /\ IpWindow \in Int
  BY AccessAssumption DEF IInv, TypeOK
<1> QED  BY <1>1, LaterCountsLess DEF RecentFailures

\* The steps that neither let an attempt in nor count its failure bring none
\* nearer to its count.
LEMMA BudgetMoves ==
    ASSUME IInv, [Next]_vars
    PROVE  \/ now' = now /\ failures' = failures /\ Pending' \subseteq Pending
           \/ \E a \in Attempts : \E l \in Links : StartAttempt(a, l)
           \/ \E a \in Attempts : CountFailure(a)
           \/ Tick
<1>0. attempt \in [Attempts -> AttemptRecords]
  BY DEF IInv, TypeOK
<1>1. CASE UNCHANGED vars
  BY <1>1 DEF vars, tables, Pending
<1>2. ASSUME NEW a \in Attempts, ReadLink(a) \/ LoseRace(a) \/ SaveWrongPin(a)
      PROVE  now' = now /\ failures' = failures /\ Pending' \subseteq Pending
  <2>1. now' = now /\ failures' = failures
    BY <1>2 DEF ReadLink, LoseRace, SaveWrongPin, tables
  <2>2. /\ attempt[a].pc \in {"reading", "wrong", "right"}
        /\ \A b \in Attempts : b # a => attempt'[b] = attempt[b]
    BY <1>0, <1>2 DEF ReadLink, LoseRace, SaveWrongPin, IsAttempt, Answer
  <2> QED  BY <2>1, <2>2 DEF Pending
<1>3. ASSUME NEW a \in Attempts, \E verdict \in {"wrong", "right"} : VerifyPin(a, verdict)
      PROVE  now' = now /\ failures' = failures /\ Pending' \subseteq Pending
  <2>1. now' = now /\ failures' = failures /\ attempt[a].pc = "verifying"
    BY <1>3 DEF VerifyPin, IsAttempt, tables
  <2>2. \A b \in Attempts : b # a => attempt'[b] = attempt[b]
    BY <1>0, <1>3 DEF VerifyPin, GoTo
  <2> QED  BY <2>1, <2>2 DEF Pending
<1>4. ASSUME NEW a \in Attempts,
             SaveRightPin(a) \/ JournalizeBlocking(a) \/ JournalizeOpening(a)
      PROVE  now' = now /\ failures' = failures /\ Pending' \subseteq Pending
  <2>1. now' = now /\ failures' = failures
    BY <1>4 DEF SaveRightPin, JournalizeBlocking, JournalizeOpening, tables
  <2>2. /\ attempt'[a].pc \in {"granted", "blocking", "opening"}
        /\ \A b \in Attempts : b # a => attempt'[b] = attempt[b]
    BY <1>0, <1>4 DEF SaveRightPin, JournalizeBlocking, JournalizeOpening, GoTo, AttemptRecords
  <2> QED  BY <2>1, <2>2 DEF Pending
<1>5. ASSUME NEW a \in Attempts,
             \/ GateIsFull(a) \/ TellExpiry(a) \/ TellBlocking(a)
             \/ \E s \in Sessions : OpenSession(a, s)
      PROVE  now' = now /\ failures' = failures /\ Pending' \subseteq Pending
  <2>1. now' = now /\ failures' = failures /\ Answer(a)
    BY <1>5 DEF GateIsFull, TellExpiry, TellBlocking, OpenSession, tables
  <2>2. /\ attempt'[a].pc = "idle"
        /\ \A b \in Attempts : b # a => attempt'[b] = attempt[b]
    BY <1>0, <2>1 DEF Answer, IdleAttempt
  <2> QED  BY <2>1, <2>2 DEF Pending
<1>6. CASE Unlocking
  BY <1>2, <1>3, <1>4, <1>5, <1>6 DEF Unlocking
<1>7. CASE Lawyering
  BY <1>7 DEF Lawyering, BeginEmission, FailEmission, EmitLink, RevokeLink, tables, Pending
<1>8. CASE Depositing
  BY <1>8 DEF Depositing, EnterDeposit, AuthorizeUpload, tables, Pending
<1>9. CASE ListExpired \/ TellListed
  BY <1>9 DEF ListExpired, TellListed, tables, Pending
<1>10. CASE StopHalfWay
  <2>1. now' = now /\ failures' = failures
    BY <1>10 DEF StopHalfWay, tables
  <2>2. PICK a \in Attempts : attempt' = [attempt EXCEPT ![a] = [IdleAttempt EXCEPT !.pc = "stopped"]]
    BY <1>10 DEF StopHalfWay
  <2>3. /\ attempt'[a].pc = "stopped"
        /\ \A b \in Attempts : b # a => attempt'[b] = attempt[b]
    BY <1>0, <2>2 DEF IdleAttempt
  <2> QED  BY <2>1, <2>3 DEF Pending
<1> QED  BY <1>1, <1>6, <1>7, <1>8, <1>9, <1>10 DEF Next

\* What the address has counted and may still count stays within its budget
\* and the attempts that may be served at once.
LEMMA BudgetStep == IInv /\ BudgetKept /\ [Next]_vars => BudgetKept'
<1> SUFFICES ASSUME IInv, BudgetKept, [Next]_vars
             PROVE  /\ IsFiniteSet(FailureRows(failures'))
                    /\ FailuresWithin(failures', IpWindow, now') + Cardinality(Pending')
                         <= IpBudget - 1 + Cardinality(Attempts)
  BY DEF BudgetKept, RecentFailures
<1>t. /\ attempt \in [Attempts -> AttemptRecords] /\ failures \in [0..Horizon -> Nat]
      /\ now \in Int /\ IpBudget \in Nat \ {0}
  BY AccessAssumption DEF IInv, TypeOK
<1>0. /\ IsFiniteSet(FailureRows(failures))
      /\ FailuresWithin(failures, IpWindow, now) \in Nat
      /\ FailuresWithin(failures, IpWindow, now) + Cardinality(Pending)
           <= IpBudget - 1 + Cardinality(Attempts)
  <2>1. RecentFailures(now) \in Nat
    BY <1>t, WindowCounts DEF BudgetKept
  <2> QED  BY <2>1 DEF BudgetKept, RecentFailures
<1>1. CASE now' = now /\ failures' = failures /\ Pending' \subseteq Pending
  BY <1>0, <1>1, <1>t, AttemptsCounted
<1>2. ASSUME NEW a \in Attempts, NEW l \in Links, StartAttempt(a, l)
      PROVE  /\ IsFiniteSet(FailureRows(failures'))
             /\ FailuresWithin(failures', IpWindow, now') + Cardinality(Pending')
                  <= IpBudget - 1 + Cardinality(Attempts)
  <2>1. now' = now /\ failures' = failures /\ ~ IpBudgetExhausted(now)
    BY <1>2 DEF StartAttempt, tables
  <2>2. FailuresWithin(failures, IpWindow, now) <= IpBudget - 1
    BY <1>0, <1>t, <2>1 DEF IpBudgetExhausted, RecentFailures
  <2> QED  BY <1>0, <1>t, <2>1, <2>2, AttemptsCounted
<1>3. ASSUME NEW a \in Attempts, CountFailure(a)
      PROVE  /\ IsFiniteSet(FailureRows(failures'))
             /\ FailuresWithin(failures', IpWindow, now') + Cardinality(Pending')
                  <= IpBudget - 1 + Cardinality(Attempts)
  <2>1. /\ now' = now /\ attempt[a].pc = "counting" /\ attempt[a].at \in 0..Horizon
        /\ failures' = [failures EXCEPT ![attempt[a].at] = @ + 1]
    BY <1>3, <1>t DEF CountFailure, IsAttempt, AttemptRecords
  <2>2. OneMoreAt(failures, failures', attempt[a].at)
    BY <1>t, <2>1, UpdateCounts
  <2>3. /\ IsFiniteSet(FailureRows(failures'))
        /\ FailuresWithin(failures', IpWindow, now)
             <= FailuresWithin(failures, IpWindow, now) + 1
    BY <1>0, <2>2, OneFailureMore
  <2>4. FailuresWithin(failures', IpWindow, now) \in Nat
    <3>1. IsFiniteSet({row \in FailureRows(failures') : row[1] + IpWindow >= now})
      BY <2>3, FS_Subset
    <3> QED  BY <3>1, FS_CardinalityType DEF FailuresWithin
  <2>5. a \in Pending /\ Pending' \subseteq Pending \ {a}
    <3>1. /\ attempt'[a].pc \in {"idle", "expiring", "blocked"}
          /\ \A b \in Attempts : b # a => attempt'[b] = attempt[b]
      <4>1. attempt[a].then \in {"idle", "expiring", "blocked"}
        BY DEF IInv, AttemptsKnow
      <4>2. CASE attempt[a].then = "idle"
        BY <1>3, <1>t, <4>2 DEF CountFailure, Answer, IdleAttempt
      <4>3. CASE attempt[a].then # "idle"
        BY <1>3, <1>t, <4>1, <4>3 DEF CountFailure, GoTo, AttemptRecords
      <4> QED  BY <4>2, <4>3
    <3> QED  BY <2>1, <3>1 DEF Pending
  <2>6. Cardinality(Pending') <= Cardinality(Pending) - 1
    <3>1. IsFiniteSet(Pending) /\ Cardinality(Pending) \in Nat
      BY AttemptsCounted
    <3>2. IsFiniteSet(Pending \ {a}) /\ Cardinality(Pending \ {a}) = Cardinality(Pending) - 1
      BY <2>5, <3>1, FS_RemoveElement
    <3>3. Cardinality(Pending') <= Cardinality(Pending \ {a})
      BY <2>5, <3>2, FS_Subset
    <3> QED  BY <3>2, <3>3
  <2> QED  BY <1>0, <1>t, <2>1, <2>3, <2>4, <2>6, AttemptsCounted
<1>4. CASE Tick
  <2>1. now' = now + 1 /\ failures' = failures /\ Pending' = Pending
    BY <1>4 DEF Tick, tables, Pending
  <2>2. /\ FailuresWithin(failures, IpWindow, now + 1) <= FailuresWithin(failures, IpWindow, now)
        /\ FailuresWithin(failures, IpWindow, now + 1) \in Nat
    BY <1>0, <1>t, WindowCounts DEF RecentFailures
  <2> QED  BY <1>0, <1>t, <2>1, <2>2, AttemptsCounted
<1> QED  BY <1>1, <1>2, <1>3, <1>4, BudgetMoves

\* An address exceeds its budget by no more than the attempts in flight.
THEOREM OvershootBounded == Spec => []IpOvershootBounded
<1>1. Init => BudgetKept
  <2> SUFFICES ASSUME Init PROVE BudgetKept
    OBVIOUS
  <2>1. Pending = {}
    BY DEF Init, IdleAttempt, Pending
  <2>2. FailureRows(failures) = {}
    <3>1. \A t \in DOMAIN failures : failures[t] = 0
      BY DEF Init
    <3> QED  BY <3>1, NoRows
  <2>3. {row \in FailureRows(failures) : row[1] + IpWindow >= now} = {}
    BY <2>2
  <2> QED
    BY <2>1, <2>2, <2>3, FS_EmptySet, AttemptsCounted, AccessAssumption
       DEF BudgetKept, RecentFailures, FailuresWithin
<1>2. IInv /\ BudgetKept /\ [Next]_vars => BudgetKept'
  BY BudgetStep
<1>3. ASSUME IInv, BudgetKept PROVE IpOvershootBounded
  <2>1. RecentFailures(now) \in Nat
    <3>1. now \in Int /\ now <= now
      BY <1>3, AccessAssumption DEF IInv, TypeOK
    <3> QED  BY <1>3, <3>1, WindowCounts DEF BudgetKept
  <2> QED  BY <1>3, <2>1, AttemptsCounted, AccessAssumption DEF BudgetKept, IpOvershootBounded
<1>4. IInv /\ BudgetKept => IpOvershootBounded
  BY <1>3
<1> QED  BY <1>1, <1>2, <1>4, Invariance, PTL DEF Spec


-----------------------------------------------------------------------------
(***************************************************************************)
(* The access implements AccessPromise.  Who is about to close the request *)
(* for an expiry has seen a link that has ended, and that link has ended   *)
(* for good.                                                               *)
(***************************************************************************)
PastEnd == \E l \in Links : HasExpired(l, now)

ClosingKnown ==
    /\ \A a \in Attempts : attempt[a].at <= now
    /\ \A a \in Attempts : attempt[a].pc = "expiring" \/ attempt[a].then = "expiring" => PastEnd
    /\ expired => PastEnd

\* A link that has ended stays so: no row goes, no expiry moves, no clock turns
\* back.
LEMMA EndedStays ==
    ASSUME IInv, [Next]_vars, PastEnd
    PROVE  PastEnd'
<1>0. /\ link \in [Links -> LinkStatuses] /\ expires \in [Links -> Nat] /\ now \in Nat
      /\ attempt \in [Attempts -> AttemptRecords]
  BY AccessAssumption DEF IInv, TypeOK
<1>1. PICK l \in Links : HasExpired(l, now)
  BY DEF PastEnd
<1>2. CASE link' = link /\ expires' = expires /\ now' \in {now, now + 1}
  BY <1>0, <1>1, <1>2 DEF HasExpired, PastEnd
<1>3. ASSUME NEW a \in Attempts, SaveWrongPin(a) \/ SaveRightPin(a) PROVE PastEnd'
  <2>1. expires' = expires /\ now' = now
    BY <1>3 DEF SaveWrongPin, SaveRightPin
  <2>2. link'[l] # "absent"
    BY <1>0, <1>1, <1>3 DEF SaveWrongPin, SaveRightPin, HasExpired
  <2> QED  BY <1>1, <2>1, <2>2 DEF HasExpired, PastEnd
<1>4. ASSUME NEW o \in Offices, NEW k \in Links, EmitLink(o, k) PROVE PastEnd'
  <2>1. k # l /\ expires'[l] = expires[l] /\ now' = now /\ link'[l] # "absent"
    BY <1>0, <1>1, <1>4 DEF EmitLink, HasExpired
  <2> QED  BY <1>1, <2>1 DEF HasExpired, PastEnd
<1>5. ASSUME NEW o \in Offices, NEW k \in Links, RevokeLink(o, k) PROVE PastEnd'
  <2>1. expires' = expires /\ now' = now /\ link'[l] # "absent"
    BY <1>0, <1>1, <1>5 DEF RevokeLink, HasExpired
  <2> QED  BY <1>1, <2>1 DEF HasExpired, PastEnd
<1>6. \/ link' = link /\ expires' = expires /\ now' \in {now, now + 1}
      \/ \E a \in Attempts : SaveWrongPin(a) \/ SaveRightPin(a)
      \/ \E o \in Offices, k \in Links : EmitLink(o, k) \/ RevokeLink(o, k)
  BY DEF Next, vars, rows, Unlocking, StartAttempt, ReadLink, VerifyPin, GateIsFull, LoseRace,
     CountFailure, TellExpiry, JournalizeBlocking, TellBlocking, JournalizeOpening, OpenSession,
     Lawyering, BeginEmission, FailEmission, Depositing, EnterDeposit, AuthorizeUpload,
     ListExpired, TellListed, StopHalfWay, Tick
<1> QED  BY <1>2, <1>3, <1>4, <1>5, <1>6

\* Where an attempt gets from where it is: its instant is that of its start, and
\* only the reading of a link that has ended plans to tell it.
LEMMA PlansMove ==
    ASSUME IInv, ClosingKnown, [Next]_vars, NEW a \in Attempts
    PROVE  /\ attempt'[a].at <= now'
           /\ attempt'[a].pc = "expiring" \/ attempt'[a].then = "expiring" => PastEnd
<1>0. /\ attempt \in [Attempts -> AttemptRecords] /\ now \in Nat
      /\ \A b \in Attempts : attempt[b].at \in Nat /\ attempt[b].at <= now
  BY AccessAssumption DEF IInv, TypeOK, ClosingKnown, AttemptRecords
<1> DEFINE Same(b) == attempt'[b] = attempt[b]
           Rest(b) == /\ attempt'[b].at \in {attempt[b].at, 0, now}
                      /\ attempt'[b].pc = "expiring" \/ attempt'[b].then = "expiring" => PastEnd
<1>1. now' \in {now, now + 1}
  BY DEF Next, vars, rows, Unlocking, StartAttempt, ReadLink, VerifyPin, GateIsFull, LoseRace,
     SaveWrongPin, SaveRightPin, CountFailure, TellExpiry, JournalizeBlocking, TellBlocking,
     JournalizeOpening, OpenSession, Lawyering, BeginEmission, FailEmission, EmitLink,
     RevokeLink, Depositing, EnterDeposit, AuthorizeUpload, ListExpired, TellListed,
     StopHalfWay, Tick
<1>2. CASE attempt' = attempt
  BY <1>0, <1>1, <1>2 DEF ClosingKnown
<1>3. SUFFICES ASSUME NEW b \in Attempts,
                      \/ \E l \in Links : StartAttempt(b, l)
                      \/ ReadLink(b) \/ (\E verdict \in {"wrong", "right"} : VerifyPin(b, verdict))
                      \/ GateIsFull(b) \/ LoseRace(b) \/ SaveWrongPin(b) \/ SaveRightPin(b)
                      \/ CountFailure(b) \/ TellExpiry(b) \/ JournalizeBlocking(b)
                      \/ TellBlocking(b) \/ JournalizeOpening(b)
                      \/ (\E s \in Sessions : OpenSession(b, s))
                      \/ attempt' = [attempt EXCEPT ![b] = [IdleAttempt EXCEPT !.pc = "stopped"]]
               PROVE  /\ \A c \in Attempts \ {b} : Same(c)
                      /\ Rest(b)
  <2>1. \/ attempt' = attempt
        \/ Unlocking
        \/ StopHalfWay
    BY DEF Next, vars, Lawyering, BeginEmission, FailEmission, EmitLink, RevokeLink, Depositing,
       EnterDeposit, AuthorizeUpload, ListExpired, TellListed, Tick
  <2>2. ASSUME NEW b \in Attempts, \A c \in Attempts \ {b} : Same(c), Rest(b)
        PROVE  /\ attempt'[a].at <= now'
               /\ attempt'[a].pc = "expiring" \/ attempt'[a].then = "expiring" => PastEnd
    BY <1>0, <1>1, <2>2 DEF ClosingKnown
  <2>3. CASE Unlocking
    BY <1>3, <2>2, <2>3 DEF Unlocking
  <2>4. CASE StopHalfWay
    BY <1>3, <2>2, <2>4 DEF StopHalfWay
  <2> QED  BY <1>2, <2>1, <2>3, <2>4
<1>4. CASE \E l \in Links : StartAttempt(b, l)
  BY <1>0, <1>4 DEF StartAttempt, IdleAttempt
<1>5. CASE ReadLink(b)
  <2> DEFINE l == attempt[b].of
  <2>1. l \in Links /\ expires[l] \in Nat
    BY <1>5 DEF IInv, TypeOK, AttemptsKnow, ReadLink, IsAttempt
  <2>2. HasExpired(l, attempt[b].at) => PastEnd
    BY <1>0, <2>1 DEF HasExpired, PastEnd
  <2>3. CASE Answer(b)
    BY <1>0, <2>3 DEF Answer, IdleAttempt
  <2>4. CASE attempt' = [attempt EXCEPT ![b].pc = "verifying", ![b].seen = failed[l]]
    BY <1>0, <2>4 DEF ClosingKnown, AttemptRecords
  <2>5. CASE attempt' = [attempt EXCEPT ![b].pc = "counting",
                           ![b].then = IF HasExpired(l, attempt[b].at) THEN "expiring" ELSE "idle"]
    BY <1>0, <2>2, <2>5 DEF AttemptRecords
  <2> QED  BY <1>5, <2>3, <2>4, <2>5 DEF ReadLink
<1>6. CASE \E verdict \in {"wrong", "right"} : VerifyPin(b, verdict)
  BY <1>0, <1>6 DEF VerifyPin, GoTo, ClosingKnown, AttemptRecords
<1>7. CASE LoseRace(b) \/ SaveRightPin(b)
  BY <1>0, <1>7 DEF LoseRace, SaveRightPin, ClosingKnown, AttemptRecords
<1>8. CASE SaveWrongPin(b)
  BY <1>0, <1>8 DEF SaveWrongPin, AttemptRecords
<1>9. CASE CountFailure(b)
  <2>1. CASE Answer(b)
    BY <1>0, <2>1 DEF Answer, IdleAttempt
  <2>2. CASE GoTo(b, attempt[b].then)
    BY <1>0, <2>2 DEF GoTo, ClosingKnown, AttemptRecords
  <2> QED  BY <1>9, <2>1, <2>2 DEF CountFailure
<1>10. CASE JournalizeBlocking(b) \/ JournalizeOpening(b)
  BY <1>0, <1>10 DEF JournalizeBlocking, JournalizeOpening, GoTo, ClosingKnown, AttemptRecords
<1>11. CASE \/ GateIsFull(b) \/ TellExpiry(b) \/ TellBlocking(b)
            \/ \E s \in Sessions : OpenSession(b, s)
  <2>1. Answer(b)
    BY <1>11 DEF GateIsFull, TellExpiry, TellBlocking, OpenSession
  <2> QED  BY <1>0, <2>1 DEF Answer, IdleAttempt
<1>12. CASE attempt' = [attempt EXCEPT ![b] = [IdleAttempt EXCEPT !.pc = "stopped"]]
  BY <1>0, <1>12 DEF IdleAttempt
<1> QED  BY <1>3, <1>4, <1>5, <1>6, <1>7, <1>8, <1>9, <1>10, <1>11, <1>12

\* ClosingKnown is kept by every step,
LEMMA ClosingStep == IInv /\ ClosingKnown /\ [Next]_vars => ClosingKnown'
<1> SUFFICES ASSUME IInv, ClosingKnown, [Next]_vars PROVE ClosingKnown'
  OBVIOUS
<1>1. PastEnd => PastEnd'
  BY EndedStays
<1>2. expired' => expired \/ PastEnd
  BY DEF Next, vars, Unlocking, StartAttempt, ReadLink, VerifyPin, GateIsFull, LoseRace,
     SaveWrongPin, SaveRightPin, CountFailure, TellExpiry, JournalizeBlocking, TellBlocking,
     JournalizeOpening, OpenSession, Lawyering, BeginEmission, FailEmission, EmitLink,
     RevokeLink, Depositing, EnterDeposit, AuthorizeUpload, ListExpired, TellListed,
     StopHalfWay, Tick, ActiveLinks, PastEnd
<1>3. \A a \in Attempts :
        /\ attempt'[a].at <= now'
        /\ attempt'[a].pc = "expiring" \/ attempt'[a].then = "expiring" => PastEnd
  BY PlansMove
<1> QED  BY <1>1, <1>2, <1>3 DEF ClosingKnown

\* and holds whenever the invariant does.
LEMMA ClosingAlways == Spec => []ClosingKnown
<1>1. Init => ClosingKnown
  BY DEF Init, IdleAttempt, ClosingKnown
<1> QED  BY <1>1, ClosingStep, Invariance, PTL DEF Spec

\* What is promised of an attempt that moves: nothing, unless it is let in.
Entering == {"granted", "opening"}

LEMMA NobodyAdmitted ==
    ASSUME NEW a \in Attempts,
           attempt[a].pc \notin Entering, attempt'[a].pc \notin Entering,
           \A b \in Attempts \ {a} : attempt'[b] = attempt[b]
    PROVE  AdmittedTo' = AdmittedTo
<1>1. \A b \in Attempts : AdmittedTo'[b] = AdmittedTo[b]
  BY DEF AdmittedTo, Entering
<1>2. /\ AdmittedTo = [b \in Attempts |-> AdmittedTo[b]]
      /\ AdmittedTo' = [b \in Attempts |-> AdmittedTo'[b]]
  BY DEF AdmittedTo
<1> QED  BY <1>1, <1>2

\* An attempt that leaves for good is admitted to nothing any more.
LEMMA LeavesFor ==
    ASSUME NEW a \in Attempts, attempt'[a].pc \notin Entering,
           \A b \in Attempts \ {a} : attempt'[b] = attempt[b]
    PROVE  AdmittedTo' = [AdmittedTo EXCEPT ![a] = NoLink]
<1>1. \A b \in Attempts : AdmittedTo'[b] = IF b = a THEN NoLink ELSE AdmittedTo[b]
  BY DEF AdmittedTo, Entering
<1>2. /\ AdmittedTo = [b \in Attempts |-> AdmittedTo[b]]
      /\ AdmittedTo' = [b \in Attempts |-> AdmittedTo'[b]]
  BY DEF AdmittedTo
<1> QED  BY <1>1, <1>2

Allowed == [Promise!Next]_(Promise!promised)

LEMMA Unseen ==
    ASSUME UNCHANGED <<now, request, rows, opener, ending, uploads, visit>>,
           AdmittedTo' = AdmittedTo
    PROVE  Allowed
BY DEF Allowed, Promise!promised, Promise!access, Promise!sessions, rows

\* The request is closed for the reason a link gives.
LEMMA ClosingAllowed ==
    ASSUME IInv, NEW e \in {"access_link_blocked", "access_link_expired"}, ApplyToRequest(e),
           e = "access_link_blocked" => \E l \in Links : link[l] = "blocked",
           e = "access_link_expired" => PastEnd,
           UNCHANGED <<now, rows, opener, ending, uploads, visit>>, AdmittedTo' = AdmittedTo
    PROVE  Allowed
<1>1. CASE request # "incomplete"
  <2>1. request' = request
    BY <1>1 DEF IInv, RequestOfLinks, ApplyToRequest, AfterPipelineEvent
  <2> QED  BY <2>1, Unseen
<1>2. CASE request = "incomplete" /\ e = "access_link_blocked"
  <2>1. request' = "blocked"
    BY <1>2 DEF ApplyToRequest, AfterPipelineEvent
  <2>2. Promise!Close
    BY <1>2, <2>1 DEF Promise!Close, Promise!access, Promise!sessions, rows
  <2> QED  BY <2>2 DEF Allowed, Promise!Next
<1>3. CASE request = "incomplete" /\ e = "access_link_expired"
  <2>1. request' = "expired_incomplete"
    BY <1>3 DEF ApplyToRequest, AfterPipelineEvent
  <2>2. \E l \in Links : link[l] # "absent" /\ expires[l] <= now
    BY <1>3 DEF PastEnd, HasExpired
  <2>3. Promise!Close
    BY <1>3, <2>1, <2>2 DEF Promise!Close, Promise!access, Promise!sessions, rows
  <2> QED  BY <2>3 DEF Allowed, Promise!Next
<1> QED  BY <1>1, <1>2, <1>3

\* The steps of an attempt that are not seen from outside.
LEMMA InnerSteps ==
    ASSUME IInv, NEW a \in Attempts,
           \/ \E l \in Links : StartAttempt(a, l)
           \/ ReadLink(a) \/ (\E verdict \in {"wrong", "right"} : VerifyPin(a, verdict))
           \/ GateIsFull(a) \/ LoseRace(a) \/ CountFailure(a) \/ JournalizeBlocking(a)
    PROVE  Allowed
<1>0. attempt \in [Attempts -> AttemptRecords] /\ attempt[a].then \notin Entering
  BY DEF IInv, TypeOK, AttemptsKnow, Entering
<1>1. UNCHANGED <<now, request, rows, opener, ending, uploads, visit>>
  BY DEF StartAttempt, ReadLink, VerifyPin, GateIsFull, LoseRace, CountFailure,
     JournalizeBlocking, tables
<1>2. attempt[a].pc \notin Entering
  BY DEF StartAttempt, ReadLink, VerifyPin, GateIsFull, LoseRace, CountFailure,
     JournalizeBlocking, IsAttempt, Entering
<1>3. /\ attempt'[a].pc \notin Entering
      /\ \A b \in Attempts \ {a} : attempt'[b] = attempt[b]
  <2>1. CASE \E l \in Links : StartAttempt(a, l)
    BY <1>0, <2>1 DEF StartAttempt, IdleAttempt, Entering
  <2>2. CASE Answer(a)
    BY <1>0, <2>2 DEF Answer, IdleAttempt, Entering
  <2>3. CASE ReadLink(a) /\ ~ Answer(a)
    BY <1>0, <2>3 DEF ReadLink, Entering, AttemptRecords
  <2>4. CASE LoseRace(a)
    BY <1>0, <2>4 DEF LoseRace, Entering, AttemptRecords
  <2>5. CASE \E s \in {"wrong", "right", "blocking", attempt[a].then} : GoTo(a, s)
    BY <1>0, <2>5 DEF GoTo, Entering, AttemptRecords
  <2> QED  BY <2>1, <2>2, <2>3, <2>4, <2>5
           DEF VerifyPin, GateIsFull, CountFailure, JournalizeBlocking
<1> QED  BY <1>1, <1>2, <1>3, NobodyAdmitted, Unseen

\* The saves of a verdict: the guess is made at that instant.
LEMMA GuessSteps ==
    ASSUME IInv, NEW a \in Attempts, SaveWrongPin(a) \/ SaveRightPin(a)
    PROVE  Allowed
<1> DEFINE l == attempt[a].of
<1>0. /\ attempt \in [Attempts -> AttemptRecords] /\ link \in [Links -> LinkStatuses]
      /\ wrong \in [Links -> Nat] /\ MaxPinAttempts \in Nat \ {0} /\ NoLink \notin Links
      /\ opener' = opener /\ ending' = ending /\ uploads' = uploads
  BY AccessAssumption DEF IInv, TypeOK, SaveWrongPin, SaveRightPin, tables
<1>1. /\ l \in Links /\ attempt[a].pc \in {"wrong", "right"}
      /\ link[l] = "active" /\ attempt[a].seen = wrong[l] /\ wrong[l] < MaxPinAttempts
  BY DEF IInv, SaveWrongPin, SaveRightPin, IsAttempt, StillAsRead, AttemptsKnow, CounterTellsGuesses
<1>2. CASE SaveWrongPin(a)
  <2>1. /\ attempt'[a].pc \notin Entering
        /\ \A b \in Attempts \ {a} : attempt'[b] = attempt[b]
    BY <1>0, <1>2 DEF SaveWrongPin, Entering, AttemptRecords
  <2>2. AdmittedTo' = AdmittedTo
    BY <1>1, <2>1, NobodyAdmitted DEF Entering
  <2>3. link' = [link EXCEPT ![l] = IF wrong[l] + 1 = MaxPinAttempts THEN "blocked" ELSE @]
    <3>1. /\ (wrong[l] + 1 >= MaxPinAttempts) <=> (wrong[l] + 1 = MaxPinAttempts)
          /\ attempt[a].seen + 1 = wrong[l] + 1
      BY <1>0, <1>1
    <3>2. link' = [link EXCEPT ![l] = IF BecomesBlocked(wrong[l] + 1) THEN "blocked" ELSE "active"]
      BY <1>2, <3>1 DEF SaveWrongPin
    <3> QED  BY <1>1, <3>1, <3>2 DEF BecomesBlocked
  <2>4. Promise!Miss(l)
    BY <1>0, <1>1, <1>2, <2>2, <2>3 DEF Promise!Miss, Promise!sessions, SaveWrongPin
  <2> QED  BY <1>1, <2>4 DEF Allowed, Promise!Next
<1>3. CASE SaveRightPin(a)
  <2>1. /\ attempt'[a].pc = "granted" /\ attempt'[a].of = l
        /\ \A b \in Attempts \ {a} : attempt'[b] = attempt[b]
    BY <1>0, <1>3 DEF SaveRightPin, AttemptRecords
  <2>2. AdmittedTo' = [AdmittedTo EXCEPT ![a] = l] /\ AdmittedTo[a] = NoLink
    <3>1. \A b \in Attempts : AdmittedTo'[b] = IF b = a THEN l ELSE AdmittedTo[b]
      BY <2>1 DEF AdmittedTo
    <3>2. /\ AdmittedTo = [b \in Attempts |-> AdmittedTo[b]]
          /\ AdmittedTo' = [b \in Attempts |-> AdmittedTo'[b]]
      BY DEF AdmittedTo
    <3>3. AdmittedTo' = [AdmittedTo EXCEPT ![a] = l]
      BY <3>1, <3>2
    <3> QED  BY <1>1, <3>3 DEF AdmittedTo
  <2>3. link' = link
    BY <1>0, <1>1, <1>3 DEF SaveRightPin
  <2>4. Promise!Admit(a, l)
    BY <1>1, <1>0, <1>3, <2>2, <2>3 DEF Promise!Admit, Promise!sessions, SaveRightPin
  <2> QED  BY <1>1, <2>4 DEF Allowed, Promise!Next
<1> QED  BY <1>2, <1>3

\* The steps that tell: a session for a right PIN, the end of a link to its
\* request.
LEMMA TellingSteps ==
    ASSUME IInv, ClosingKnown, NEW a \in Attempts,
           \/ TellExpiry(a) \/ TellBlocking(a) \/ JournalizeOpening(a)
           \/ \E s \in Sessions : OpenSession(a, s)
    PROVE  Allowed
<1>0. /\ attempt \in [Attempts -> AttemptRecords] /\ NoLink \notin Links
      /\ expires \in [Links -> Nat] /\ SessionLifetime \in Nat
  BY AccessAssumption DEF IInv, TypeOK
<1>1. CASE Answer(a)
  <2>0. /\ attempt'[a].pc \notin Entering
        /\ \A b \in Attempts \ {a} : attempt'[b] = attempt[b]
    BY <1>0, <1>1 DEF Answer, IdleAttempt, Entering
  <2>1. CASE TellExpiry(a)
    <3>1. AdmittedTo' = AdmittedTo
      BY <2>0, <2>1, NobodyAdmitted DEF TellExpiry, IsAttempt, Entering
    <3>2. PastEnd
      BY <2>1 DEF TellExpiry, IsAttempt, ClosingKnown
    <3> QED  BY <2>1, <3>1, <3>2, ClosingAllowed DEF TellExpiry, tables
  <2>2. CASE TellBlocking(a)
    <3>1. AdmittedTo' = AdmittedTo
      BY <2>0, <2>2, NobodyAdmitted DEF TellBlocking, IsAttempt, Entering
    <3>2. \E l \in Links : link[l] = "blocked"
      BY <2>2 DEF TellBlocking, IsAttempt, IInv, AttemptsKnow, OneTeller, Telling
    <3> QED  BY <2>2, <3>1, <3>2, ClosingAllowed DEF TellBlocking, tables
  <2>3. ASSUME NEW s \in Sessions, OpenSession(a, s) PROVE Allowed
    <3> DEFINE l == attempt[a].of
               end == SessionEnd(l, attempt[a].at)
    <3>1. l \in Links /\ AdmittedTo[a] = l /\ attempt[a].at \in Nat
      BY <1>0, <2>3, AccessAssumption
         DEF OpenSession, IsAttempt, IInv, AttemptsKnow, AdmittedTo, AttemptRecords
    <3>2. end \in 0..expires[l]
      BY <1>0, <3>1 DEF SessionEnd
    <3>3. AdmittedTo' = [AdmittedTo EXCEPT ![a] = NoLink]
      BY <2>0, LeavesFor
    <3>4. Promise!Open(a, s)
      BY <1>0, <2>3, <3>1, <3>2, <3>3 DEF Promise!Open, Promise!access, OpenSession, rows
    <3> QED  BY <3>4 DEF Allowed, Promise!Next
  <2>4. CASE JournalizeOpening(a)
    <3>1. attempt'[a].pc = "opening"
      BY <1>0, <2>4 DEF JournalizeOpening, GoTo, AttemptRecords
    <3> QED  BY <2>0, <3>1 DEF Entering
  <2> QED  BY <2>1, <2>2, <2>3, <2>4
<1>2. CASE JournalizeOpening(a)
  <2>1. attempt[a].pc = "granted" /\ attempt' = [attempt EXCEPT ![a].pc = "opening"]
    BY <1>2 DEF JournalizeOpening, IsAttempt, GoTo
  <2>2. \A b \in Attempts : AdmittedTo'[b] = AdmittedTo[b]
    BY <1>0, <2>1 DEF AdmittedTo, AttemptRecords
  <2>3. /\ AdmittedTo = [b \in Attempts |-> AdmittedTo[b]]
        /\ AdmittedTo' = [b \in Attempts |-> AdmittedTo'[b]]
    BY DEF AdmittedTo
  <2>4. AdmittedTo' = AdmittedTo
    BY <2>2, <2>3
  <2> QED  BY <1>2, <2>4, Unseen DEF JournalizeOpening, tables
<1> QED  BY <1>1, <1>2 DEF TellExpiry, TellBlocking, OpenSession

\* The requests of the lawyer: what a transaction has not seen makes it fail, so
\* what it writes is what it would write alone.
LEMMA LawyerSteps ==
    ASSUME IInv, Lawyering
    PROVE  Allowed
<1>0. AdmittedTo' = AdmittedTo /\ UNCHANGED <<opener, ending, uploads, visit>>
  BY DEF Lawyering, BeginEmission, FailEmission, EmitLink, RevokeLink, AdmittedTo, tables
<1>1. ASSUME NEW o \in Offices, BeginEmission(o) \/ FailEmission(o) PROVE Allowed
  BY <1>0, <1>1, Unseen DEF BeginEmission, FailEmission
<1>2. ASSUME NEW o \in Offices, NEW l \in Links, EmitLink(o, l) PROVE Allowed
  <2>1. \A k \in Links : link[k] = "active" <=> k \in office[o].seen \cap ActiveLinks
    BY <1>2 DEF EmitLink, IndexRefuses, ActiveLinks
  <2>2. link' = [k \in Links |-> IF k = l THEN "active"
                                 ELSE IF link[k] = "active" THEN "revoked" ELSE link[k]]
    BY <1>2, <2>1 DEF EmitLink
  <2>3. Promise!Issue(l)
    BY <1>0, <1>2, <2>2 DEF Promise!Issue, Promise!sessions, EmitLink
  <2> QED  BY <2>3 DEF Allowed, Promise!Next
<1>3. ASSUME NEW o \in Offices, NEW l \in Links, RevokeLink(o, l) PROVE Allowed
  <2>1. Promise!Revoke(l)
    BY <1>0, <1>3 DEF Promise!Revoke, Promise!sessions, RevokeLink
  <2> QED  BY <2>1 DEF Allowed, Promise!Next
<1> QED  BY <1>1, <1>2, <1>3 DEF Lawyering

\* The uploads of a session.
LEMMA DepositSteps ==
    ASSUME Depositing
    PROVE  Allowed
<1>0. AdmittedTo' = AdmittedTo
  BY DEF Depositing, EnterDeposit, AuthorizeUpload, AdmittedTo
<1>1. ASSUME NEW v \in Visits, NEW s \in Sessions, NEW l \in Links, EnterDeposit(v, s, l)
      PROVE  Allowed
  <2>1. Promise!Enter(v, s)
    BY <1>0, <1>1 DEF Promise!Enter, Promise!access, Promise!sessions, EnterDeposit,
       SessionUsable, Usable, rows, tables
  <2> QED  BY <2>1 DEF Allowed, Promise!Next
<1>2. ASSUME NEW v \in Visits, NEW s \in Sessions, AuthorizeUpload(v, s) PROVE Allowed
  <2>1. Promise!TakeTicket(v, s)
    BY <1>0, <1>2 DEF Promise!TakeTicket, Promise!access, AuthorizeUpload, AllowanceLeft, rows
  <2> QED  BY <2>1 DEF Allowed, Promise!Next
<1> QED  BY <1>1, <1>2 DEF Depositing

\* The sweep, the clock and the stops.
LEMMA OtherSteps ==
    ASSUME IInv, ClosingKnown, ListExpired \/ TellListed \/ StopHalfWay \/ Tick
    PROVE  Allowed
<1>1. CASE ListExpired
  BY <1>1, Unseen DEF ListExpired, AdmittedTo, tables
<1>2. CASE TellListed
  <2>1. AdmittedTo' = AdmittedTo /\ PastEnd
    BY <1>2 DEF TellListed, AdmittedTo, ClosingKnown
  <2> QED  BY <1>2, <2>1, ClosingAllowed DEF TellListed, tables
<1>3. CASE StopHalfWay
  <2>1. PICK a \in Attempts : attempt' = [attempt EXCEPT ![a] = [IdleAttempt EXCEPT !.pc = "stopped"]]
    BY <1>3 DEF StopHalfWay
  <2>2. /\ attempt'[a].pc \notin Entering
        /\ \A b \in Attempts \ {a} : attempt'[b] = attempt[b]
    BY <2>1 DEF IInv, TypeOK, IdleAttempt, Entering
  <2>3. AdmittedTo' = [AdmittedTo EXCEPT ![a] = NoLink]
    BY <2>2, LeavesFor
  <2>4. Promise!GiveUp(a)
    BY <1>3, <2>3 DEF Promise!GiveUp, Promise!access, Promise!sessions, StopHalfWay, rows, tables
  <2> QED  BY <2>4 DEF Allowed, Promise!Next
<1>4. CASE Tick
  <2>1. Promise!Tick
    BY <1>4 DEF Promise!Tick, Promise!access, Promise!sessions, Tick, AdmittedTo, rows, tables
  <2> QED  BY <2>1 DEF Allowed, Promise!Next
<1> QED  BY <1>1, <1>2, <1>3, <1>4

LEMMA PromiseInit == Init => Promise!Init
<1> SUFFICES ASSUME Init PROVE Promise!Init
  OBVIOUS
<1>1. \A a \in Attempts : attempt[a].pc = "idle"
  BY DEF Init, IdleAttempt
<1>2. AdmittedTo = [a \in Attempts |-> NoLink]
  BY <1>1 DEF AdmittedTo
<1> QED  BY <1>2 DEF Init, Promise!Init

LEMMA PromiseStep == IInv /\ ClosingKnown /\ [Next]_vars => Allowed
<1> SUFFICES ASSUME IInv, ClosingKnown, [Next]_vars PROVE Allowed
  OBVIOUS
<1>1. CASE UNCHANGED vars
  BY <1>1, Unseen DEF vars, tables, AdmittedTo
<1>2. CASE Unlocking
  BY <1>2, InnerSteps, GuessSteps, TellingSteps DEF Unlocking
<1> QED  BY <1>1, <1>2, LawyerSteps, DepositSteps, OtherSteps DEF Next

\* The access implements AccessPromise: with any number of attempts, emissions,
\* sessions and uploads in progress at once, every guess counts as if it were
\* made alone (save_attempt_outcome, issue_link_replacing_current).
THEOREM AccessKeepsPromise == Spec => AccessPromised
<1>1. Allowed <=> [Promise!Next]_(Promise!promised)
  BY DEF Allowed
<1> QED
  BY <1>1, PromiseInit, PromiseStep, Invariance, ClosingAlways, PTL
     DEF Spec, AccessPromised, Promise!Spec
=============================================================================

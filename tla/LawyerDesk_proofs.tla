------------------------- MODULE LawyerDesk_proofs -------------------------
(***************************************************************************)
(* Proofs about LawyerDesk, for any number of requests, links, calls and   *)
(* faults, any forms and any bounds of sizes and settings.                 *)
(***************************************************************************)
EXTENDS LawyerDesk, TLAPS

-----------------------------------------------------------------------------
(***************************************************************************)
(* What is typed.                                                          *)
(***************************************************************************)
\* What a number field holds is read as a number.
LEMMA NumberIsInt ==
    ASSUME NEW raw, raw = Empty \/ raw \in Int
    PROVE  Number(raw) \in Int
BY DeskAssumption DEF Number

\* What the domain accepts, the constraints of the tables store: the bounds are
\* the same, and positions that come from the order of the drafts differ.
LEMMA AcceptedIsStorable ==
    ASSUME NEW form \in Forms, Violations(Body(form)) = {}
    PROVE  Storable(Body(form))
<1> DEFINE body == Body(form)
<1>1. /\ body.title = form.title
      /\ DOMAIN body.documents = DOMAIN form.documents
      /\ \A i \in DOMAIN form.documents :
           /\ body.documents[i].label = form.documents[i].label
           /\ body.documents[i].formats = form.documents[i].formats
           /\ body.documents[i].position = i
           /\ body.documents[i].bytes = Number(form.documents[i].megabytes) * Megabyte
      /\ \A k \in DOMAIN PolicyBounds : body.policy[k] = Number(form.policy[k])
  BY DEF Body
<1> HIDE DEF body
<1>2. /\ \A i \in DOMAIN body.documents : body.documents[i].bytes \in Int
      /\ \A k \in DOMAIN PolicyBounds : body.policy[k] \in Int
  BY <1>1, FormAssumption, DeskAssumption, NumberIsInt
<1>3. \A v \in DOMAIN Broken(body) : ~ Broken(body)[v]
  BY DEF Violations, body
<1>4. /\ ~ Broken(body).title_missing
      /\ ~ Broken(body).expected_document_label_missing
      /\ ~ Broken(body).expected_document_allowed_mime_types_empty
      /\ ~ Broken(body).expected_document_max_size_out_of_bounds
      /\ ~ Broken(body).policy_out_of_bounds
  BY <1>3 DEF Broken
<1>5. /\ body.title # "blank"
      /\ \A i \in DOMAIN body.documents :
           /\ body.documents[i].label # "blank"
           /\ body.documents[i].formats # {}
           /\ ~ SizeOutOfBounds(body.documents[i].bytes)
      /\ \A k \in DOMAIN PolicyBounds : ~ SettingOutOfBounds(k, body.policy[k])
  BY <1>4 DEF Broken
<1>6. \A i \in DOMAIN body.documents :
        body.documents[i].bytes \in MinSize..(MaxMegabytes * Megabyte)
  BY <1>2, <1>5, DeskAssumption DEF SizeOutOfBounds
<1>7. \A k \in DOMAIN PolicyBounds :
        body.policy[k] \in PolicyBounds[k].min..PolicyBounds[k].max
  BY <1>2, <1>5, FormAssumption DEF SettingOutOfBounds
<1>8. \A i \in DOMAIN body.documents :
        /\ body.documents[i].position >= 0
        /\ \A j \in DOMAIN body.documents :
             body.documents[i].position = body.documents[j].position => i = j
  BY <1>1, FormAssumption
<1> QED  BY <1>5, <1>6, <1>7, <1>8 DEF Storable, body

\* A form that is not read holds a size too large to be counted in bytes: fields
\* that are empty or hold what is no safe integer are sent as 0.
LEMMA UnreadIsHuge ==
    ASSUME NEW form \in Forms, Malformed(Body(form))
    PROVE  form # None /\ HugeSize(form)
<1>1. PICK i \in DOMAIN form.documents : ~ Safe(Number(form.documents[i].megabytes) * Megabyte)
  BY DEF Malformed, Body
<1> DEFINE size == form.documents[i].megabytes
<1>2. size = Empty \/ size \in Int
  BY FormAssumption
<1>3. Number(size) # 0
  <2>1. Safe(0 * Megabyte)
    BY DeskAssumption DEF Safe
  <2> QED  BY <1>1, <2>1
<1>4. size # Empty /\ Safe(size) /\ Number(size) = size
  BY <1>3 DEF Number
<1> QED  BY <1>1, <1>4, DeskAssumption DEF HugeSize

-----------------------------------------------------------------------------
(***************************************************************************)
(* The inductive invariant.                                                *)
(***************************************************************************)
CallSteps == {"new", "sent", "issuing", "journalizing", "answered", "refused",
              "named", "unread", "unnamed", "failed", "closed"}
CallRecords == [pc : CallSteps, m : Mutations \cup {"none"}, of : Requests \cup {None},
                link : Links \cup {None}, form : Forms \cup {None}]

\* What a call carries fits where it is, when made are the requests created.
CallFits(k, made) ==
    /\ k.pc \in {"new", "sent", "issuing"} => k.link = None
    /\ k.pc \in {"journalizing", "answered"} => k.link \in Links
    /\ k.pc # "new" => k.m \in Mutations
    /\ k.pc = "sent" /\ k.m = "create" => k.form \in Forms
    /\ k.pc = "issuing" => k.m # "revoke"
    /\ \/ k.pc \in {"issuing", "journalizing", "answered"}
       \/ k.link # None
       \/ k.m \in {"regenerate", "revoke"}
       => k.of \in made

CallsKnow == call \in [Calls -> CallRecords] /\ \A c \in Calls : CallFits(call[c], created)

Underway == {"sent", "issuing", "journalizing", "answered", "refused", "named", "unread",
             "unnamed"}

\* Whoever has sent a call waits for it, or the screen that did is gone.
Waited(c) == call[c].pc \in Underway => watched[call[c].m] = c \/ c \in abandoned

\* A screen only waits for its own mutations, the form for none once it shows
\* the message.
ScreensWait ==
    /\ screen \in {"login", "list", "form"} \cup created
    /\ watched \in [Mutations -> Calls \cup {None}]
    /\ \A c \in Calls : Waited(c)
    /\ watched["create"] # None => screen = "form" /\ delivery = None
    /\ watched["regenerate"] # None \/ watched["revoke"] # None => screen \in created

Readings == {Idle, Asked, [s |-> "unauthenticated"]}
                \cup [s : {"detail"}, link : Links \cup {None}]

ReadingType == reading \in [Requests -> Readings]

\* A link was issued by a call whose answer was shown, is on its way, or went to
\* nobody.
Told(c) ==
    \/ call[c].link \in told
    \/ call[c].pc \in {"journalizing", "answered", "unnamed", "failed"}
    \/ c \in abandoned

Issued(l) == \E c \in Calls : call[c].link = l /\ call[c].m # "revoke" /\ Told(c)

LinksIssued == \A r \in Requests : active[r] # None => Issued(active[r])

\* The session only ends by a fault of the bound, and so do calls that fail; a
\* form that was not read holds a huge size.
FaultsKnow ==
    /\ ~ session => faults > 0
    /\ \A c \in Calls :
         /\ call[c].m = "create" /\ call[c].pc \in {"refused", "unnamed"} => faults > 0
         /\ call[c].pc = "unread" => /\ call[c].m = "create" /\ call[c].form # None
                                     /\ HugeSize(call[c].form)

IInv ==
    /\ TypeOK
    /\ CallsKnow
    /\ ScreensWait
    /\ ReadingType
    /\ LinksIssued
    /\ FaultsKnow
    /\ RefusalsNameTheField

-----------------------------------------------------------------------------
(***************************************************************************)
(* Calls.                                                                  *)
(***************************************************************************)
\* One call moves.
LEMMA CallsMove ==
    ASSUME CallsKnow, NEW c \in Calls, NEW k \in CallRecords,
           call' = [call EXCEPT ![c] = k], created \subseteq created',
           CallFits(k, created')
    PROVE  CallsKnow'
<1>1. call' \in [Calls -> CallRecords]
  BY DEF CallsKnow
<1>2. ASSUME NEW d \in Calls PROVE CallFits(call'[d], created')
  <2>1. CASE d = c
    <3>1. call'[d] = k
      BY <2>1 DEF CallsKnow
    <3> QED  BY <3>1 DEF CallFits
  <2>2. CASE d # c
    <3>1. call'[d] = call[d] /\ CallFits(call[d], created)
      BY <2>2 DEF CallsKnow
    <3> QED  BY <3>1 DEF CallFits
  <2> QED  BY <2>1, <2>2
<1> QED  BY <1>1, <1>2 DEF CallsKnow

\* None does.
LEMMA CallsStay ==
    ASSUME CallsKnow, call' = call, created \subseteq created'
    PROVE  CallsKnow'
BY DEF CallsKnow, CallFits

\* The clicks and readings that send nothing.
Quiet ==
    \/ OpenForm \/ Leave \/ SignIn \/ CopyMessage \/ AttemptToClose \/ EndSession
    \/ \E r \in Requests : \/ OpenDashboard(r) \/ AskRevocation(r) \/ LinkEnds(r)
                           \/ Refetch(r) \/ ServeDetail(r) \/ ReceiveDetail(r) \/ LoseDetail(r)
    \/ UNCHANGED vars

\* The clicks that send a call.
Sending ==
    \E c \in Calls : \/ SubmitCreation(c)
                     \/ \E r \in Requests : Regenerate(c, r) \/ AnswerConfirmation(c, r)

\* What the portal makes of a call, and its answer.
Serving ==
    \E c \in Calls : Portal(c) \/ CallFails(c) \/ ReceiveSuccess(c) \/ ReceiveFailure(c)

\* A step is one of these.
LEMMA Steps == [Next]_vars => Quiet \/ Sending \/ Serving
BY DEF Next, Lawyer, Quiet, Sending, Serving

\* What a quiet step does not touch.
LEMMA QuietKeeps ==
    ASSUME Quiet
    PROVE  UNCHANGED <<call, created, journal, told>>
<1>1. CASE \/ OpenForm \/ Leave \/ SignIn \/ CopyMessage \/ AttemptToClose \/ EndSession
           \/ UNCHANGED vars
  BY <1>1 DEF OpenForm, Leave, SignIn, CopyMessage, AttemptToClose, EndSession, vars, portal
<1>2. CASE \E r \in Requests : \/ OpenDashboard(r) \/ AskRevocation(r) \/ LinkEnds(r)
                               \/ Refetch(r) \/ ServeDetail(r) \/ ReceiveDetail(r) \/ LoseDetail(r)
  BY <1>2 DEF OpenDashboard, AskRevocation, LinkEnds, Refetch, ServeDetail, ReceiveDetail,
              LoseDetail, portal
<1> QED  BY <1>1, <1>2 DEF Quiet

\* A sending moves one new call, waited for by a screen that waits for none, or
\* drops a confirmation.
LEMMA SendingMoves ==
    ASSUME Sending, IInv
    PROVE  /\ UNCHANGED <<portal, screen, delivery, dialog, abandoned, query, told, faults>>
           /\ refusal' \in {refusal, "none"}
           /\ confirming' \in {confirming, FALSE}
           /\ \/ UNCHANGED <<call, watched>>
              \/ \E c \in Calls, m \in Mutations, of \in Requests \cup {None},
                    form \in Forms \cup {None} :
                   /\ call[c].pc = "new" /\ ~ Pending(m) /\ delivery = None
                   /\ call' = [call EXCEPT ![c] =
                        [pc |-> "sent", m |-> m, of |-> of, link |-> None, form |-> form]]
                   /\ watched' = [watched EXCEPT ![m] = c]
                   /\ \/ m = "create" /\ form \in Forms /\ screen = "form"
                      \/ m \in {"regenerate", "revoke"} /\ of \in Requests /\ screen = of
<1>1. CASE \E c \in Calls : SubmitCreation(c)
  BY <1>1 DEF SubmitCreation, Send, Mutations
<1>2. CASE \E c \in Calls, r \in Requests : Regenerate(c, r)
  BY <1>2 DEF Regenerate, Dashboard, Send, Mutations
<1>3. CASE \E c \in Calls, r \in Requests : AnswerConfirmation(c, r)
  <2>1. PICK c \in Calls, r \in Requests : AnswerConfirmation(c, r)
    BY <1>3
  <2>2. CASE Send(c, "revoke", r, None)
    BY <2>1, <2>2 DEF AnswerConfirmation, Dashboard, Send, Mutations
  <2>3. CASE UNCHANGED <<portal, call, screen, watched, delivery, dialog, abandoned, query,
                         told, faults>>
    BY <2>1, <2>3 DEF AnswerConfirmation
  <2> QED  BY <2>1, <2>2, <2>3 DEF AnswerConfirmation
<1> QED  BY <1>1, <1>2, <1>3 DEF Sending

\* Every step keeps what calls carry.
LEMMA CallsStep == IInv /\ [Next]_vars => CallsKnow'
<1> SUFFICES ASSUME IInv, [Next]_vars PROVE CallsKnow'
  OBVIOUS
<1>0. CallsKnow /\ ScreensWait /\ TypeOK /\ created \subseteq Requests
  BY DEF IInv, TypeOK
<1>1. CASE Quiet
  BY <1>0, <1>1, QuietKeeps, CallsStay
<1>2. CASE Sending
  <2>1. CASE UNCHANGED <<call, watched>>
    BY <1>0, <1>2, <2>1, SendingMoves, CallsStay DEF portal
  <2>2. CASE ~ UNCHANGED <<call, watched>>
    <3>1. PICK c \in Calls, m \in Mutations, of \in Requests \cup {None},
               form \in Forms \cup {None} :
             /\ call' = [call EXCEPT ![c] =
                  [pc |-> "sent", m |-> m, of |-> of, link |-> None, form |-> form]]
             /\ \/ m = "create" /\ form \in Forms /\ screen = "form"
                \/ m \in {"regenerate", "revoke"} /\ of \in Requests /\ screen = of
      BY <1>2, <2>2, SendingMoves
    <3> DEFINE k == [pc |-> "sent", m |-> m, of |-> of, link |-> None, form |-> form]
    <3>2. k \in CallRecords
      BY DEF CallRecords, CallSteps
    <3>3. created' = created
      BY <1>2, SendingMoves DEF portal
    <3>4. m # "create" => of \in created
      BY <1>0, <3>1, DeskAssumption DEF ScreensWait
    <3>5. CallFits(k, created')
      BY <3>1, <3>3, <3>4 DEF CallFits
    <3> HIDE DEF k
    <3> QED  BY <1>0, <3>1, <3>2, <3>3, <3>5, CallsMove DEF k
  <2> QED  BY <2>1, <2>2
<1>3. ASSUME NEW c \in Calls, Portal(c) \/ CallFails(c) \/ ReceiveSuccess(c) \/ ReceiveFailure(c)
      PROVE  CallsKnow'
  <2>0. call[c] \in CallRecords /\ CallFits(call[c], created)
    BY <1>0 DEF CallsKnow
  <2>1. ASSUME NEW k \in CallRecords, call' = [call EXCEPT ![c] = k],
               created \subseteq created', CallFits(k, created')
        PROVE  CallsKnow'
    BY <1>0, <2>1, CallsMove
  <2>2. ASSUME NEW s \in {"refused", "named", "unread", "unnamed", "failed", "closed",
                           "answered"},
               NEW form \in {call[c].form, None},
               call' = [call EXCEPT ![c].pc = s, ![c].form = form],
               created' = created, s = "answered" => call[c].pc = "journalizing",
               call[c].pc # "new"
        PROVE  CallsKnow'
    <3> DEFINE k == [call[c] EXCEPT !.pc = s, !.form = form]
    <3>1. k \in CallRecords
      BY <2>0, <2>2 DEF CallRecords, CallSteps
    <3>2. call' = [call EXCEPT ![c] = k]
      BY <1>0, <2>2 DEF CallsKnow
    <3>3. CallFits(k, created')
      BY <2>0, <2>2, <3>1 DEF CallFits, CallRecords
    <3> HIDE DEF k
    <3> QED  BY <2>1, <2>2, <3>1, <3>2, <3>3
  <2>3. ASSUME NEW s \in {"refused", "named", "unread", "unnamed", "failed", "closed",
                           "answered"},
               call' = [call EXCEPT ![c].pc = s],
               created' = created, s = "answered" => call[c].pc = "journalizing",
               call[c].pc # "new"
        PROVE  CallsKnow'
    <3>1. call' = [call EXCEPT ![c].pc = s, ![c].form = call[c].form]
      BY <1>0, <2>0, <2>3 DEF CallsKnow, CallRecords
    <3> QED  BY <2>2, <2>3, <3>1
  <2>4. CASE Refuse(c) \/ CallFails(c)
    BY <2>2, <2>3, <2>4 DEF Refuse, CallFails, portal
  <2>5. CASE Journalize(c) \/ ReceiveSuccess(c) \/ ReceiveFailure(c)
    BY <2>3, <2>5 DEF Journalize, ReceiveSuccess, ReceiveFailure, portal
  <2>6. CASE CreateRequest(c)
    <3>1. CASE created' = created /\ call' = [call EXCEPT ![c].pc = "unnamed", ![c].form = None]
      BY <2>2, <2>6, <3>1 DEF CreateRequest, Is
    <3>2. CASE \E r \in Requests \ created :
                 /\ created' = created \cup {r}
                 /\ call' = [call EXCEPT ![c] =
                               [call[c] EXCEPT !.pc = "issuing", !.of = r, !.form = None]]
      <4>1. PICK r \in Requests :
              /\ created' = created \cup {r}
              /\ call' = [call EXCEPT ![c] =
                            [call[c] EXCEPT !.pc = "issuing", !.of = r, !.form = None]]
        BY <3>2
      <4> DEFINE k == [call[c] EXCEPT !.pc = "issuing", !.of = r, !.form = None]
      <4>2. k \in CallRecords
        BY <2>0 DEF CallRecords, CallSteps
      <4>3. CallFits(k, created')
        BY <2>0, <2>6, <4>1, <4>2 DEF CallFits, CreateRequest, Is, CallRecords
      <4> HIDE DEF k
      <4> QED  BY <2>1, <4>1, <4>2, <4>3 DEF k
    <3> QED  BY <2>6, <3>1, <3>2 DEF CreateRequest
  <2>7. CASE ReadRequest(c)
    <3> DEFINE k == [call[c] EXCEPT !.pc = "issuing"]
    <3>1. k \in CallRecords /\ call' = [call EXCEPT ![c] = k] /\ created' = created
      BY <1>0, <2>0, <2>7 DEF CallRecords, CallSteps, ReadRequest, portal, CallsKnow
    <3>2. CallFits(k, created')
      BY <2>0, <2>7, <3>1 DEF CallFits, ReadRequest, Is, CallRecords
    <3> HIDE DEF k
    <3> QED  BY <2>1, <3>1, <3>2
  <2>8. CASE IssueLink(c)
    <3>1. PICK l \in Links : call' = [call EXCEPT ![c].pc = "journalizing", ![c].link = l]
      BY <2>8 DEF IssueLink, Fresh
    <3> DEFINE k == [call[c] EXCEPT !.pc = "journalizing", !.link = l]
    <3>2. k \in CallRecords /\ call' = [call EXCEPT ![c] = k] /\ created' = created
      BY <1>0, <2>0, <2>8, <3>1 DEF CallRecords, CallSteps, IssueLink, CallsKnow
    <3>3. CallFits(k, created')
      BY <2>0, <2>8, <3>2 DEF CallFits, IssueLink, CallRecords
    <3> HIDE DEF k
    <3> QED  BY <2>1, <3>2, <3>3
  <2>9. CASE RevokeLink(c)
    <3> DEFINE r == call[c].of
               s == IF active[r] = None THEN "refused" ELSE "journalizing"
               k == [call[c] EXCEPT !.pc = s, !.link = active[r]]
    <3>1. r \in created /\ created' = created
      BY <2>0, <2>9 DEF RevokeLink, Is, CallFits
    <3>2. active[r] \in Links \cup {None}
      BY <1>0, <3>1 DEF TypeOK
    <3>3. k \in CallRecords /\ call' = [call EXCEPT ![c] = k]
      BY <1>0, <2>0, <2>9, <3>2 DEF CallRecords, CallSteps, RevokeLink, CallsKnow
    <3>4. k.pc = s /\ k.link = active[r] /\ k.m = "revoke" /\ k.of = r
      BY <2>0, <2>9 DEF RevokeLink, Is, CallRecords
    <3> HIDE DEF k, r
    <3>5. CallFits(k, created')
      BY <3>1, <3>2, <3>4 DEF CallFits, Mutations
    <3> QED  BY <2>1, <3>1, <3>3, <3>5
  <2> QED  BY <1>3, <2>4, <2>5, <2>6, <2>7, <2>8, <2>9 DEF Portal
<1> QED  BY <1>1, <1>2, <1>3, Steps DEF Serving

-----------------------------------------------------------------------------
(***************************************************************************)
(* The queries.                                                            *)
(***************************************************************************)
QueryType ==
    /\ data \in [Requests -> Links \cup {None, Unread}]
    /\ error \in [Requests -> {"none", "unexpected", "unauthenticated"}]
    /\ ReadingType

\* A reading that starts keeps the shape of the queries.
LEMMA StartTyped ==
    ASSUME QueryType, NEW r \in Requests, StartReading(r)
    PROVE  QueryType'
<1>1. Asked \in Readings
  BY DEF Readings
<1>2. error' \in [Requests -> {"none", "unexpected", "unauthenticated"}]
  BY DEF QueryType, StartReading
<1> QED  BY <1>1, <1>2 DEF QueryType, ReadingType, StartReading

\* So does a dashboard that is shown, or invalidated.
LEMMA MountTyped ==
    ASSUME QueryType, NEW r \in Requests, Mount(r) \/ Invalidate(r)
    PROVE  QueryType'
<1>1. StartReading(r) \/ UNCHANGED query
  BY DEF Mount, Invalidate
<1> QED  BY <1>1, StartTyped DEF query, QueryType, ReadingType

\* Every step keeps the shape of the queries.
LEMMA QueryStep == IInv /\ [Next]_vars => QueryType'
<1> SUFFICES ASSUME IInv, [Next]_vars PROVE QueryType'
  OBVIOUS
<1>0. TypeOK /\ CallsKnow /\ QueryType
  BY DEF IInv, TypeOK, QueryType
<1>1. CASE UNCHANGED query
  BY <1>0, <1>1 DEF query, QueryType, ReadingType
<1>2. CASE Quiet
  <2>1. CASE AttemptToClose
    <3>1. ASSUME NEW c \in Calls, Is(c, "closed", "create"), call[c].link = delivery,
                 delivery # None
          PROVE  call[c].of \in Requests
      BY <1>0, <3>1 DEF CallsKnow, CallFits, TypeOK
    <3>2. UNCHANGED query \/ \E r \in Requests : Mount(r)
      BY <2>1, <3>1 DEF AttemptToClose, query
    <3> QED  BY <1>0, <1>1, <3>2, MountTyped
  <2>2. CASE \E r \in Requests : OpenDashboard(r)
    BY <1>0, <2>2, MountTyped DEF OpenDashboard
  <2>3. CASE \E r \in Requests : Refetch(r)
    BY <1>0, <2>3, StartTyped DEF Refetch
  <2>4. CASE \E r \in Requests : ServeDetail(r)
    <3>1. PICK r \in Requests : ServeDetail(r)
      BY <2>4
    <3>2. active[r] \in Links \cup {None}
      BY <1>0 DEF TypeOK
    <3>3. [s |-> "detail", link |-> active[r]] \in Readings
          /\ [s |-> "unauthenticated"] \in Readings
      BY <3>2 DEF Readings
    <3>4. reading' \in [Requests -> Readings]
      BY <1>0, <3>1, <3>3 DEF QueryType, ReadingType, ServeDetail
    <3> QED  BY <1>0, <3>1, <3>4 DEF QueryType, ReadingType, ServeDetail
  <2>5. CASE \E r \in Requests : ReceiveDetail(r)
    <3>1. PICK r \in Requests : ReceiveDetail(r)
      BY <2>5
    <3>2. reading[r] \in Readings /\ reading[r].s = "detail"
      BY <1>0, <3>1 DEF QueryType, ReadingType, ReceiveDetail
    <3>3. reading[r].link \in Links \cup {None}
      BY <3>2 DEF Readings, Idle, Asked
    <3>4. Idle \in Readings
      BY DEF Readings
    <3> QED  BY <1>0, <3>1, <3>3, <3>4 DEF QueryType, ReadingType, ReceiveDetail
  <2>6. CASE \E r \in Requests : LoseDetail(r)
    <3>1. PICK r \in Requests : LoseDetail(r)
      BY <2>6
    <3>2. Idle \in Readings
      BY DEF Readings
    <3> QED  BY <1>0, <3>1, <3>2 DEF QueryType, ReadingType, LoseDetail
  <2>7. CASE \/ OpenForm \/ Leave \/ SignIn \/ CopyMessage \/ EndSession \/ UNCHANGED vars
             \/ \E r \in Requests : AskRevocation(r) \/ LinkEnds(r)
    BY <1>1, <2>7 DEF OpenForm, Leave, SignIn, CopyMessage, EndSession, AskRevocation, LinkEnds,
                      vars
  <2> QED  BY <1>2, <2>1, <2>2, <2>3, <2>4, <2>5, <2>6, <2>7 DEF Quiet
<1>3. CASE Sending
  BY <1>0, <1>1, <1>3, SendingMoves
<1>4. ASSUME NEW c \in Calls, Portal(c) \/ CallFails(c) \/ ReceiveFailure(c)
      PROVE  QueryType'
  BY <1>1, <1>4 DEF Portal, Refuse, CreateRequest, ReadRequest, IssueLink, RevokeLink, Journalize,
                    CallFails, ReceiveFailure
<1>5. ASSUME NEW c \in Calls, ReceiveSuccess(c)
      PROVE  QueryType'
  <2>1. call[c].of \in Requests
    BY <1>0, <1>5 DEF CallsKnow, CallFits, ReceiveSuccess, TypeOK
  <2>2. UNCHANGED query \/ \E r \in Requests : Invalidate(r)
    BY <1>5, <2>1 DEF ReceiveSuccess, query
  <2> QED  BY <1>0, <1>1, <2>2, MountTyped
<1> QED  BY <1>2, <1>3, <1>4, <1>5, Steps DEF Serving

-----------------------------------------------------------------------------
(***************************************************************************)
(* The pages.                                                              *)
(***************************************************************************)
PageType ==
    /\ refusal \in {"none", "named", "unread", "unnamed"}
    /\ delivery \in Links \cup {None}
    /\ delivery # None => screen \in {"form"} \cup created
    /\ dialog \in [copied : BOOLEAN, warned : BOOLEAN]
    /\ confirming \in BOOLEAN
    /\ told \subseteq Links /\ abandoned \subseteq Calls

\* A dashboard or a form that goes away takes with it all that waits.
LEMMA UnmountStep ==
    ASSUME PageType, ScreensWait, CallsKnow, Unmount, UNCHANGED <<call, created, refusal, told>>,
           screen' \in {"login", "list", "form"} \cup created
    PROVE  PageType' /\ ScreensWait'
<1>1. watched' = [m \in Mutations |-> None] /\ delivery' = None
      /\ dialog' = NoDialog /\ confirming' = FALSE
  BY DEF Unmount
<1>2. abandoned' \subseteq Calls
  BY DEF Unmount, PageType, ScreensWait, Pending
<1>3. ASSUME NEW c \in Calls PROVE Waited(c)'
  <2>1. CASE c \in abandoned
    BY <2>1 DEF Unmount, Waited
  <2>2. CASE call[c].pc \in Underway /\ watched[call[c].m] = c
    <3>1. call[c].m \in Mutations /\ Pending(call[c].m)
      BY <2>2, DeskAssumption DEF CallsKnow, CallFits, Underway, Pending
    <3> QED  BY <2>2, <3>1 DEF Unmount, Waited
  <2> QED  BY <2>1, <2>2 DEF ScreensWait, Waited
<1>4. PageType'
  BY <1>1, <1>2 DEF PageType, NoDialog
<1> QED  BY <1>1, <1>3, <1>4 DEF ScreensWait, Mutations

\* A page that stays may change its dialog and what the form says.
LEMMA PageStays ==
    ASSUME PageType, ScreensWait, UNCHANGED <<call, screen, watched, abandoned>>,
           UNCHANGED delivery, created \subseteq created',
           refusal' \in {"none", "named", "unread", "unnamed"},
           dialog' \in [copied : BOOLEAN, warned : BOOLEAN],
           confirming' \in BOOLEAN, UNCHANGED told
    PROVE  PageType' /\ ScreensWait'
<1>1. PageType'
  BY DEF PageType
<1>2. \A c \in Calls : Waited(c)'
  BY DEF ScreensWait, Waited
<1> QED  BY <1>1, <1>2 DEF ScreensWait

\* A page that neither waits nor shows a message may give way to another.
LEMMA PageChanges ==
    ASSUME PageType, ScreensWait, screen \notin {"form"} \cup created,
           UNCHANGED <<call, page, created, told>>,
           refusal' \in {"none", "named", "unread", "unnamed"},
           screen' \in {"login", "list", "form"} \cup created
    PROVE  PageType' /\ ScreensWait'
<1>1. PageType'
  BY DEF PageType, page
<1>2. \A c \in Calls : Waited(c)'
  BY DEF ScreensWait, Waited, page
<1>3. watched["create"] = None /\ watched["regenerate"] = None /\ watched["revoke"] = None
  BY DEF ScreensWait
<1> QED  BY <1>1, <1>2, <1>3 DEF ScreensWait, page

\* A sending keeps the pages: its mutation was free.
LEMMA SendStep ==
    ASSUME IInv, PageType, Sending
    PROVE  PageType' /\ ScreensWait'
<1>0. ScreensWait /\ CallsKnow
  BY DEF IInv
<1>1. PageType'
  BY SendingMoves DEF PageType, portal
<1>2. CASE UNCHANGED <<call, watched>>
  BY <1>0, <1>1, <1>2, SendingMoves DEF ScreensWait, Waited, portal
<1>3. CASE ~ UNCHANGED <<call, watched>>
  <2>1. PICK c \in Calls, m \in Mutations, of \in Requests \cup {None},
             form \in Forms \cup {None} :
          /\ call[c].pc = "new" /\ ~ Pending(m) /\ delivery = None
          /\ call' = [call EXCEPT ![c] =
               [pc |-> "sent", m |-> m, of |-> of, link |-> None, form |-> form]]
          /\ watched' = [watched EXCEPT ![m] = c]
          /\ \/ m = "create" /\ form \in Forms /\ screen = "form"
             \/ m \in {"regenerate", "revoke"} /\ of \in Requests /\ screen = of
    BY <1>3, SendingMoves
  <2>2. UNCHANGED <<screen, delivery, abandoned, created>>
    BY SendingMoves DEF portal
  <2>3. ASSUME NEW d \in Calls PROVE Waited(d)'
    <3>1. CASE d = c
      <4>1. call'[d].m = m /\ watched'[m] = c
        BY <1>0, <2>1, <3>1 DEF CallsKnow, ScreensWait
      <4> QED  BY <3>1, <4>1 DEF Waited
    <3>2. CASE d # c
      <4>1. call'[d] = call[d]
        BY <1>0, <2>1, <3>2 DEF CallsKnow
      <4>2. CASE d \in abandoned
        BY <2>2, <4>2 DEF Waited
      <4>3. CASE call[d].pc \in Underway /\ watched[call[d].m] = d
        <5>1. call[d].m \in Mutations /\ call[d].m # m
          BY <1>0, <2>1, <4>3, DeskAssumption DEF CallsKnow, CallFits, Underway, Pending
        <5>2. watched'[call[d].m] = d
          BY <1>0, <2>1, <4>3, <5>1 DEF ScreensWait
        <5> QED  BY <4>1, <5>2 DEF Waited
      <4> QED  BY <1>0, <4>1, <4>2, <4>3 DEF ScreensWait, Waited
    <3> QED  BY <3>1, <3>2
  <2>4. watched' \in [Mutations -> Calls \cup {None}]
    BY <1>0, <2>1 DEF ScreensWait
  <2>5. \A n \in Mutations : watched'[n] # None => watched[n] # None \/ n = m
    BY <1>0, <2>1 DEF ScreensWait
  <2>6. screen \in {"form"} \cup created
    BY <1>0, <2>1, DeskAssumption DEF ScreensWait
  <2>7. /\ watched'["create"] # None => screen = "form"
        /\ watched'["regenerate"] # None \/ watched'["revoke"] # None => screen \in created
    BY <1>0, <2>1, <2>5, <2>6, DeskAssumption DEF ScreensWait, Mutations
  <2> QED  BY <1>0, <1>1, <2>1, <2>2, <2>3, <2>4, <2>7 DEF ScreensWait
<1> QED  BY <1>2, <1>3

\* A call that ends frees the mutation that waits for it, and nobody else's.
LEMMA HearStep ==
    ASSUME ScreensWait, CallsKnow, NEW c \in Calls, call[c].pc # "new",
           NEW s \in {"failed", "closed"}, call' = [call EXCEPT ![c].pc = s],
           Hear(c), abandoned' = abandoned
    PROVE  /\ watched' \in [Mutations -> Calls \cup {None}]
           /\ \A d \in Calls : Waited(d)'
           /\ \A n \in Mutations : watched'[n] # None => watched'[n] = watched[n]
<1>1. call[c].m \in Mutations
  BY DEF CallsKnow, CallFits
<1>2. /\ watched' \in [Mutations -> Calls \cup {None}]
      /\ \A n \in Mutations : watched'[n] # None => watched'[n] = watched[n]
  BY <1>1 DEF Hear, ScreensWait
<1>3. ASSUME NEW d \in Calls PROVE Waited(d)'
  <2>1. CASE d = c
    <3>1. call'[d].pc = s
      BY <2>1 DEF CallsKnow, CallRecords
    <3> QED  BY <3>1 DEF Waited, Underway
  <2>2. CASE d # c
    <3>1. call'[d] = call[d]
      BY <2>2 DEF CallsKnow
    <3>2. CASE d \in abandoned
      BY <3>2 DEF Waited
    <3>3. CASE call[d].pc \in Underway /\ watched[call[d].m] = d
      <4>1. call[d].m \in Mutations
        BY <3>3 DEF CallsKnow, CallFits, Underway
      <4>2. watched'[call[d].m] = d
        BY <1>1, <2>2, <3>3, <4>1 DEF Hear, Heard, ScreensWait
      <4> QED  BY <3>1, <4>2 DEF Waited
    <3> QED  BY <3>1, <3>2, <3>3 DEF ScreensWait, Waited
  <2> QED  BY <2>1, <2>2
<1> QED  BY <1>2, <1>3

\* A message is only shown by the screen that asked for the link.
LEMMA SuccessStep ==
    ASSUME IInv, PageType, NEW c \in Calls, ReceiveSuccess(c)
    PROVE  PageType' /\ ScreensWait'
<1>0. ScreensWait /\ CallsKnow
  BY DEF IInv
<1>1. call[c].pc = "answered" /\ call[c].m \in Mutations /\ call[c].link \in Links
  BY <1>0 DEF ReceiveSuccess, CallsKnow, CallFits
<1>2. /\ call' = [call EXCEPT ![c].pc = "closed"] /\ Hear(c)
      /\ UNCHANGED <<created, screen, abandoned, confirming, refusal>>
  BY DEF ReceiveSuccess, portal
<1>3. /\ watched' \in [Mutations -> Calls \cup {None}]
      /\ \A d \in Calls : Waited(d)'
      /\ \A n \in Mutations : watched'[n] # None => watched'[n] = watched[n]
  BY <1>0, <1>1, <1>2, HearStep
<1>4. CASE Heard(c) /\ call[c].m # "revoke"
  <2>1. delivery' = call[c].link /\ told' = told \cup {call[c].link}
    BY <1>4 DEF ReceiveSuccess
  <2>2. dialog' \in [copied : BOOLEAN, warned : BOOLEAN]
    <3>1. dialog' \in {dialog, NoDialog}
      BY DEF ReceiveSuccess
    <3>2. NoDialog \in [copied : BOOLEAN, warned : BOOLEAN]
      BY DEF NoDialog
    <3> QED  BY <3>1, <3>2 DEF PageType
  <2>3. watched[call[c].m] # None /\ screen \in {"form"} \cup created
    BY <1>0, <1>1, <1>4, DeskAssumption DEF Heard, ScreensWait, Mutations
  <2>4. watched'["create"] = None
    <3>1. CASE call[c].m = "create"
      BY <1>0, <1>2, <1>4, <3>1 DEF Hear, ScreensWait, Mutations
    <3>2. CASE call[c].m = "regenerate"
      <4>1. screen \in created
        BY <1>0, <2>3, <3>2 DEF ScreensWait
      <4>2. screen # "form"
        BY <4>1, DeskAssumption DEF IInv, TypeOK
      <4> QED  BY <1>0, <1>3, <4>2 DEF ScreensWait, Mutations
    <3> QED  BY <1>1, <1>4, <3>1, <3>2 DEF Mutations
  <2>5. PageType'
    BY <1>1, <1>2, <2>1, <2>2, <2>3 DEF PageType
  <2> QED  BY <1>0, <1>2, <1>3, <2>4, <2>5 DEF ScreensWait, Mutations
<1>5. CASE ~ (Heard(c) /\ call[c].m # "revoke")
  <2>1. UNCHANGED <<delivery, dialog, told>>
    BY <1>5 DEF ReceiveSuccess
  <2>2. PageType'
    BY <1>2, <2>1 DEF PageType
  <2> QED  BY <1>0, <1>2, <1>3, <2>1, <2>2 DEF ScreensWait, Mutations
<1> QED  BY <1>4, <1>5

\* A failure shows no message.
LEMMA FailureStep ==
    ASSUME IInv, PageType, NEW c \in Calls, ReceiveFailure(c)
    PROVE  PageType' /\ ScreensWait'
<1>0. ScreensWait /\ CallsKnow
  BY DEF IInv
<1>1. /\ UNCHANGED <<created, screen, delivery, dialog, confirming, abandoned, told>>
      /\ refusal' \in {refusal, "named", "unread", "unnamed"} /\ Hear(c) /\ call[c].pc # "new"
  BY DEF ReceiveFailure, portal
<1>2. \E s \in {"failed", "closed"} : call' = [call EXCEPT ![c].pc = s]
  BY DEF ReceiveFailure
<1>3. /\ watched' \in [Mutations -> Calls \cup {None}]
      /\ \A d \in Calls : Waited(d)'
      /\ \A n \in Mutations : watched'[n] # None => watched'[n] = watched[n]
  BY <1>0, <1>1, <1>2, HearStep
<1>4. PageType'
  BY <1>1 DEF PageType
<1> QED  BY <1>0, <1>1, <1>3, <1>4 DEF ScreensWait, Mutations

\* The form that gives way to a dashboard waits for nothing.
LEMMA CloseStep ==
    ASSUME IInv, PageType, AttemptToClose
    PROVE  PageType' /\ ScreensWait'
<1>0. ScreensWait /\ CallsKnow /\ TypeOK
  BY DEF IInv
<1>1. UNCHANGED <<call, watched, confirming, abandoned, refusal, told, created>>
  BY DEF AttemptToClose, portal
<1>2. dialog' \in [copied : BOOLEAN, warned : BOOLEAN]
  <2>1. dialog' \in {NoDialog, [dialog EXCEPT !.warned = TRUE]}
    BY DEF AttemptToClose
  <2>2. NoDialog \in [copied : BOOLEAN, warned : BOOLEAN]
    BY DEF NoDialog
  <2>3. dialog \in [copied : BOOLEAN, warned : BOOLEAN]
    BY DEF PageType
  <2>4. [dialog EXCEPT !.warned = TRUE] \in [copied : BOOLEAN, warned : BOOLEAN]
    BY <2>3
  <2> QED  BY <2>1, <2>2, <2>4
<1>3. CASE UNCHANGED screen /\ delivery' \in {delivery, None}
  <2>1. PageType'
    BY <1>1, <1>2, <1>3 DEF PageType
  <2>2. \A d \in Calls : Waited(d)'
    BY <1>0, <1>1 DEF ScreensWait, Waited
  <2> QED  BY <1>0, <1>1, <1>3, <2>1, <2>2 DEF ScreensWait
<1>4. CASE screen = "form" /\ delivery # None /\ delivery' = None
           /\ \E c \in Calls : /\ Is(c, "closed", "create") /\ call[c].link = delivery
                               /\ Mount(call[c].of)
  <2>1. screen' \in {"login"} \cup created
    BY <1>0, <1>4 DEF CallsKnow, CallFits, Mount
  <2>2. screen \notin created
    BY <1>0, <1>4, DeskAssumption DEF TypeOK
  <2>3. watched["create"] = None /\ watched["regenerate"] = None /\ watched["revoke"] = None
    BY <1>0, <1>4, <2>2 DEF ScreensWait
  <2>4. PageType'
    BY <1>1, <1>2, <1>4, <2>1 DEF PageType
  <2>5. \A d \in Calls : Waited(d)'
    BY <1>0, <1>1 DEF ScreensWait, Waited
  <2> QED  BY <1>0, <1>1, <2>1, <2>3, <2>4, <2>5 DEF ScreensWait
<1>5. \/ UNCHANGED screen /\ delivery' \in {delivery, None}
      \/ screen = "form" /\ delivery # None /\ delivery' = None
         /\ \E c \in Calls : /\ Is(c, "closed", "create") /\ call[c].link = delivery
                             /\ Mount(call[c].of)
  BY DEF AttemptToClose
<1> QED  BY <1>3, <1>4, <1>5

\* A dashboard replaced by its failure waits for nothing either.
LEMMA LoseStep ==
    ASSUME IInv, PageType, NEW r \in Requests, LoseDetail(r)
    PROVE  PageType' /\ ScreensWait'
<1>0. ScreensWait /\ CallsKnow
  BY DEF IInv
<1>1. /\ UNCHANGED <<call, created, refusal, told>>
      /\ screen' \in {screen, "login"}
  BY DEF LoseDetail, portal
<1>2. CASE screen = r
  <2>1. Unmount
    BY <1>2 DEF LoseDetail
  <2> QED  BY <1>0, <1>1, <2>1, UnmountStep DEF ScreensWait
<1>3. CASE screen # r
  <2>1. UNCHANGED <<screen, watched, delivery, dialog, confirming, abandoned>>
    BY <1>3 DEF LoseDetail, page
  <2> QED  BY <1>0, <1>1, <2>1, PageStays DEF PageType
<1> QED  BY <1>2, <1>3

\* What the portal does is not seen before it is answered.
LEMMA ServeStep ==
    ASSUME IInv, PageType, NEW c \in Calls, Portal(c) \/ CallFails(c)
    PROVE  PageType' /\ ScreensWait'
<1>0. ScreensWait /\ CallsKnow
  BY DEF IInv
<1>1. /\ UNCHANGED <<screen, page, refusal, told>>
      /\ created \subseteq created'
  BY DEF Portal, Refuse, CreateRequest, ReadRequest, IssueLink, RevokeLink, Journalize,
         CallFails, portal
<1>2. \A d \in Calls : /\ call'[d].m = call[d].m
                       /\ call'[d].pc \in Underway => call[d].pc \in Underway
  <2>1. call[c].pc \in Underway
    BY DEF Portal, Refuse, CreateRequest, ReadRequest, IssueLink, RevokeLink, Journalize,
           CallFails, Is, Underway
  <2>2. call'[c].m = call[c].m
    <3>1. CASE Refuse(c) \/ ReadRequest(c) \/ Journalize(c) \/ CallFails(c)
      BY <1>0, <3>1 DEF Refuse, ReadRequest, Journalize, CallFails, CallsKnow, CallRecords
    <3>2. CASE CreateRequest(c)
      <4>1. \/ call'[c] = [call[c] EXCEPT !.pc = "unnamed", !.form = None]
            \/ \E r \in Requests :
                 call'[c] = [call[c] EXCEPT !.pc = "issuing", !.of = r, !.form = None]
        BY <1>0, <3>2 DEF CreateRequest, CallsKnow
      <4> QED  BY <1>0, <4>1 DEF CallsKnow, CallRecords
    <3>3. CASE IssueLink(c) \/ RevokeLink(c)
      BY <1>0, <3>3 DEF IssueLink, RevokeLink, CallsKnow, CallRecords
    <3> QED  BY <3>1, <3>2, <3>3 DEF Portal
  <2>3. \A d \in Calls : d # c => call'[d] = call[d]
    BY <1>0 DEF Portal, Refuse, CreateRequest, ReadRequest, IssueLink, RevokeLink, Journalize,
                CallFails, CallsKnow
  <2> QED  BY <2>1, <2>2, <2>3
<1>3. PageType'
  BY <1>1 DEF PageType, page
<1>4. ASSUME NEW d \in Calls PROVE Waited(d)'
  BY <1>0, <1>1, <1>2 DEF ScreensWait, Waited, page
<1> QED  BY <1>0, <1>1, <1>3, <1>4 DEF ScreensWait, page

\* Every step keeps the pages and what they wait for.
LEMMA PageStep == IInv /\ PageType /\ [Next]_vars => PageType' /\ ScreensWait'
<1> SUFFICES ASSUME IInv, PageType, [Next]_vars PROVE PageType' /\ ScreensWait'
  OBVIOUS
<1>0. ScreensWait /\ CallsKnow /\ TypeOK
  BY DEF IInv
<1>1. CASE OpenForm \/ SignIn \/ \E r \in Requests : OpenDashboard(r)
  <2>1. UNCHANGED <<call, page, created, told>> /\ refusal' \in {"none", refusal}
    BY <1>1 DEF OpenForm, SignIn, OpenDashboard, portal
  <2>2. screen \notin {"form"} \cup created
    BY <1>0, <1>1, DeskAssumption DEF OpenForm, SignIn, OpenDashboard, TypeOK
  <2>3. screen' \in {"login", "list", "form"} \cup created
    BY <1>1 DEF OpenForm, SignIn, OpenDashboard, Mount
  <2> QED  BY <1>0, <2>1, <2>2, <2>3, PageChanges DEF PageType
<1>2. CASE Leave
  BY <1>0, <1>2, UnmountStep DEF Leave, portal
<1>3. CASE \/ CopyMessage \/ EndSession \/ UNCHANGED vars
           \/ \E r \in Requests : \/ AskRevocation(r) \/ LinkEnds(r) \/ Refetch(r)
                                  \/ ServeDetail(r) \/ ReceiveDetail(r)
  <2>1. /\ UNCHANGED <<call, screen, watched, abandoned, delivery, created, told, refusal>>
        /\ confirming' \in {confirming, TRUE}
    BY <1>3 DEF CopyMessage, EndSession, AskRevocation, LinkEnds, Refetch, ServeDetail,
                ReceiveDetail, vars, portal, page
  <2>2. dialog' \in [copied : BOOLEAN, warned : BOOLEAN]
    BY <1>3 DEF CopyMessage, EndSession, AskRevocation, LinkEnds, Refetch, ServeDetail,
                ReceiveDetail, vars, page, PageType
  <2> QED  BY <1>0, <2>1, <2>2, PageStays DEF PageType
<1>4. CASE AttemptToClose
  BY <1>4, CloseStep
<1>5. CASE \E r \in Requests : LoseDetail(r)
  BY <1>5, LoseStep
<1>6. CASE Sending
  BY <1>6, SendStep
<1>7. CASE Serving
  BY <1>7, ServeStep, SuccessStep, FailureStep DEF Serving
<1> QED  BY <1>1, <1>2, <1>3, <1>4, <1>5, <1>6, <1>7, Steps DEF Quiet

-----------------------------------------------------------------------------
(***************************************************************************)
(* The links.                                                              *)
(***************************************************************************)
\* What a call has been told to carry, it carries for good, and its message does
\* not get lost: it is shown, or there is nobody left to show it to.
LEMMA ToldStays ==
    ASSUME IInv, PageType, [Next]_vars, NEW d \in Calls,
           call[d].link # None, call[d].m # "revoke", Told(d)
    PROVE  call'[d].link = call[d].link /\ call'[d].m = call[d].m /\ Told(d)'
<1>0. ScreensWait /\ CallsKnow
  BY DEF IInv
<1>1. CASE call'[d] = call[d] /\ told \subseteq told' /\ abandoned \subseteq abandoned'
  BY <1>1 DEF Told
<1>2. CASE Quiet
  <2>1. abandoned \subseteq abandoned'
    BY <1>2 DEF Quiet, OpenForm, Leave, SignIn, CopyMessage, AttemptToClose, EndSession,
                OpenDashboard, AskRevocation, LinkEnds, Refetch, ServeDetail, ReceiveDetail,
                LoseDetail, Unmount, page, vars
  <2> QED  BY <1>1, <1>2, <2>1, QuietKeeps
<1>3. CASE Sending
  <2>1. call[d].pc # "new"
    BY <1>0 DEF CallsKnow, CallFits
  <2>2. call'[d] = call[d]
    BY <1>0, <1>3, <2>1, SendingMoves DEF CallsKnow
  <2> QED  BY <1>1, <1>3, <2>2, SendingMoves
<1>4. ASSUME NEW c \in Calls, Portal(c) \/ CallFails(c) \/ ReceiveSuccess(c) \/ ReceiveFailure(c),
             c # d
      PROVE  call'[d] = call[d] /\ told \subseteq told' /\ abandoned \subseteq abandoned'
  BY <1>0, <1>4 DEF Portal, Refuse, CreateRequest, ReadRequest, IssueLink, RevokeLink, Journalize,
                    CallFails, ReceiveSuccess, ReceiveFailure, CallsKnow, page
<1>5. CASE Refuse(d) \/ CreateRequest(d) \/ ReadRequest(d) \/ IssueLink(d) \/ RevokeLink(d)
  BY <1>0, <1>5 DEF Refuse, CreateRequest, ReadRequest, IssueLink, RevokeLink, Is, CallsKnow,
                    CallFits
<1>6. CASE Journalize(d)
  <2>1. call'[d] = [call[d] EXCEPT !.pc = "answered"]
    BY <1>0, <1>6 DEF Journalize, CallsKnow
  <2>2. call'[d].pc = "answered" /\ call'[d].link = call[d].link /\ call'[d].m = call[d].m
    BY <1>0, <2>1 DEF CallsKnow, CallRecords
  <2> QED  BY <2>2 DEF Told
<1>7. CASE CallFails(d)
  <2>1. call'[d] = [call[d] EXCEPT !.pc = "unnamed", !.form = None]
    BY <1>0, <1>7 DEF CallFails, CallsKnow
  <2>2. call'[d].pc = "unnamed" /\ call'[d].link = call[d].link /\ call'[d].m = call[d].m
    BY <1>0, <2>1 DEF CallsKnow, CallRecords
  <2> QED  BY <2>2 DEF Told
<1>8. CASE ReceiveSuccess(d)
  <2>1. call'[d] = [call[d] EXCEPT !.pc = "closed"]
    BY <1>0, <1>8 DEF ReceiveSuccess, CallsKnow
  <2>2. call'[d].link = call[d].link /\ call'[d].m = call[d].m
    BY <1>0, <2>1 DEF CallsKnow, CallRecords
  <2>3. call[d].link \in told' \/ d \in abandoned
    BY <1>0, <1>8 DEF ReceiveSuccess, ScreensWait, Waited, Underway, Heard
  <2>4. abandoned' = abandoned
    BY <1>8 DEF ReceiveSuccess
  <2> QED  BY <2>2, <2>3, <2>4 DEF Told
<1>9. CASE ReceiveFailure(d)
  <2>1. UNCHANGED <<told, abandoned>>
    BY <1>9 DEF ReceiveFailure
  <2>2. call'[d] = [call[d] EXCEPT !.pc = IF @ = "unnamed" THEN "failed" ELSE "closed"]
    BY <1>0, <1>9 DEF ReceiveFailure, CallsKnow
  <2>3. /\ call'[d].link = call[d].link /\ call'[d].m = call[d].m
        /\ call[d].pc = "unnamed" => call'[d].pc = "failed"
    BY <1>0, <2>2 DEF CallsKnow, CallRecords
  <2>4. call[d].pc \in {"refused", "named", "unread", "unnamed"}
    BY <1>9 DEF ReceiveFailure
  <2> QED  BY <2>1, <2>3, <2>4 DEF Told
<1> QED  BY <1>1, <1>2, <1>3, <1>4, <1>5, <1>6, <1>7, <1>8, <1>9, Steps DEF Serving, Portal

\* The row of a link is only written by three steps.
LEMMA ActiveMoves ==
    ASSUME [Next]_vars, active' # active
    PROVE  \/ \E r \in Requests : LinkEnds(r)
           \/ \E c \in Calls : IssueLink(c) \/ RevokeLink(c)
<1>1. CASE Quiet
  BY <1>1 DEF Quiet, OpenForm, Leave, SignIn, CopyMessage, AttemptToClose, EndSession,
              OpenDashboard, AskRevocation, Refetch, ServeDetail, ReceiveDetail, LoseDetail,
              portal, vars
<1>2. CASE Sending
  BY <1>2 DEF Sending, SubmitCreation, Regenerate, AnswerConfirmation, Send, portal
<1>3. CASE Serving
  BY <1>3 DEF Serving, Portal, Refuse, CreateRequest, ReadRequest, Journalize, CallFails,
              ReceiveSuccess, ReceiveFailure, portal
<1> QED  BY <1>1, <1>2, <1>3, Steps

ActiveType ==
    /\ active \in [Requests -> Links \cup {None}]
    /\ \A r, q \in Requests : active[r] = active[q] /\ active[r] # None => r = q

\* Every step keeps one link for one request, and its message told or lost.
LEMMA LinkStep == IInv /\ PageType /\ [Next]_vars => ActiveType' /\ LinksIssued'
<1> SUFFICES ASSUME IInv, PageType, [Next]_vars PROVE ActiveType' /\ LinksIssued'
  OBVIOUS
<1>0. ActiveType /\ LinksIssued /\ CallsKnow /\ TypeOK
  BY DEF IInv, TypeOK, ActiveType
<1>1. ASSUME NEW l, l # None, Issued(l) PROVE Issued(l)'
  BY <1>1, ToldStays DEF Issued
<1>2. CASE active' = active
  BY <1>0, <1>1, <1>2 DEF ActiveType, LinksIssued
<1>3. ASSUME NEW r \in Requests, active' = [active EXCEPT ![r] = None]
      PROVE  ActiveType' /\ LinksIssued'
  <2>1. \A q \in Requests : active'[q] \in {active[q], None}
    BY <1>0, <1>3 DEF ActiveType
  <2>2. ActiveType'
    BY <1>0, <1>3, <2>1 DEF ActiveType
  <2>3. LinksIssued'
    BY <1>0, <1>1, <2>1 DEF LinksIssued
  <2> QED  BY <2>2, <2>3
<1>4. CASE \E r \in Requests : LinkEnds(r)
  BY <1>3, <1>4 DEF LinkEnds
<1>5. CASE \E c \in Calls : RevokeLink(c)
  <2>1. PICK c \in Calls : RevokeLink(c)
    BY <1>5
  <2>2. call[c].of \in Requests
    BY <1>0, <2>1 DEF RevokeLink, Is, CallsKnow, CallFits, TypeOK
  <2> QED  BY <1>3, <2>1, <2>2 DEF RevokeLink
<1>6. CASE \E c \in Calls : IssueLink(c)
  <2>1. PICK c \in Calls : IssueLink(c)
    BY <1>6
  <2>2. PICK l \in Fresh : /\ active' = [active EXCEPT ![call[c].of] = l]
                           /\ call' = [call EXCEPT ![c].pc = "journalizing", ![c].link = l]
    BY <2>1 DEF IssueLink
  <2> DEFINE r == call[c].of
  <2>3. r \in Requests /\ call[c].m # "revoke" /\ l \in Links
    BY <1>0, <2>1 DEF IssueLink, CallsKnow, CallFits, TypeOK, Fresh
  <2>4. \A q \in Requests : active[q] # l
    <3>1. ASSUME NEW q \in Requests, active[q] = l PROVE FALSE
      <4>1. Issued(l)
        BY <1>0, <2>3, <3>1, DeskAssumption DEF LinksIssued
      <4> QED  BY <4>1 DEF Issued, Fresh
    <3> QED  BY <3>1
  <2>5. active'[r] = l /\ \A q \in Requests : q # r => active'[q] = active[q]
    BY <1>0, <2>2, <2>3 DEF ActiveType
  <2>6. Issued(l)'
    <3>1. call'[c].pc = "journalizing" /\ call'[c].link = l /\ call'[c].m = call[c].m
      BY <1>0, <2>2 DEF CallsKnow, CallRecords
    <3> QED  BY <2>3, <3>1 DEF Issued, Told
  <2>7. active' \in [Requests -> Links \cup {None}]
    BY <1>0, <2>2, <2>3 DEF ActiveType
  <2> HIDE DEF r
  <2>8. ActiveType'
    BY <1>0, <2>4, <2>5, <2>7 DEF ActiveType
  <2>9. LinksIssued'
    BY <1>0, <1>1, <2>5, <2>6 DEF LinksIssued
  <2> QED  BY <2>8, <2>9
<1> QED  BY <1>2, <1>4, <1>5, <1>6, ActiveMoves

-----------------------------------------------------------------------------
(***************************************************************************)
(* The other rows, and the faults.                                         *)
(***************************************************************************)
RowType ==
    /\ session \in BOOLEAN
    /\ created \subseteq Requests
    /\ journal \subseteq {"access_link_issued", "access_link_revoked"} \X Links
    /\ faults \in 0..MaxFaults

\* A fault is counted.
LEMMA FaultCounts ==
    ASSUME RowType, Fault
    PROVE  faults' \in 0..MaxFaults /\ faults' > 0
BY DeskAssumption DEF RowType, Fault

\* Faults are never forgotten.
LEMMA FaultsGrow ==
    ASSUME RowType, [Next]_vars
    PROVE  faults' \in 0..MaxFaults /\ (faults > 0 => faults' > 0)
<1>1. Fault \/ faults' = faults
  <2>1. CASE Quiet
    BY <2>1 DEF Quiet, OpenForm, Leave, SignIn, CopyMessage, AttemptToClose, EndSession,
                OpenDashboard, AskRevocation, LinkEnds, Refetch, ServeDetail, ReceiveDetail,
                LoseDetail, vars
  <2>2. CASE Sending
    BY <2>2 DEF Sending, SubmitCreation, Regenerate, AnswerConfirmation, Send
  <2>3. CASE Serving
    BY <2>3 DEF Serving, Portal, Refuse, CreateRequest, ReadRequest, IssueLink, RevokeLink,
                Journalize, CallFails, ReceiveSuccess, ReceiveFailure
  <2> QED  BY <2>1, <2>2, <2>3, Steps
<1> QED  BY <1>1, FaultCounts DEF RowType

\* Every step keeps the shape of the rows.
LEMMA RowStep == IInv /\ [Next]_vars => RowType'
<1> SUFFICES ASSUME IInv, [Next]_vars PROVE RowType'
  OBVIOUS
<1>0. RowType /\ CallsKnow
  BY DEF IInv, TypeOK, RowType
<1>1. faults' \in 0..MaxFaults
  BY <1>0, FaultsGrow
<1>2. CASE Quiet
  <2>1. session' \in BOOLEAN
    BY <1>0, <1>2 DEF RowType, Quiet, OpenForm, Leave, SignIn, CopyMessage, AttemptToClose,
                EndSession, OpenDashboard, AskRevocation, LinkEnds, Refetch, ServeDetail,
                ReceiveDetail, LoseDetail, vars, portal
  <2> QED  BY <1>0, <1>1, <1>2, <2>1, QuietKeeps DEF RowType
<1>3. CASE Sending
  BY <1>0, <1>1, <1>3, SendingMoves DEF RowType, portal
<1>4. CASE Serving
  <2>1. PICK c \in Calls : Portal(c) \/ CallFails(c) \/ ReceiveSuccess(c) \/ ReceiveFailure(c)
    BY <1>4 DEF Serving
  <2>2. CASE Journalize(c)
    <3>1. call[c].link \in Links
      BY <1>0, <2>2 DEF Journalize, CallsKnow, CallFits
    <3>2. /\ journal' = journal \cup
               {<<IF call[c].m = "revoke" THEN "access_link_revoked" ELSE "access_link_issued",
                  call[c].link>>}
          /\ UNCHANGED <<session, created>>
      BY <2>2 DEF Journalize
    <3>3. <<IF call[c].m = "revoke" THEN "access_link_revoked" ELSE "access_link_issued",
            call[c].link>> \in {"access_link_issued", "access_link_revoked"} \X Links
      BY <3>1
    <3> QED  BY <1>0, <1>1, <3>2, <3>3 DEF RowType
  <2>3. CASE CreateRequest(c)
    BY <1>0, <1>1, <2>3 DEF RowType, CreateRequest
  <2>4. CASE \/ Refuse(c) \/ ReadRequest(c) \/ IssueLink(c) \/ RevokeLink(c) \/ CallFails(c)
             \/ ReceiveSuccess(c) \/ ReceiveFailure(c)
    BY <1>0, <1>1, <2>4 DEF RowType, Refuse, ReadRequest, IssueLink, RevokeLink, CallFails,
                            ReceiveSuccess, ReceiveFailure, portal
  <2> QED  BY <2>1, <2>2, <2>3, <2>4 DEF Portal
<1> QED  BY <1>2, <1>3, <1>4, Steps

\* The session only ends by a fault, and a creation only fails without a name
\* after one: what the domain accepts, the tables store.
LEMMA FaultStep == IInv /\ [Next]_vars => FaultsKnow' /\ RefusalsNameTheField'
<1> SUFFICES ASSUME IInv, [Next]_vars PROVE FaultsKnow' /\ RefusalsNameTheField'
  OBVIOUS
<1>0. RowType /\ CallsKnow /\ FaultsKnow /\ RefusalsNameTheField
  BY DEF IInv, TypeOK, RowType
<1>1. faults > 0 => faults' > 0
  BY <1>0, FaultsGrow
<1>2. CASE Quiet
  <2>1. session' = session \/ session' = TRUE \/ faults' > 0
    BY <1>0, <1>2, FaultCounts DEF Quiet, OpenForm, Leave, SignIn, CopyMessage, AttemptToClose,
       EndSession, OpenDashboard, AskRevocation, LinkEnds, Refetch, ServeDetail, ReceiveDetail,
       LoseDetail, vars, portal
  <2>2. refusal' \in {refusal, "none"}
    BY <1>2 DEF Quiet, OpenForm, Leave, SignIn, CopyMessage, AttemptToClose,
       EndSession, OpenDashboard, AskRevocation, LinkEnds, Refetch, ServeDetail, ReceiveDetail,
       LoseDetail, vars
  <2> QED  BY <1>0, <1>1, <1>2, <2>1, <2>2, QuietKeeps DEF FaultsKnow, RefusalsNameTheField, Is
<1>3. CASE Sending
  <2>1. UNCHANGED session /\ refusal' \in {refusal, "none"}
    BY <1>3, SendingMoves DEF portal
  <2>2. \A c \in Calls :
          /\ call'[c].pc \in {"refused", "unnamed", "unread"} => call'[c] = call[c]
          /\ call[c].pc = "closed" => call'[c] = call[c]
    BY <1>0, <1>3, SendingMoves DEF CallsKnow
  <2>3. FaultsKnow'
    BY <1>0, <1>1, <2>1, <2>2 DEF FaultsKnow
  <2>4. RefusalsNameTheField'
    BY <1>0, <1>1, <2>1, <2>2 DEF RefusalsNameTheField, Is
  <2> QED  BY <2>3, <2>4
<1>4. CASE Serving
  <2>1. PICK c \in Calls : Portal(c) \/ CallFails(c) \/ ReceiveSuccess(c) \/ ReceiveFailure(c)
    BY <1>4 DEF Serving
  <2>2. UNCHANGED session
    BY <2>1 DEF Portal, Refuse, CreateRequest, ReadRequest, IssueLink, RevokeLink, Journalize,
                CallFails, ReceiveSuccess, ReceiveFailure, portal
  <2>3. \A d \in Calls : d # c => call'[d] = call[d]
    BY <1>0, <2>1 DEF Portal, Refuse, CreateRequest, ReadRequest, IssueLink, RevokeLink,
                      Journalize, CallFails, ReceiveSuccess, ReceiveFailure, CallsKnow
  <2>4. call'[c].m = "create" /\ call'[c].pc \in {"refused", "unnamed"} => faults' > 0
    <3>1. CASE Refuse(c)
      <4>1. CASE ~ session
        BY <1>0, <1>1, <4>1 DEF FaultsKnow
      <4>2. CASE session
        <5>1. call'[c].pc \in {"named", "unread"}
          BY <1>0, <3>1, <4>2 DEF Refuse, CallsKnow, CallRecords
        <5> QED  BY <5>1
      <4> QED  BY <4>1, <4>2
    <3>2. CASE CreateRequest(c)
      <4>1. call[c].form \in Forms
        BY <1>0, <3>2 DEF CreateRequest, Is, CallsKnow, CallFits
      <4>2. Storable(Body(call[c].form))
        BY <3>2, <4>1, AcceptedIsStorable DEF CreateRequest
      <4>3. call'[c].pc = "issuing"
        <5>1. PICK q \in Requests : call' = [call EXCEPT ![c] =
                      [call[c] EXCEPT !.pc = "issuing", !.of = q, !.form = None]]
          BY <3>2, <4>2 DEF CreateRequest
        <5>2. call'[c] = [call[c] EXCEPT !.pc = "issuing", !.of = q, !.form = None]
          BY <1>0, <5>1 DEF CallsKnow
        <5> QED  BY <1>0, <5>2 DEF CallsKnow, CallRecords
      <4> QED  BY <4>3
    <3>3. CASE CallFails(c)
      BY <1>0, <3>3, FaultCounts DEF CallFails
    <3>4. CASE ReadRequest(c) \/ Journalize(c) \/ ReceiveSuccess(c) \/ ReceiveFailure(c)
      <4>1. call'[c].pc \in {"issuing", "answered", "closed", "failed"}
        BY <1>0, <3>4 DEF ReadRequest, Journalize, ReceiveSuccess, ReceiveFailure, CallsKnow,
                          CallRecords
      <4> QED  BY <4>1
    <3>5. CASE IssueLink(c)
      <4>1. call'[c].pc = "journalizing"
        BY <1>0, <3>5 DEF IssueLink, CallsKnow, CallRecords
      <4> QED  BY <4>1
    <3>6. CASE RevokeLink(c)
      <4>1. call'[c].m = "revoke"
        BY <1>0, <3>6 DEF RevokeLink, Is, CallsKnow, CallRecords
      <4> QED  BY <4>1
    <3> QED  BY <2>1, <3>1, <3>2, <3>3, <3>4, <3>5, <3>6 DEF Portal
  <2>7. call'[c].pc = "unread" => /\ call'[c].m = "create" /\ call'[c].form # None
                                  /\ HugeSize(call'[c].form)
    <3>1. CASE Refuse(c)
      <4>1. CASE ~ session
        BY <1>0, <3>1, <4>1 DEF Refuse, CallsKnow, CallRecords
      <4>2. CASE session
        <5>1. call[c].pc = "sent" /\ call[c].m = "create" /\ call[c].form \in Forms
          BY <1>0, <3>1, <4>2 DEF Refuse, Is, CallsKnow, CallFits
        <5>2. call'[c].pc = "unread" => Malformed(Body(call[c].form))
          BY <1>0, <3>1, <4>2 DEF Refuse, CallsKnow, CallRecords
        <5>3. call'[c].m = call[c].m /\ call'[c].form = call[c].form
          BY <1>0, <3>1, <4>2 DEF Refuse, CallsKnow, CallRecords
        <5> QED  BY <5>1, <5>2, <5>3, UnreadIsHuge
      <4> QED  BY <4>1, <4>2
    <3>2. CASE CreateRequest(c)
      <4>1. call'[c].pc \in {"issuing", "unnamed"}
        BY <1>0, <3>2 DEF CreateRequest, CallsKnow, CallRecords
      <4> QED  BY <4>1
    <3>3. CASE \/ CallFails(c) \/ ReadRequest(c) \/ IssueLink(c) \/ Journalize(c)
               \/ ReceiveSuccess(c) \/ ReceiveFailure(c)
      <4>1. call'[c].pc \in {"issuing", "journalizing", "answered", "closed", "failed", "unnamed"}
        BY <1>0, <3>3 DEF CallFails, ReadRequest, IssueLink, Journalize, ReceiveSuccess,
                          ReceiveFailure, CallsKnow, CallRecords
      <4> QED  BY <4>1
    <3>4. CASE RevokeLink(c)
      <4>1. call'[c].pc \in {"refused", "journalizing"}
        BY <1>0, <3>4 DEF RevokeLink, CallsKnow, CallRecords
      <4> QED  BY <4>1
    <3> QED  BY <2>1, <3>1, <3>2, <3>3, <3>4 DEF Portal
  <2>5. FaultsKnow'
    BY <1>0, <1>1, <2>2, <2>3, <2>4, <2>7 DEF FaultsKnow
  <2>8. call[c].pc # "closed"
    BY <2>1 DEF Portal, Refuse, CreateRequest, ReadRequest, IssueLink, RevokeLink, Journalize,
                CallFails, ReceiveSuccess, ReceiveFailure, Is
  <2>6. RefusalsNameTheField'
    <3>1. CASE ReceiveFailure(c)
      <4>1. refusal' = "unnamed" =>
              refusal = "unnamed" \/ (call[c].m = "create" /\ call[c].pc \in {"refused", "unnamed"})
        BY <3>1 DEF ReceiveFailure
      <4>2. refusal' = "unread" /\ refusal # "unread" => call[c].pc = "unread"
        BY <3>1 DEF ReceiveFailure
      <4>3. call[c].pc = "unread" =>
              call'[c].pc = "closed" /\ call'[c].m = call[c].m /\ call'[c].form = call[c].form
        BY <1>0, <3>1 DEF ReceiveFailure, CallsKnow, CallRecords
      <4>4. refusal' = "unnamed" => faults' > 0
        BY <1>0, <1>1, <4>1 DEF FaultsKnow, RefusalsNameTheField
      <4>5. refusal' = "unread" =>
              \E d \in Calls : /\ call'[d].pc = "closed" /\ call'[d].m = "create"
                               /\ call'[d].form # None /\ HugeSize(call'[d].form)
        <5>1. CASE refusal = "unread"
          BY <1>0, <2>3, <2>8, <5>1 DEF RefusalsNameTheField, Is
        <5>2. CASE refusal # "unread"
          BY <1>0, <4>2, <4>3, <5>2 DEF FaultsKnow
        <5> QED  BY <5>1, <5>2
      <4> QED  BY <4>4, <4>5 DEF RefusalsNameTheField, Is
    <3>2. CASE Portal(c) \/ CallFails(c) \/ ReceiveSuccess(c)
      <4>1. UNCHANGED refusal
        BY <3>2 DEF Portal, Refuse, CreateRequest, ReadRequest, IssueLink, RevokeLink, Journalize,
                    CallFails, ReceiveSuccess
      <4> QED  BY <1>0, <1>1, <2>3, <2>8, <4>1 DEF RefusalsNameTheField, Is
    <3> QED  BY <2>1, <3>1, <3>2
  <2> QED  BY <2>5, <2>6
<1> QED  BY <1>2, <1>3, <1>4, Steps

-----------------------------------------------------------------------------
(***************************************************************************)
(* The theorems.                                                           *)
(***************************************************************************)
\* The invariant holds at first,
LEMMA InvInit == Init => IInv
<1> SUFFICES ASSUME Init PROVE IInv
  OBVIOUS
<1>1. CallsKnow
  BY DEF Init, CallsKnow, CallFits, CallRecords, CallSteps, Unsent
<1>2. ScreensWait
  BY DEF Init, ScreensWait, Waited, Underway, Unsent, Mutations
<1>3. ReadingType
  BY DEF Init, ReadingType, Readings
<1>4. LinksIssued /\ FaultsKnow /\ RefusalsNameTheField
  BY DEF Init, LinksIssued, FaultsKnow, RefusalsNameTheField, Unsent
<1>5. dialog \in [copied : BOOLEAN, warned : BOOLEAN]
  BY DEF Init, NoDialog
<1>6. \A c \in Calls : /\ call[c].m \in Mutations \cup {"none"}
                       /\ call[c].of \in Requests \cup {None}
                       /\ call[c].link \in Links \cup {None}
                       /\ call[c].form \in Forms \cup {None}
  BY DEF Init, Unsent
<1>7. created \subseteq Requests /\ 0 \in 0..MaxFaults
  BY DeskAssumption DEF Init
<1>8. /\ watched \in [Mutations -> Calls \cup {None}]
      /\ data \in [Requests -> Links \cup {None, Unread}]
      /\ error \in [Requests -> {"none", "unexpected", "unauthenticated"}]
      /\ active \in [Requests -> Links \cup {None}]
      /\ \A r, q \in Requests : active[r] = active[q] /\ active[r] # None => r = q
  BY DEF Init
<1>9. TypeOK
  BY <1>5, <1>6, <1>7, <1>8 DEF Init, TypeOK
<1> QED  BY <1>1, <1>2, <1>3, <1>4, <1>9 DEF IInv

\* and every step keeps it.
LEMMA InvStep == IInv /\ [Next]_vars => IInv'
<1> SUFFICES ASSUME IInv, [Next]_vars PROVE IInv'
  OBVIOUS
<1>1. PageType
  BY DEF IInv, TypeOK, PageType
<1>2. CallsKnow' /\ QueryType' /\ PageType' /\ ScreensWait' /\ ActiveType' /\ LinksIssued'
      /\ RowType' /\ FaultsKnow' /\ RefusalsNameTheField'
  BY <1>1, CallsStep, QueryStep, PageStep, LinkStep, RowStep, FaultStep
<1>3. \A c \in Calls : /\ call'[c].m \in Mutations \cup {"none"}
                       /\ call'[c].of \in Requests \cup {None}
                       /\ call'[c].link \in Links \cup {None}
                       /\ call'[c].form \in Forms \cup {None}
  BY <1>2 DEF CallsKnow, CallRecords
<1>4. TypeOK'
  BY <1>2, <1>3 DEF TypeOK, QueryType, PageType, ScreensWait, ActiveType, RowType
<1> QED  BY <1>2, <1>4 DEF IInv, QueryType

\* The inductive invariant holds in every state of the pages and the portal.
THEOREM Invariance == Spec => []IInv
BY InvInit, InvStep, PTL DEF Spec

\* The rows, the calls and the pages keep their shape.
THEOREM TypeCorrect == Spec => []TypeOK
<1>1. IInv => TypeOK
  BY DEF IInv
<1> QED  BY <1>1, Invariance, PTL

\* The lawyer has been shown the message of the link that works, or its call is
\* on its way, has failed after the link was written, or was abandoned.
THEOREM SecretShown == Spec => []LinkSecretShown
<1>1. IInv => LinkSecretShown
  BY DEF IInv, TypeOK, LinksIssued, Issued, Told, LinkSecretShown
<1> QED  BY <1>1, Invariance, PTL

\* The form names what is wrong with it, whatever is typed: only a fault leaves
\* the lawyer without a reason, and only a size too large to be counted in bytes
\* makes the form unreadable.
THEOREM RefusalsNamed == Spec => []RefusalsNameTheField
<1>1. IInv => RefusalsNameTheField
  BY DEF IInv
<1> QED  BY <1>1, Invariance, PTL
=============================================================================

----------------------------- MODULE LawyerDesk -----------------------------
(***************************************************************************)
(* The pages of one lawyer: the form that creates a request, the dashboard *)
(* that regenerates or revokes its link, and the dialog that shows the     *)
(* message of a new link, once.  Behind them the three routes of the       *)
(* portal, one statement after the other: a link may exist although nobody *)
(* has been told its secret.                                               *)
(*                                                                         *)
(* Requests to the portal are Calls; a screen watches the last call of     *)
(* each of its mutations, and an answer nobody watches is not shown.       *)
(***************************************************************************)
EXTENDS Integers, FiniteSets, Sequences

CONSTANTS
    Requests,     \* bound: identifiers of deposit requests
    Former,       \* the requests that may exist already
    Links,        \* bound: links issued
    Calls,        \* bound: mutations sent
    None,         \* no link, no call, no request, no form
    Unread,       \* the data of a query that never succeeded
    Empty,        \* what a number field left empty holds
    Forms,        \* what the lawyer may have typed when the form is sent
    Megabyte, MinSize, MaxMegabytes,   \* sizes of documents, in one unit
    MaxSafe,      \* Number.MAX_SAFE_INTEGER
    PolicyBounds, \* SECURITY_POLICY_BOUNDS: setting -> [min, max]
    MaxFaults     \* bound: calls and readings that fail, ends of the session

ASSUME DeskAssumption ==
    /\ None \notin Links \cup Calls \cup Requests \cup Forms
    /\ Unread \notin Links \cup {None}
    /\ Former \subseteq Requests
    /\ Requests \cap {"login", "list", "form"} = {}
    /\ {Megabyte, MinSize, MaxMegabytes, MaxSafe, MaxFaults} \subseteq Nat

\* A field holds a number or nothing, whatever else is typed.
ASSUME FormAssumption ==
    /\ \A k \in DOMAIN PolicyBounds : PolicyBounds[k].min \in Int /\ PolicyBounds[k].max \in Int
    /\ \A form \in Forms :
         /\ DOMAIN form.documents \subseteq Nat
         /\ \A i \in DOMAIN form.documents :
              form.documents[i].megabytes = Empty \/ form.documents[i].megabytes \in Int
         /\ \A k \in DOMAIN PolicyBounds : form.policy[k] = Empty \/ form.policy[k] \in Int

VARIABLES
    \* the portal
    session,    \* the cookie of the lawyer opens a session
    created,    \* deposit_request, with its expected documents
    active,     \* active[r]: the active link of r
    journal,    \* the entries access_link_issued and access_link_revoked
    call,       \* call[c]: where the request c to the portal is
    \* the pages
    screen,     \* "login", "list", "form", or the request of the dashboard
    watched,    \* watched[m]: the call that the mutation m waits for
    refusal,    \* what the form says of its last sending
    delivery,   \* the link whose message the dialog shows
    dialog,     \* has_been_copied, is_warned_about_closing
    confirming, \* is_confirming_revocation
    data,       \* data[r]: the link in the detail last read
    error,      \* error[r]: the failure of that query
    reading,    \* reading[r]: what became of the reading under way
    \* history and bounds
    told,       \* links whose message has been on screen
    abandoned,  \* calls whose screen went away before their answer
    faults

portal == <<session, created, active, journal>>
page == <<watched, delivery, dialog, confirming, abandoned>>
query == <<data, error, reading>>
vars == <<portal, call, screen, page, refusal, query, told, faults>>

Mutations == {"create", "regenerate", "revoke"}

Unsent == [pc |-> "new", m |-> "none", of |-> None, link |-> None, form |-> None]
NoDialog == [copied |-> FALSE, warned |-> FALSE]
Idle == [s |-> "idle"]
Asked == [s |-> "asked"]

\* Requests of former days have no link left, or their link has ended.
Init ==
    /\ session = TRUE
    /\ created \in {{}, Former} /\ active = [r \in Requests |-> None] /\ journal = {}
    /\ call = [c \in Calls |-> Unsent]
    /\ screen = "list"
    /\ watched = [m \in Mutations |-> None]
    /\ refusal = "none"
    /\ delivery = None /\ dialog = NoDialog /\ confirming = FALSE
    /\ data = [r \in Requests |-> Unread]
    /\ error = [r \in Requests |-> "none"]
    /\ reading = [r \in Requests |-> Idle]
    /\ told = {} /\ abandoned = {} /\ faults = 0

-----------------------------------------------------------------------------
(***************************************************************************)
(* From what is typed to what is stored.  A title or a label is blank or   *)
(* not; the three settings of the policy are numbers.                      *)
(***************************************************************************)
\* Number.isSafeInteger
Safe(n) == n \in -MaxSafe..MaxSafe

\* Mutated: an empty field is NaN, which the body carries as null.
BugNumber(raw) == IF raw = Empty THEN MaxSafe + 1 ELSE raw

\* read_whole_number
Number(raw) == IF raw = Empty \/ ~ Safe(raw) THEN 0 ELSE raw

\* to_creation_body: positions come from the order of the drafts.
Body(form) ==
    [title |-> form.title,
     documents |-> [i \in DOMAIN form.documents |->
         [label |-> form.documents[i].label, formats |-> form.documents[i].formats,
          position |-> i, bytes |-> Number(form.documents[i].megabytes) * Megabyte]],
     policy |-> [k \in DOMAIN PolicyBounds |-> Number(form.policy[k])]]

SettingOutOfBounds(k, n) == n < PolicyBounds[k].min \/ n > PolicyBounds[k].max

SizeOutOfBounds(bytes) == bytes < MinSize \/ bytes > MaxMegabytes * Megabyte

\* read_expected_document: a size that is no safe integer is not read at all.
Malformed(body) == \E i \in DOMAIN body.documents : ~ Safe(body.documents[i].bytes)

Broken(body) ==
    LET SomeDocument(P(_)) == \E i \in DOMAIN body.documents : P(body.documents[i]) IN
    [title_missing |-> body.title = "blank",
     no_expected_document |-> body.documents = <<>>,
     expected_document_label_missing |-> SomeDocument(LAMBDA d : d.label = "blank"),
     expected_document_allowed_mime_types_empty |-> SomeDocument(LAMBDA d : d.formats = {}),
     expected_document_max_size_out_of_bounds |->
         SomeDocument(LAMBDA d : SizeOutOfBounds(d.bytes)),
     policy_out_of_bounds |->
         \E k \in DOMAIN PolicyBounds : SettingOutOfBounds(k, body.policy[k])]

\* parse_deposit_request_creation: all of them at once.
Violations(body) == IF Malformed(body) THEN {"malformed_payload"}
                    ELSE {v \in DOMAIN Broken(body) : Broken(body)[v]}

\* The CHECK constraints and the index of the two tables.
Storable(body) ==
    /\ body.title # "blank"
    /\ \A k \in DOMAIN PolicyBounds :
         body.policy[k] \in PolicyBounds[k].min..PolicyBounds[k].max
    /\ \A i \in DOMAIN body.documents :
         LET d == body.documents[i] IN
         /\ d.label # "blank" /\ d.formats # {} /\ d.position >= 0
         /\ d.bytes \in MinSize..(MaxMegabytes * Megabyte)
         /\ \A j \in DOMAIN body.documents : d.position = body.documents[j].position => i = j

-----------------------------------------------------------------------------
(***************************************************************************)
(* What the pages show.                                                    *)
(***************************************************************************)
Dashboard(r) == screen = r /\ error[r] = "none" /\ data[r] # Unread

\* Mutated: a button stays enabled while its mutation runs.
BugPending(m) == FALSE
Pending(m) == watched[m] # None

\* Mutated: the dialog outlives its screen.
BugUnmount ==
    /\ watched' = [m \in Mutations |-> None]
    /\ abandoned' = abandoned \cup {watched[m] : m \in {n \in Mutations : Pending(n)}}
    /\ UNCHANGED <<delivery, dialog, confirming>>

\* The header of the dashboard, or the form, goes away with all it holds.
Unmount ==
    /\ watched' = [m \in Mutations |-> None]
    /\ abandoned' = abandoned \cup {watched[m] : m \in {n \in Mutations : Pending(n)}}
    /\ delivery' = None /\ dialog' = NoDialog /\ confirming' = FALSE

\* A reading that starts without data forgets the former failure.
StartReading(r) ==
    /\ reading' = [reading EXCEPT ![r] = Asked]
    /\ error' = [error EXCEPT ![r] = IF data[r] = Unread THEN "none" ELSE @]
    /\ UNCHANGED data

\* The dashboard is shown: it reads again, unless a reading is under way, but a
\* former answer 401 sends to the login form at once.
Mount(r) ==
    /\ screen' = IF error[r] = "unauthenticated" /\ data[r] # Unread THEN "login" ELSE r
    /\ IF reading[r] = Idle THEN StartReading(r) ELSE UNCHANGED query

\* invalidateQueries: only a query on screen is read again at once.
Invalidate(r) ==
    IF screen = r /\ (reading[r] = Idle \/ data[r] # Unread) THEN StartReading(r)
    ELSE UNCHANGED query

OpenForm ==
    /\ screen = "list"
    /\ screen' = "form" /\ refusal' = "none"
    /\ UNCHANGED <<portal, call, page, query, told, faults>>

OpenDashboard(r) ==
    /\ screen = "list" /\ r \in created
    /\ Mount(r)
    /\ UNCHANGED <<portal, call, page, refusal, told, faults>>

\* The link to the list, or the browser's back button, at any moment.
Leave ==
    /\ screen \in {"form"} \cup Requests
    /\ screen' = "list"
    /\ Unmount
    /\ UNCHANGED <<portal, call, refusal, query, told, faults>>

SignIn ==
    /\ screen = "login"
    /\ session' = TRUE
    /\ screen' = "list"
    /\ UNCHANGED <<created, active, journal, call, page, refusal, query, told, faults>>

-----------------------------------------------------------------------------
(***************************************************************************)
(* The mutations.                                                          *)
(***************************************************************************)
Send(c, m, r, form) ==
    /\ call[c].pc = "new"
    /\ ~ Pending(m)
    /\ delivery = None    \* the dialog covers the page, for a pointer at least
    /\ call' = [call EXCEPT ![c] = [pc |-> "sent", m |-> m, of |-> r, link |-> None,
                                    form |-> form]]
    /\ watched' = [watched EXCEPT ![m] = c]
    /\ UNCHANGED <<portal, screen, delivery, dialog, abandoned, query, told, faults>>

SubmitCreation(c) ==
    /\ screen = "form"
    /\ \E form \in Forms : Send(c, "create", None, form)
    /\ refusal' = "none"
    /\ UNCHANGED confirming

Regenerate(c, r) ==
    /\ Dashboard(r) /\ ~ confirming
    /\ Send(c, "regenerate", r, None)
    /\ UNCHANGED <<refusal, confirming>>

AskRevocation(r) ==
    /\ Dashboard(r) /\ delivery = None /\ ~ confirming
    /\ data[r] # None /\ ~ Pending("revoke")
    /\ confirming' = TRUE
    /\ UNCHANGED <<portal, call, screen, watched, delivery, dialog, abandoned, refusal,
                   query, told, faults>>

AnswerConfirmation(c, r) ==
    /\ Dashboard(r) /\ confirming
    /\ confirming' = FALSE
    /\ \/ Send(c, "revoke", r, None)
       \/ UNCHANGED <<portal, call, screen, watched, delivery, dialog, abandoned, query,
                      told, faults>>
    /\ UNCHANGED refusal

-----------------------------------------------------------------------------
(***************************************************************************)
(* The portal: DepositRequestsController, DepositRequestLinksController    *)
(* and the issuing of a link.                                              *)
(***************************************************************************)
Is(c, pc, m) == call[c].pc = pc /\ call[c].m = m

\* RouteAccessGuard, then the validation of the form.
Refuse(c) ==
    /\ call[c].pc = "sent"
    /\ \/ /\ ~ session
          /\ call' = [call EXCEPT ![c].pc = "refused"]
       \/ /\ session /\ Is(c, "sent", "create")
          /\ Violations(Body(call[c].form)) # {}
          /\ call' = [call EXCEPT ![c].pc =
                        IF Malformed(Body(call[c].form)) THEN "unread" ELSE "named"]
    /\ UNCHANGED <<portal, screen, page, refusal, query, told, faults>>

\* The transaction of create, which the constraints of the tables may refuse.
CreateRequest(c) ==
    LET body == Body(call[c].form) IN
    /\ Is(c, "sent", "create") /\ session
    /\ Violations(body) = {}
    /\ IF Storable(body)
       THEN \E r \in Requests \ created :
              /\ created' = created \cup {r}
              /\ call' = [call EXCEPT ![c] = [@ EXCEPT !.pc = "issuing", !.of = r, !.form = None]]
       ELSE /\ call' = [call EXCEPT ![c].pc = "unnamed", ![c].form = None]
            /\ UNCHANGED created
    /\ UNCHANGED <<session, active, journal, screen, page, refusal, query, told, faults>>

\* find_detail_for_owner reads the policy of the request.
ReadRequest(c) ==
    /\ Is(c, "sent", "regenerate") /\ session
    /\ call' = [call EXCEPT ![c].pc = "issuing"]
    /\ UNCHANGED <<portal, screen, page, refusal, query, told, faults>>

Fresh == Links \ {call[c].link : c \in Calls}

\* issue_for_deposit_request: secrets are drawn, and the new link replaces the
\* active one in one transaction.
IssueLink(c) ==
    /\ call[c].pc = "issuing"
    /\ \E l \in Fresh :
         /\ active' = [active EXCEPT ![call[c].of] = l]
         /\ call' = [call EXCEPT ![c].pc = "journalizing", ![c].link = l]
    /\ UNCHANGED <<session, created, journal, screen, page, refusal, query, told, faults>>

\* revoke_current_link: 404 if there is nothing left to revoke.
RevokeLink(c) ==
    LET r == call[c].of IN
    /\ Is(c, "sent", "revoke") /\ session
    /\ active' = [active EXCEPT ![r] = None]
    /\ call' = [call EXCEPT ![c].pc = IF active[r] = None THEN "refused" ELSE "journalizing",
                            ![c].link = active[r]]
    /\ UNCHANGED <<session, created, journal, screen, page, refusal, query, told, faults>>

Journalize(c) ==
    /\ call[c].pc = "journalizing"
    /\ journal' = journal \cup
         {<<IF call[c].m = "revoke" THEN "access_link_revoked" ELSE "access_link_issued",
            call[c].link>>}
    /\ call' = [call EXCEPT ![c].pc = "answered"]
    /\ UNCHANGED <<session, created, active, screen, page, refusal, query, told, faults>>

Portal(c) == Refuse(c) \/ CreateRequest(c) \/ ReadRequest(c) \/ IssueLink(c)
                 \/ RevokeLink(c) \/ Journalize(c)

\* The link blocks on its PIN or another page revokes it.
LinkEnds(r) ==
    /\ active[r] # None
    /\ active' = [active EXCEPT ![r] = None]
    /\ UNCHANGED <<session, created, journal, call, screen, page, refusal, query, told, faults>>

Fault == faults < MaxFaults /\ faults' = faults + 1

\* A statement fails, the API stops, or the answer is lost on its way.
CallFails(c) ==
    /\ Fault
    /\ call[c].pc \in {"sent", "issuing", "journalizing", "answered"}
    /\ call' = [call EXCEPT ![c].pc = "unnamed", ![c].form = None]
    /\ UNCHANGED <<portal, screen, page, refusal, query, told>>

EndSession ==
    /\ Fault
    /\ session
    /\ session' = FALSE
    /\ UNCHANGED <<created, active, journal, call, screen, page, refusal, query, told>>

-----------------------------------------------------------------------------
(***************************************************************************)
(* The answers.  The cache hears of every success; the screen only of the  *)
(* call its mutation waits for.                                            *)
(***************************************************************************)
Heard(c) == watched[call[c].m] = c

Hear(c) ==
    watched' = IF Heard(c) THEN [watched EXCEPT ![call[c].m] = None] ELSE watched

ReceiveSuccess(c) ==
    LET l == call[c].link
        shows == Heard(c) /\ call[c].m # "revoke" IN
    /\ call[c].pc = "answered"
    /\ call' = [call EXCEPT ![c].pc = "closed"]
    /\ Hear(c)
    /\ IF call[c].m = "create"
       THEN IF screen \in Requests THEN Invalidate(screen) ELSE UNCHANGED query
       ELSE Invalidate(call[c].of)
    /\ delivery' = IF shows THEN l ELSE delivery
    /\ dialog' = IF shows /\ delivery = None THEN NoDialog ELSE dialog
    /\ told' = IF shows THEN told \cup {l} ELSE told
    /\ UNCHANGED <<portal, screen, confirming, abandoned, refusal, faults>>

\* Only the form says that its mutation failed: which fields are wrong, that it
\* could not be read (malformed_payload), or to try again in a moment.
ReceiveFailure(c) ==
    /\ call[c].pc \in {"refused", "named", "unread", "unnamed"}
    /\ call' = [call EXCEPT ![c].pc = IF @ = "unnamed" THEN "failed" ELSE "closed"]
    /\ Hear(c)
    /\ refusal' = IF Heard(c) /\ call[c].m = "create"
                  THEN IF call[c].pc = "refused" THEN "unnamed" ELSE call[c].pc
                  ELSE refusal
    /\ UNCHANGED <<portal, screen, delivery, dialog, confirming, abandoned, query, told, faults>>

CopyMessage ==
    /\ delivery # None
    /\ dialog' = [dialog EXCEPT !.copied = TRUE]
    /\ UNCHANGED <<portal, call, screen, watched, delivery, confirming, abandoned, refusal,
                   query, told, faults>>

\* The first attempt only warns, unless the message was copied; the form then
\* gives way to the dashboard of the request it created.
AttemptToClose ==
    /\ delivery # None
    /\ IF dialog.copied \/ dialog.warned
       THEN /\ delivery' = None /\ dialog' = NoDialog
            /\ IF screen = "form"
               THEN \E c \in Calls : /\ Is(c, "closed", "create") /\ call[c].link = delivery
                                     /\ Mount(call[c].of)
               ELSE UNCHANGED <<screen, query>>
       ELSE /\ dialog' = [dialog EXCEPT !.warned = TRUE]
            /\ UNCHANGED <<delivery, screen, query>>
    /\ UNCHANGED <<portal, call, watched, confirming, abandoned, refusal, told, faults>>

-----------------------------------------------------------------------------
(***************************************************************************)
(* The detail of a request.                                                *)
(***************************************************************************)
Refetch(r) ==
    /\ screen = r /\ reading[r] = Idle
    /\ StartReading(r)
    /\ UNCHANGED <<portal, call, screen, page, refusal, told, faults>>

ServeDetail(r) ==
    /\ reading[r] = Asked
    /\ reading' = [reading EXCEPT ![r] = IF session THEN [s |-> "detail", link |-> active[r]]
                                                    ELSE [s |-> "unauthenticated"]]
    /\ UNCHANGED <<portal, call, screen, page, refusal, data, error, told, faults>>

ReceiveDetail(r) ==
    /\ reading[r].s = "detail"
    /\ reading' = [reading EXCEPT ![r] = Idle]
    /\ data' = [data EXCEPT ![r] = reading[r].link]
    /\ error' = [error EXCEPT ![r] = "none"]
    /\ UNCHANGED <<portal, call, screen, page, refusal, told, faults>>

\* LawyerResource: an ended session leads to the login form, any other failure
\* replaces the dashboard by its message.
LoseDetail(r) ==
    /\ \/ /\ reading[r].s = "unauthenticated"
          /\ error' = [error EXCEPT ![r] = "unauthenticated"]
          /\ screen' = IF screen = r THEN "login" ELSE screen
          /\ UNCHANGED faults
       \/ /\ reading[r] # Idle
          /\ Fault
          /\ error' = [error EXCEPT ![r] = "unexpected"]
          /\ UNCHANGED screen
    /\ reading' = [reading EXCEPT ![r] = Idle]
    /\ IF screen = r THEN Unmount ELSE UNCHANGED page
    /\ UNCHANGED <<portal, call, refusal, data, told>>

-----------------------------------------------------------------------------
Lawyer == OpenForm \/ Leave \/ SignIn \/ CopyMessage \/ AttemptToClose

Next ==
    \/ Lawyer \/ EndSession
    \/ \E c \in Calls : \/ SubmitCreation(c) \/ Portal(c) \/ CallFails(c)
                        \/ ReceiveSuccess(c) \/ ReceiveFailure(c)
    \/ \E r \in Requests : \/ OpenDashboard(r) \/ AskRevocation(r) \/ LinkEnds(r)
                           \/ Refetch(r) \/ ServeDetail(r) \/ ReceiveDetail(r) \/ LoseDetail(r)
    \/ \E c \in Calls, r \in Requests : Regenerate(c, r) \/ AnswerConfirmation(c, r)

Spec == Init /\ [][Next]_vars

-----------------------------------------------------------------------------
(***************************************************************************)
(* Properties.                                                             *)
(***************************************************************************)
\* The rows, the calls and the pages keep their shape; a link belongs to one
\* request, and a dialog to a screen that can show one.
TypeOK ==
    /\ session \in BOOLEAN
    /\ created \subseteq Requests
    /\ active \in [Requests -> Links \cup {None}]
    /\ \A r, q \in Requests : active[r] = active[q] /\ active[r] # None => r = q
    /\ journal \subseteq {"access_link_issued", "access_link_revoked"} \X Links
    /\ \A c \in Calls : /\ call[c].m \in Mutations \cup {"none"}
                        /\ call[c].of \in Requests \cup {None}
                        /\ call[c].link \in Links \cup {None}
                        /\ call[c].form \in Forms \cup {None}
    /\ screen \in {"login", "list", "form"} \cup Requests
    /\ watched \in [Mutations -> Calls \cup {None}]
    /\ refusal \in {"none", "named", "unread", "unnamed"}
    /\ delivery \in Links \cup {None}
    /\ delivery # None => screen \in {"form"} \cup created
    /\ dialog \in [copied : BOOLEAN, warned : BOOLEAN]
    /\ confirming \in BOOLEAN
    /\ data \in [Requests -> Links \cup {None, Unread}]
    /\ error \in [Requests -> {"none", "unexpected", "unauthenticated"}]
    /\ told \subseteq Links /\ abandoned \subseteq Calls
    /\ faults \in 0..MaxFaults

\* The lawyer has been shown the message of the link that works, or its call is
\* on its way, has failed after the link was written, or was abandoned by the
\* lawyer: mutations of one screen never overtake each other.
LinkSecretShown ==
    \A r \in created : active[r] # None =>
        \/ active[r] \in told
        \/ \E c \in Calls : /\ call[c].link = active[r]
                            /\ \/ call[c].pc \in {"journalizing", "answered", "unnamed", "failed"}
                               \/ c \in abandoned

\* A size that is a safe integer of megabytes, and none once in bytes.
HugeSize(form) ==
    \E i \in DOMAIN form.documents :
        LET size == form.documents[i].megabytes IN
        size # Empty /\ Safe(size) /\ ~ Safe(size * Megabyte)

\* The form names what is wrong with it.  The lawyer is only told to try again
\* after a fault, and that the form could not be read for a size too large to be
\* counted in bytes: never for an empty field (read_whole_number), nor for what
\* the domain lets through and the tables refuse.
RefusalsNameTheField ==
    /\ refusal = "unnamed" => faults > 0
    /\ refusal = "unread" =>
          \E c \in Calls : Is(c, "closed", "create") /\ call[c].form # None
                           /\ HugeSize(call[c].form)

\* The message of a link does not leave the screen before it has been copied, or
\* the lawyer warned that closing loses it (access_link_delivery_dialog.tsx).
MessageKept ==
    [][delivery # None /\ delivery' # delivery /\ screen' = screen
         => dialog.copied \/ dialog.warned]_vars
=============================================================================

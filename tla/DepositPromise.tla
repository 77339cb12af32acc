--------------------------- MODULE DepositPromise ---------------------------
(***************************************************************************)
(* What the deposit of one request promises to the client and the lawyer,  *)
(* whoever works on it and in whatever order: no queue, no bucket, no      *)
(* recorder, no clock.  A file is on the client's list or not; something   *)
(* it posted is kept or not, served to the lawyer or not; and the request  *)
(* has a status.  The client may post a file again: what is kept is        *)
(* replaced, and a post that crosses a scan or a removal is remembered,    *)
(* because the promise is weaker for that file from then on.               *)
(***************************************************************************)
CONSTANTS Documents, Files, DocumentOf

VARIABLES
    status,    \* status of the request
    life,      \* life[f]: its status on the list, or "none", "withdrawn", "abandoned"
    posted,    \* posted[f]: the contents the client has posted
    crossed,   \* crossed[f]: what a repeated post has crossed, a "scan", a "removal"
    kept,      \* files of which something is stored
    served,    \* served[f]: the content that can be downloaded, or "none"
    vouched,   \* documents for which a clean file has been seen
    erased     \* files whose removal is over

promised == <<status, life, posted, crossed, kept, served, vouched, erased>>

Listed(f) == life[f] \in {"pending_upload", "pending_scan", "clean", "infected", "rejected"}

Occupants(d) == {f \in Files : DocumentOf[f] = d /\ life[f] \in {"pending_scan", "clean"}}

UploadKinds == {"healthy", "virus", "nonconforming"}

\* A verdict blames, or vouches for, something that was posted; a file is found
\* clean when it is served already.
Deserves(f, verdict) ==
    CASE verdict = "clean"    -> served[f] # "none"
      [] verdict = "infected" -> "virus" \in posted[f]
      [] verdict = "rejected" -> "nonconforming" \in posted[f]

Init ==
    /\ status = "incomplete"
    /\ life = [f \in Files |-> "none"]
    /\ posted = [f \in Files |-> {}] /\ crossed = [f \in Files |-> {}]
    /\ kept = {} /\ served = [f \in Files |-> "none"]
    /\ vouched = {} /\ erased = {}

-----------------------------------------------------------------------------
Becomes(f, s) == /\ life' = [life EXCEPT ![f] = s]
                 /\ UNCHANGED <<status, posted, crossed, kept, served, erased>>

\* A slot is reserved while nothing occupies the document.
Reserve(f) ==
    /\ life[f] = "none" /\ Occupants(DocumentOf[f]) = {}
    /\ Becomes(f, "pending_upload") /\ UNCHANGED vouched

\* The reservation may have been withdrawn since, but not given up.  Only a
\* repeated post crosses anything: the scan of a file that waits for its verdict,
\* or that was withdrawn meanwhile; the removal of a withdrawn one.
Upload(f) ==
    /\ life[f] \notin {"none", "abandoned"}
    /\ \E c \in UploadKinds : posted' = [posted EXCEPT ![f] = @ \cup {c}]
    /\ \E x \in SUBSET {"scan", "removal"} :
          /\ crossed' = [crossed EXCEPT ![f] = @ \cup x]
          /\ x # {} => posted[f] # {} /\ life[f] \in {"pending_scan", "withdrawn"}
          /\ "removal" \in x => life[f] = "withdrawn"
    /\ f \in erased => "removal" \in crossed'[f]
    /\ kept' = kept \cup {f}
    /\ UNCHANGED <<status, life, served, vouched, erased>>

\* What is uploaded waits for a verdict, alone for its document; a file that had
\* one may wait again.
Receive(f) ==
    /\ Listed(f) /\ posted[f] # {} /\ Occupants(DocumentOf[f]) \subseteq {f}
    /\ Becomes(f, "pending_scan") /\ UNCHANGED vouched

\* What is served was found healthy, unless a post crossed the scan; it is not
\* exchanged under a clean file; and it does not come back from a removal that no
\* post crossed.
Serve(f) ==
    /\ f \in kept /\ life[f] \in {"pending_scan", "withdrawn"}
    /\ f \in erased => "removal" \in crossed[f]
    /\ \E c \in posted[f] : /\ c = "healthy" \/ "scan" \in crossed[f]
                            /\ served' = [served EXCEPT ![f] = c]
    /\ UNCHANGED <<status, life, posted, crossed, kept, vouched, erased>>

Judge(f) ==
    /\ life[f] = "pending_scan"
    /\ \E verdict \in {"clean", "infected", "rejected"} :
          /\ Deserves(f, verdict)
          /\ Becomes(f, verdict)
          /\ vouched' = IF verdict = "clean" THEN vouched \cup {DocumentOf[f]} ELSE vouched

\* The client removes the file, or another one has taken its place.
Withdraw(f) == Listed(f) /\ Becomes(f, "withdrawn") /\ UNCHANGED vouched

\* Only what was never uploaded is given up.
Abandon(f) ==
    /\ life[f] = "pending_upload" /\ posted[f] = {}
    /\ Becomes(f, "abandoned") /\ UNCHANGED vouched

\* What is kept is deleted if its file is withdrawn, or if something posted did not
\* deserve to be kept.
Dispose(f) ==
    /\ life[f] = "withdrawn" \/ posted[f] # {"healthy"}
    /\ served[f] = "none" /\ kept' = kept \ {f}
    /\ UNCHANGED <<status, life, posted, crossed, served, vouched, erased>>

\* The removal ends: nothing is served, and nothing kept but what was posted since.
Erase(f) ==
    /\ life[f] = "withdrawn" /\ posted[f] # {}
    /\ \/ kept' = kept \ {f}
       \/ "removal" \in crossed[f] /\ kept' = kept
    /\ served' = [served EXCEPT ![f] = "none"] /\ erased' = erased \cup {f}
    /\ UNCHANGED <<status, life, posted, crossed, vouched>>

-----------------------------------------------------------------------------
StatusBecomes(s) ==
    status' = s /\ UNCHANGED <<life, posted, crossed, kept, served, vouched, erased>>

Finish == status = "incomplete" /\ StatusBecomes("processing")

Validate == /\ status = "processing"
            /\ Documents # {} /\ Documents \subseteq vouched
            /\ StatusBecomes("validated")

\* For a reason only: a file was withdrawn, or something posted was not clean.
Reopen == /\ status \in {"processing", "validated"}
          /\ \E f \in Files : life[f] = "withdrawn" \/ posted[f] \cap {"virus", "nonconforming"} # {}
          /\ StatusBecomes("incomplete")

Close == \/ status \in {"incomplete", "processing"} /\ StatusBecomes("blocked")
         \/ status = "incomplete" /\ StatusBecomes("expired_incomplete")

Next ==
    \/ \E f \in Files : \/ Reserve(f) \/ Upload(f) \/ Receive(f) \/ Serve(f) \/ Judge(f)
                        \/ Withdraw(f) \/ Abandon(f) \/ Dispose(f) \/ Erase(f)
    \/ Finish \/ Validate \/ Reopen \/ Close

Spec == Init /\ [][Next]_promised
=============================================================================

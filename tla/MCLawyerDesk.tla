---------------------------- MODULE MCLawyerDesk ----------------------------
(***************************************************************************)
(* One lawyer with one request, created here or before, two links and two  *)
(* mutations, and forms with one field wrong at a time.                    *)
(***************************************************************************)
EXTENDS LawyerDesk, TLC

Settings == {"link_lifetime_days", "pin_length", "max_pin_attempts"}
Bounds == ("link_lifetime_days" :> [min |-> 1, max |-> 14] @@
           "pin_length" :> [min |-> 4, max |-> 12] @@
           "max_pin_attempts" :> [min |-> 5, max |-> 20])
Defaults == ("link_lifetime_days" :> 7 @@ "pin_length" :> 6 @@ "max_pin_attempts" :> 10)

Draft(size) == [label |-> "text", formats |-> {"pdf"}, megabytes |-> size]
Form(documents, policy) == [title |-> "text", documents |-> documents, policy |-> policy]
Good == Form(<<Draft(1), Draft(20)>>, Defaults)

\* With a safe integer of 50000 and megabytes of 1024, 49 is the first size
\* that is no safe integer once in bytes, and -49 the first below zero.
TypedForms ==
    {Good, [Good EXCEPT !.title = "blank"],
     [Good EXCEPT !.documents[2].label = "blank"],
     [Good EXCEPT !.documents[1].formats = {}]}
    \cup {[Good EXCEPT !.documents[2].megabytes = n] : n \in {Empty, -1, 0, 21, 49, -49, 50001}}
    \cup {[Good EXCEPT !.policy["pin_length"] = n] : n \in {Empty, 3, 12, 13, 50001}}

Permuted == Permutations(Links) \cup Permutations(Calls)
=============================================================================

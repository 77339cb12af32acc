--------------------------- MODULE FailureWindow ---------------------------
(***************************************************************************)
(* The failures of one address: a row for each, dated, of which those of a *)
(* window that ends now are counted.  failed[t] is how many are dated t.   *)
(***************************************************************************)
EXTENDS Integers, FiniteSets

\* Rows of one date are told apart by a number.
FailureRows(failed) == UNION {{t} \X (1..failed[t]) : t \in DOMAIN failed}

\* The oldest instant of the window counts, and so does an instant to come.
FailuresWithin(failed, window, at) ==
    Cardinality({row \in FailureRows(failed) : row[1] + window >= at})
=============================================================================

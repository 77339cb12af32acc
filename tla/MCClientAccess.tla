--------------------------- MODULE MCClientAccess ---------------------------
(***************************************************************************)
(* ClientAccess on small instances.                                        *)
(***************************************************************************)
EXTENDS ClientAccess, TLC

Permuted == Permutations(Attempts) \cup Permutations(Offices) \cup Permutations(Links)
=============================================================================

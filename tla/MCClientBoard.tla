--------------------------- MODULE MCClientBoard ---------------------------
(***************************************************************************)
(* The page of the client with two slots and two sendings, for the same    *)
(* slot or for two.                                                        *)
(***************************************************************************)
EXTENDS ClientBoard, TLC

CONSTANTS d1, d2, t1, t2

OneOrTwoSlots == {t1 :> d1 @@ t2 :> d1, t1 :> d1 @@ t2 :> d2}
OneSlot == {t1 :> d1}
=============================================================================

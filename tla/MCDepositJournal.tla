-------------------------- MODULE MCDepositJournal --------------------------
(***************************************************************************)
(* Instances of DepositJournal for TLC.                                    *)
(***************************************************************************)
EXTENDS DepositJournal, TLC

CONSTANTS f1, d1

SingleFile == f1 :> d1

\* Of a wrong type: the object is deleted last.
Nonconforming == [f \in Files |-> {"nonconforming"}]
=============================================================================

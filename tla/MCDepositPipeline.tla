-------------------------- MODULE MCDepositPipeline --------------------------
(***************************************************************************)
(* Instances of DepositPipeline for TLC.                                   *)
(***************************************************************************)
EXTENDS DepositInvariant, TLC

CONSTANTS f1, f2, d1, d2

\* Two files compete for one document ...
OneDocument == f1 :> d1 @@ f2 :> d1

\* ... or each has its own.
TwoDocuments == f1 :> d1 @@ f2 :> d2

SingleFile == f1 :> d1

\* What may be posted: only healthy contents, ...
AllHealthy == [f \in Files |-> {"healthy"}]

\* ... an infected one as well, or, of the second file, one of a wrong type.
SomeInfected == [f \in Files |-> {"healthy", "virus"}]

SecondNonconforming == f1 :> {"healthy"} @@ f2 :> {"healthy", "nonconforming"}

\* The files of one document are interchangeable, and so are the webhooks.
Interchangeable == Permutations(Files) \cup Permutations(Handlers)
=============================================================================

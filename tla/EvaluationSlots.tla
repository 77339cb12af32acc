-------------------------- MODULE EvaluationSlots --------------------------
(***************************************************************************)
(* What the gate in front of Argon2 promises, whatever it counts with: at  *)
(* most Places callers hold a place, a caller waits only while every place *)
(* is held, and a place that comes free goes to a caller that waits.       *)
(***************************************************************************)
EXTENDS Integers, FiniteSets

CONSTANTS Callers, Places

VARIABLES holders, waiting

Free == Cardinality(holders) < Places

Init == holders = {} /\ waiting = {}

Take(c) == /\ c \notin holders \cup waiting
           /\ Free
           /\ holders' = holders \cup {c}
           /\ waiting' = waiting

Wait(c) == /\ c \notin holders \cup waiting
           /\ ~ Free
           /\ holders' = holders
           /\ waiting' = waiting \cup {c}

Leave(c) == /\ c \in holders
            /\ waiting = {}
            /\ holders' = holders \ {c}
            /\ waiting' = waiting

HandOver(c, d) == /\ c \in holders
                  /\ d \in waiting
                  /\ holders' = (holders \ {c}) \cup {d}
                  /\ waiting' = waiting \ {d}

Next == \/ \E c \in Callers : Take(c) \/ Wait(c) \/ Leave(c)
        \/ \E c, d \in Callers : HandOver(c, d)

Spec == Init /\ [][Next]_<<holders, waiting>>
=============================================================================

------------------------ MODULE FailureWindow_proofs ------------------------
(***************************************************************************)
(* What a failure more and a later clock do to the count of a window.      *)
(***************************************************************************)
EXTENDS FailureWindow, FiniteSetTheorems, TLAPS

\* One failure more, dated t.
OneMoreAt(failed, more, t) ==
    /\ t \in DOMAIN failed
    /\ failed[t] \in Nat
    /\ DOMAIN more = DOMAIN failed
    /\ \A u \in DOMAIN failed : more[u] = IF u = t THEN failed[u] + 1 ELSE failed[u]

\* An update of the table counts one failure more.
LEMMA UpdateCounts ==
    ASSUME NEW T, NEW failed \in [T -> Nat], NEW t \in T,
           NEW more, more = [failed EXCEPT ![t] = @ + 1]
    PROVE  OneMoreAt(failed, more, t)
BY DEF OneMoreAt

\* An element more in a finite set.
LEMMA OneMoreElement ==
    ASSUME NEW S, IsFiniteSet(S), NEW x
    PROVE  /\ IsFiniteSet(S \cup {x})
           /\ Cardinality(S) \in Nat /\ Cardinality(S \cup {x}) \in Nat
           /\ Cardinality(S \cup {x}) <= Cardinality(S) + 1
           /\ x \notin S => Cardinality(S \cup {x}) = Cardinality(S) + 1
<1>1. Cardinality(S) \in Nat
  BY FS_CardinalityType
<1>2. /\ IsFiniteSet(S \cup {x})
      /\ Cardinality(S \cup {x}) = IF x \in S THEN Cardinality(S) ELSE Cardinality(S) + 1
  BY FS_AddElement
<1> QED  BY <1>1, <1>2

\* Which rows there are.
LEMMA RowsAre ==
    ASSUME NEW failed, NEW row
    PROVE  row \in FailureRows(failed) <=>
             \E t \in DOMAIN failed : \E k \in 1..failed[t] : row = <<t, k>>
BY DEF FailureRows

\* An address that has never failed has no row.
LEMMA NoRows ==
    ASSUME NEW failed, \A t \in DOMAIN failed : failed[t] = 0
    PROVE  FailureRows(failed) = {}
<1> SUFFICES ASSUME NEW row \in FailureRows(failed) PROVE FALSE
  OBVIOUS
<1>1. PICK t \in DOMAIN failed : \E k \in 1..failed[t] : row = <<t, k>>
  BY RowsAre
<1> QED  BY <1>1

\* A failure more is a row more.
LEMMA OneRowMore ==
    ASSUME NEW failed, NEW more, NEW t, OneMoreAt(failed, more, t)
    PROVE  \E row : /\ row \notin FailureRows(failed)
                    /\ FailureRows(more) = FailureRows(failed) \cup {row}
<1> DEFINE row == <<t, failed[t] + 1>>
<1>1. /\ t \in DOMAIN failed /\ failed[t] \in Nat /\ DOMAIN more = DOMAIN failed
      /\ more[t] = failed[t] + 1
      /\ \A u \in DOMAIN failed : u # t => more[u] = failed[u]
  BY DEF OneMoreAt
<1>2. 1..more[t] = (1..failed[t]) \cup {failed[t] + 1}
  BY <1>1
<1>3. row \notin FailureRows(failed)
  <2> SUFFICES ASSUME row \in FailureRows(failed) PROVE FALSE
    OBVIOUS
  <2>1. PICK u \in DOMAIN failed : \E k \in 1..failed[u] : row = <<u, k>>
    BY RowsAre
  <2>2. PICK k \in 1..failed[u] : row = <<u, k>>
    BY <2>1
  <2>3. u = t /\ k = failed[t] + 1
    BY <2>2
  <2> QED  BY <1>1, <2>2, <2>3
<1>4. ASSUME NEW r \in FailureRows(failed) PROVE r \in FailureRows(more)
  <2>1. PICK u \in DOMAIN failed : \E k \in 1..failed[u] : r = <<u, k>>
    BY RowsAre
  <2>2. PICK k \in 1..failed[u] : r = <<u, k>>
    BY <2>1
  <2>3. k \in 1..more[u] /\ u \in DOMAIN more
    BY <1>1, <1>2
  <2> QED  BY <2>2, <2>3, RowsAre
<1>5. row \in FailureRows(more)
  <2>1. failed[t] + 1 \in 1..more[t] /\ t \in DOMAIN more
    BY <1>1, <1>2
  <2> QED  BY <2>1, RowsAre
<1>6. ASSUME NEW r \in FailureRows(more), r # row PROVE r \in FailureRows(failed)
  <2>1. PICK u \in DOMAIN more : \E k \in 1..more[u] : r = <<u, k>>
    BY RowsAre
  <2>2. PICK k \in 1..more[u] : r = <<u, k>>
    BY <2>1
  <2>3. k \in 1..failed[u] /\ u \in DOMAIN failed
    BY <1>1, <1>2, <1>6, <2>2
  <2> QED  BY <2>2, <2>3, RowsAre
<1> QED  BY <1>3, <1>4, <1>5, <1>6

\* The rows stay finitely many, and one failure more adds at most one to what
\* a window counts.
LEMMA OneFailureMore ==
    ASSUME NEW failed, NEW more, NEW t, OneMoreAt(failed, more, t),
           IsFiniteSet(FailureRows(failed))
    PROVE  /\ IsFiniteSet(FailureRows(more))
           /\ Cardinality(FailureRows(more)) = Cardinality(FailureRows(failed)) + 1
           /\ \A window, at : FailuresWithin(more, window, at)
                                <= FailuresWithin(failed, window, at) + 1
<1>1. PICK row : row \notin FailureRows(failed)
                 /\ FailureRows(more) = FailureRows(failed) \cup {row}
  BY OneRowMore
<1>2. /\ IsFiniteSet(FailureRows(more))
      /\ Cardinality(FailureRows(more)) = Cardinality(FailureRows(failed)) + 1
  BY <1>1, OneMoreElement
<1>3. ASSUME NEW window, NEW at
      PROVE  FailuresWithin(more, window, at) <= FailuresWithin(failed, window, at) + 1
  <2> DEFINE before == {r \in FailureRows(failed) : r[1] + window >= at}
             after == {r \in FailureRows(more) : r[1] + window >= at}
  <2>1. before \subseteq FailureRows(failed) /\ after \subseteq before \cup {row}
    BY <1>1
  <2>2. /\ FailuresWithin(failed, window, at) = Cardinality(before)
        /\ FailuresWithin(more, window, at) = Cardinality(after)
    BY DEF FailuresWithin
  <2> HIDE DEF before, after
  <2>3. IsFiniteSet(before)
    BY <2>1, FS_Subset
  <2>4. /\ IsFiniteSet(before \cup {row})
        /\ Cardinality(before) \in Nat /\ Cardinality(before \cup {row}) \in Nat
        /\ Cardinality(before \cup {row}) <= Cardinality(before) + 1
    BY <2>3, OneMoreElement
  <2>5. /\ IsFiniteSet(after) /\ Cardinality(after) \in Nat
        /\ Cardinality(after) <= Cardinality(before \cup {row})
    BY <2>1, <2>4, FS_Subset, FS_CardinalityType
  <2> QED  BY <2>2, <2>4, <2>5
<1> QED  BY <1>2, <1>3

\* A window counts some of the rows, and none again once the clock has left
\* them behind.
LEMMA LaterCountsLess ==
    ASSUME NEW failed, DOMAIN failed \subseteq Int, IsFiniteSet(FailureRows(failed)),
           NEW window \in Int, NEW at \in Int, NEW later \in Int, at <= later
    PROVE  /\ FailuresWithin(failed, window, at) \in Nat
           /\ FailuresWithin(failed, window, at) <= Cardinality(FailureRows(failed))
           /\ FailuresWithin(failed, window, later) <= FailuresWithin(failed, window, at)
<1> DEFINE present == {r \in FailureRows(failed) : r[1] + window >= at}
           future == {r \in FailureRows(failed) : r[1] + window >= later}
<1>1. ASSUME NEW r \in FailureRows(failed) PROVE r[1] \in Int
  <2>1. PICK t \in DOMAIN failed : \E k \in 1..failed[t] : r = <<t, k>>
    BY RowsAre
  <2> QED  BY <2>1
<1>2. present \subseteq FailureRows(failed) /\ future \subseteq present
  BY <1>1
<1>3. FailuresWithin(failed, window, at) = Cardinality(present)
      /\ FailuresWithin(failed, window, later) = Cardinality(future)
  BY DEF FailuresWithin
<1> HIDE DEF present, future
<1>4. /\ IsFiniteSet(present) /\ Cardinality(present) \in Nat
      /\ Cardinality(present) <= Cardinality(FailureRows(failed))
  BY <1>2, FS_Subset, FS_CardinalityType
<1>5. Cardinality(future) <= Cardinality(present)
  BY <1>2, <1>4, FS_Subset
<1> QED  BY <1>3, <1>4, <1>5
=============================================================================

------------------------- MODULE LawyerLogin_proofs -------------------------
(***************************************************************************)
(* Proofs about LawyerLogin and the gate it goes through, for any number   *)
(* of logins, PINs, addresses, places and room in the queue.               *)
(***************************************************************************)
EXTENDS LawyerLogin, FailureWindow_proofs, FiniteSetTheorems, TLAPS

-----------------------------------------------------------------------------
(***************************************************************************)
(* The inductive invariant.                                                *)
(***************************************************************************)
\* Who waits is queued, once, and holds no place; who holds a place is on its
\* way to a verification, in one, or has left without giving it back.
PlacesKnow ==
    /\ IsFiniteSet(holding)
    /\ \A c \in holding : step[c] \in {"queued", "evaluating", "stranded"}
    /\ \A k \in 1..Len(queue) : step[queue[k]] = "queued" /\ queue[k] \notin holding
    /\ \A j, k \in 1..Len(queue) : queue[j] = queue[k] => j = k

\* The counters of an address are only written for a login that has one.
AddressKnown ==
    \A r \in Logins :
        step[r] \in {"probing", "forget pair", "count pair", "count address"} =>
            address[r] \in Addresses

IInv == TypeOK /\ PlacesKnow /\ PlacesExact /\ AddressKnown

-----------------------------------------------------------------------------
(***************************************************************************)
(* The types.                                                              *)
(***************************************************************************)
\* A failure more leaves a counter.
LEMMA OneMoreType ==
    ASSUME NEW c \in Counter, NEW t \in Nat
    PROVE  OneMore(c, t) \in Counter /\ OneMore(c, t) # NoFailure
BY DEF OneMore, Counter, NoFailure

\* So it does among the counters of an address.
LEMMA PairType ==
    ASSUME pair \in [Addresses -> Counter], NEW i, NEW t \in Nat,
           pair' = [pair EXCEPT ![i] = OneMore(@, t)]
    PROVE  pair' \in [Addresses -> Counter]
<1>1. CASE i \in Addresses
  <2>1. OneMore(pair[i], t) \in Counter
    BY <1>1, OneMoreType
  <2> QED  BY <2>1
<1>2. CASE i \notin Addresses
  BY <1>2
<1> QED  BY <1>1, <1>2

\* One miss more of an address leaves the history.
LEMMA MissesType ==
    ASSUME misses \in [Addresses -> Nat], NEW i \in Addresses,
           misses' = [misses EXCEPT ![i] = @ + 1]
    PROVE  misses' \in [Addresses -> Nat]
OBVIOUS

\* Another failure of an address leaves the rows of the addresses.
LEMMA FailuresType ==
    ASSUME failures \in [Addresses -> [0..Horizon -> Nat]], NEW i \in Addresses,
           NEW t \in 0..Horizon, failures' = [failures EXCEPT ![i][t] = @ + 1]
    PROVE  failures' \in [Addresses -> [0..Horizon -> Nat]]
<1>1. failures[i] \in [0..Horizon -> Nat]
  OBVIOUS
<1>2. [failures[i] EXCEPT ![t] = @ + 1] \in [0..Horizon -> Nat]
  BY <1>1
<1> QED  BY <1>2

\* A request that moves goes to one of its steps.
LEMMA StepType ==
    ASSUME step \in [Callers -> Steps], NEW c, NEW s \in Steps, GoTo(c, s)
    PROVE  step' \in [Callers -> Steps]
BY DEF GoTo

\* The gate keeps its types when a place is given back.
LEMMA ReleaseType ==
    ASSUME TypeOK, PlacesExact, IsFiniteSet(holding), NEW c \in Callers, Release(c)
    PROVE  /\ inFlight' \in 0..Places
           /\ queue' \in Seq(Callers) /\ Len(queue') <= QueueRoom
           /\ holding' \subseteq Callers
<1>1. CASE c \notin holding
  BY <1>1 DEF Release, gate, TypeOK
<1>2. CASE c \in holding /\ queue = <<>>
  <2>1. inFlight # 0
    BY <1>2, FS_EmptySet DEF PlacesExact
  <2> QED  BY <1>2, <2>1, GateAssumption DEF Release, HandOverOrFree, TypeOK
<1>3. CASE c \in holding /\ queue # <<>>
  <2>1. Head(queue) \in Callers /\ Tail(queue) \in Seq(Callers) /\ Len(Tail(queue)) <= QueueRoom
    BY <1>3, GateAssumption DEF TypeOK
  <2> QED  BY <1>3, <2>1 DEF Release, HandOverOrFree, TypeOK
<1> QED  BY <1>1, <1>2, <1>3

\* The initial state is of the right types.
LEMMA TypeInit == Init => TypeOK
BY GateAssumption, LoginAssumption
   DEF Init, GateInit, TypeOK, Steps, Counter, NoFailure

\* A client that comes and goes is there, or has left.
LEMMA GoneType ==
    ASSUME gone \in [Logins -> {"no", "unheard", "heard"}], NEW c,
           NEW s \in {"no", "unheard", "heard"}
    PROVE  /\ [gone EXCEPT ![c] = s] \in [Logins -> {"no", "unheard", "heard"}]
           /\ BackAgain(c) \in [Logins -> {"no", "unheard", "heard"}]
BY DEF BackAgain

\* The steps of a request.
LEMMA StepsAre ==
    /\ "idle" \in Steps /\ "entering" \in Steps /\ "queued" \in Steps /\ "evaluating" \in Steps
    /\ "probing" \in Steps /\ "forget account" \in Steps /\ "forget pair" \in Steps
    /\ "stranded" \in Steps /\ "count account" \in Steps /\ "count pair" \in Steps /\ "count address" \in Steps
BY DEF Steps, Writing

\* Every step keeps the types.
LEMMA TypeStep == IInv /\ [Next]_vars => TypeOK'
<1> SUFFICES ASSUME IInv, [Next]_vars PROVE TypeOK'
  OBVIOUS
<1>a. TypeOK /\ IsFiniteSet(holding) /\ PlacesExact
  BY DEF IInv, PlacesKnow
<1>b. now \in Nat /\ step \in [Callers -> Steps]
  BY <1>a, LoginAssumption DEF TypeOK
<1>0. TypeOK /\ now \in Nat /\ IsFiniteSet(holding) /\ PlacesExact /\ step \in [Callers -> Steps]
  BY <1>a, <1>b
<1> USE DEF counters, history
<1>1. CASE UNCHANGED vars
  BY <1>0, <1>1 DEF vars, gate, TypeOK
<1>2. ASSUME NEW r \in Logins, NEW i \in Addresses \cup {NoAddress}, StartLogin(r, i)
      PROVE  TypeOK'
  <2>1. step' \in [Callers -> Steps]
    BY <1>0, <1>2, StepType, StepsAre DEF StartLogin
  <2>2. logins' \in 0..MaxLogins
    BY <1>0, <1>2, LoginAssumption DEF StartLogin, TypeOK
  <2>3. address' \in [Logins -> Addresses \cup {NoAddress}]
    BY <1>0, <1>2 DEF StartLogin, TypeOK
  <2> QED  BY <1>0, <1>2, <2>1, <2>2, <2>3 DEF StartLogin, gate, TypeOK
<1>3. ASSUME NEW r \in Logins, RecordProbe(r) PROVE TypeOK'
  <2>1. step' \in [Callers -> Steps]
    BY <1>0, <1>3, StepType, StepsAre DEF RecordProbe
  <2>4. address[r] \in Addresses
    BY <1>3 DEF IInv, AddressKnown, RecordProbe, IsAt
  <2>2. pair' \in [Addresses -> Counter]
    BY <1>0, <1>3, PairType DEF RecordProbe, TypeOK
  <2>3. misses' \in [Addresses -> Nat]
    BY <1>0, <1>3, <2>4, MissesType DEF RecordProbe, TypeOK
  <2> QED  BY <1>0, <1>3, <2>1, <2>2, <2>3 DEF RecordProbe, gate, TypeOK
<1>4. ASSUME NEW r \in Logins, ForgetAccount(r) PROVE TypeOK'
  <2>1. step' \in [Callers -> Steps]
    BY <1>0, <1>4, StepType, StepsAre DEF ForgetAccount
  <2>2. account' \in Counter
    BY <1>4 DEF ForgetAccount, NoFailure, Counter
  <2> QED  BY <1>0, <1>4, <2>1, <2>2 DEF ForgetAccount, gate, TypeOK
<1>5. ASSUME NEW r \in Logins, ForgetPair(r) PROVE TypeOK'
  <2>1. step' \in [Callers -> Steps]
    BY <1>0, <1>5, StepType, StepsAre DEF ForgetPair
  <2>2. pair' \in [Addresses -> Counter]
    BY <1>0, <1>5 DEF ForgetPair, NoFailure, Counter, TypeOK
  <2> QED  BY <1>0, <1>5, <2>1, <2>2 DEF ForgetPair, gate, TypeOK
<1>6. ASSUME NEW r \in Logins, CountAccount(r) PROVE TypeOK'
  <2>1. step' \in [Callers -> Steps]
    BY <1>0, <1>6, StepType, StepsAre DEF CountAccount
  <2>2. account' \in Counter
    BY <1>0, <1>6, OneMoreType DEF CountAccount, TypeOK
  <2> QED  BY <1>0, <1>6, <2>1, <2>2 DEF CountAccount, gate, TypeOK
<1>7. ASSUME NEW r \in Logins, CountPair(r) PROVE TypeOK'
  <2>1. step' \in [Callers -> Steps]
    BY <1>0, <1>7, StepType, StepsAre DEF CountPair
  <2>4. address[r] \in Addresses
    BY <1>7 DEF IInv, AddressKnown, CountPair, IsAt
  <2>2. pair' \in [Addresses -> Counter]
    BY <1>0, <1>7, PairType DEF CountPair, TypeOK
  <2>3. misses' \in [Addresses -> Nat]
    BY <1>0, <1>7, <2>4, MissesType DEF CountPair, TypeOK
  <2> QED  BY <1>0, <1>7, <2>1, <2>2, <2>3 DEF CountPair, gate, TypeOK
<1>8. ASSUME NEW r \in Logins, CountAddress(r) PROVE TypeOK'
  <2>1. step' \in [Callers -> Steps]
    BY <1>0, <1>8, StepType, StepsAre DEF CountAddress
  <2>2. address[r] \in Addresses
    BY <1>8 DEF IInv, AddressKnown, CountAddress, IsAt
  <2>3. failures' \in [Addresses -> [0..Horizon -> Nat]]
    BY <1>0, <1>8, <2>2, FailuresType DEF CountAddress, TypeOK
  <2> QED  BY <1>0, <1>8, <2>1, <2>3 DEF CountAddress, gate, TypeOK
<1>9. ASSUME NEW r \in Logins, StoreFails(r) PROVE TypeOK'
  <2>1. step' \in [Callers -> Steps]
    BY <1>0, <1>9, StepType, StepsAre DEF StoreFails
  <2> QED  BY <1>0, <1>9, <2>1, LoginAssumption DEF StoreFails, gate, TypeOK
<1>10. ASSUME NEW r \in Logins, Disconnect(r) PROVE TypeOK'
  <2>1. gone' \in [Logins -> {"no", "unheard", "heard"}]
    BY <1>0, <1>10, GoneType DEF Disconnect, LeaveUnheard, LeaveHeard, TypeOK
  <2>2. CASE LeaveUnheard(r)
    BY <1>0, <1>10, <2>1, <2>2 DEF Disconnect, LeaveUnheard, gate, Unthrottled, TypeOK
  <2>3. CASE LeaveHeard(r)
    BY <1>0, <1>10, <2>1, <2>3, ReleaseType, LoginAssumption
       DEF Disconnect, LeaveHeard, Unthrottled, TypeOK
  <2> QED  BY <1>10, <2>2, <2>3 DEF Disconnect
<1>11. ASSUME NEW c \in Callers, EnterGate(c) PROVE TypeOK'
  <2>1. step' \in [Callers -> Steps]
    BY <1>0, <1>11, StepType, StepsAre DEF EnterGate
  <2>5. gone' \in [Logins -> {"no", "unheard", "heard"}]
    BY <1>0, <1>11, GoneType DEF EnterGate, TypeOK
  <2>2. CASE Admit(c)
    BY <1>0, <1>11, <2>1, <2>2, <2>5, GateAssumption DEF EnterGate, Admit, Unthrottled, TypeOK
  <2>3. CASE Enqueue(c)
    <3>1. Append(queue, c) \in Seq(Callers) /\ Len(Append(queue, c)) = Len(queue) + 1
      BY <1>0 DEF TypeOK
    <3>2. Len(queue) \in Nat
      BY <1>0 DEF TypeOK
    <3> QED
      BY <1>0, <1>11, <2>1, <2>3, <2>5, <3>1, <3>2, GateAssumption
         DEF EnterGate, Enqueue, Unthrottled, TypeOK
  <2>4. CASE UNCHANGED gate
    BY <1>0, <1>11, <2>1, <2>4, <2>5 DEF EnterGate, gate, Unthrottled, TypeOK
  <2> QED  BY <1>11, <2>2, <2>3, <2>4 DEF EnterGate
<1>12. ASSUME NEW c \in Callers, Resume(c) PROVE TypeOK'
  <2>1. step' \in [Callers -> Steps]
    BY <1>0, <1>12, StepType, StepsAre DEF Resume
  <2> QED  BY <1>0, <1>12, <2>1 DEF Resume, Unthrottled, gate, TypeOK
<1>13. ASSUME NEW r \in Callers, NEW v \in {"right", "wrong"}, FinishLogin(r, v) PROVE TypeOK'
  <2>1. step' \in [Callers -> Steps]
    BY <1>0, <1>13, StepType, StepsAre DEF FinishLogin
  <2>2. gone' \in [Logins -> {"no", "unheard", "heard"}]
    BY <1>0, <1>13, GoneType DEF FinishLogin, TypeOK
  <2> QED  BY <1>0, <1>13, <2>1, <2>2, ReleaseType DEF FinishLogin, Unthrottled, TypeOK
<1>14. ASSUME NEW p \in Callers, FinishPin(p) PROVE TypeOK'
  <2>1. step' \in [Callers -> Steps]
    BY <1>0, <1>14, StepType, StepsAre DEF FinishPin
  <2> QED  BY <1>0, <1>14, <2>1, ReleaseType DEF FinishPin, Unthrottled, TypeOK
<1>15. CASE Tick
  BY <1>0, <1>15, LoginAssumption DEF Tick, gate, TypeOK
<1>16. ASSUME NEW r \in Callers, GoUnanswered(r) PROVE TypeOK'
  <2>1. step' \in [Callers -> Steps]
    BY <1>0, <1>16, StepType, StepsAre DEF GoUnanswered
  <2>2. gone' \in [Logins -> {"no", "unheard", "heard"}]
    BY <1>0, <1>16, GoneType DEF GoUnanswered, TypeOK
  <2> QED  BY <1>0, <1>16, <2>1, <2>2 DEF GoUnanswered, gate, Unthrottled, TypeOK
<1> QED
  BY <1>1, <1>2, <1>3, <1>4, <1>5, <1>6, <1>7, <1>8, <1>9, <1>10, <1>11, <1>12, <1>13, <1>14,
     <1>15, <1>16 DEF Next, Record, Evaluate

\* A login that writes the counters of an address has one.
LEMMA AddressStep == IInv /\ [Next]_vars => AddressKnown'
<1> SUFFICES ASSUME IInv, [Next]_vars PROVE AddressKnown'
  OBVIOUS
<1>0. /\ AddressKnown /\ step \in [Callers -> Steps] /\ Logins \subseteq Callers
      /\ address \in [Logins -> Addresses \cup {NoAddress}]
  BY LoginAssumption DEF IInv, TypeOK
<1>1. CASE UNCHANGED vars
  BY <1>0, <1>1 DEF vars, AddressKnown
<1>2. ASSUME NEW r \in Logins, NEW i \in Addresses \cup {NoAddress}, StartLogin(r, i)
      PROVE  AddressKnown'
  BY <1>0, <1>2 DEF StartLogin, GoTo, AddressKnown
<1>3. ASSUME NEW r \in Logins,
             RecordProbe(r) \/ ForgetPair(r) \/ CountAddress(r) \/ StoreFails(r)
      PROVE  AddressKnown'
  BY <1>0, <1>3 DEF RecordProbe, ForgetPair, CountAddress, StoreFails, GoTo, AddressKnown
<1>4. ASSUME NEW r \in Logins, ForgetAccount(r) \/ CountAccount(r) PROVE AddressKnown'
  BY <1>0, <1>4 DEF ForgetAccount, CountAccount, GoTo, AddressKnown
<1>5. ASSUME NEW r \in Logins, CountPair(r) PROVE AddressKnown'
  BY <1>0, <1>5 DEF CountPair, IsAt, GoTo, AddressKnown
<1>6. ASSUME NEW r \in Logins, Disconnect(r) PROVE AddressKnown'
  BY <1>0, <1>6 DEF Disconnect, Unthrottled, AddressKnown
<1>7. ASSUME NEW c \in Callers, EnterGate(c) \/ Resume(c) \/ Evaluate(c) PROVE AddressKnown'
  <2>1. /\ address' = address
        /\ \E s \in {"evaluating", "queued", "idle", "stranded", "forget account",
                     "count account"} : GoTo(c, s)
    BY <1>7 DEF EnterGate, Resume, Evaluate, FinishPin, FinishLogin, GoUnanswered, Unthrottled
  <2> QED  BY <1>0, <2>1 DEF GoTo, AddressKnown
<1>8. CASE Tick
  BY <1>0, <1>8 DEF Tick, AddressKnown
<1> QED  BY <1>1, <1>2, <1>3, <1>4, <1>5, <1>6, <1>7, <1>8 DEF Next, Record

-----------------------------------------------------------------------------
(***************************************************************************)
(* The gate.                                                               *)
(***************************************************************************)
\* What the queue holds when a caller joins it.
LEMMA Joined ==
    ASSUME queue \in Seq(Callers), NEW c \in Callers, queue' = Append(queue, c)
    PROVE  /\ Len(queue') = Len(queue) + 1
           /\ queue'[Len(queue) + 1] = c
           /\ \A k \in 1..Len(queue) : queue'[k] = queue[k]
           /\ Waiting' = Waiting \cup {c}
<1>1. /\ Len(queue) \in Nat /\ Len(queue') = Len(queue) + 1
      /\ queue'[Len(queue) + 1] = c
      /\ \A k \in 1..Len(queue) : queue'[k] = queue[k]
  OBVIOUS
<1>2. \A k \in 1..Len(queue) + 1 : k \in 1..Len(queue) \/ k = Len(queue) + 1
  BY <1>1
<1>3. Waiting' = Waiting \cup {c}
  BY <1>1, <1>2 DEF Waiting
<1> QED  BY <1>1, <1>3

\* What it holds when the first of a queue without repetition leaves it.
LEMMA Left ==
    ASSUME queue \in Seq(Callers), queue # <<>>, queue' = Tail(queue),
           \A j, k \in 1..Len(queue) : queue[j] = queue[k] => j = k
    PROVE  /\ Len(queue') = Len(queue) - 1 /\ Head(queue) = queue[1] /\ 1 \in 1..Len(queue)
           /\ \A k \in 1..Len(queue') : queue'[k] = queue[k + 1] /\ k + 1 \in 1..Len(queue)
           /\ Waiting' = Waiting \ {Head(queue)}
<1>1. /\ Len(queue) \in Nat \ {0} /\ Len(queue') = Len(queue) - 1 /\ Head(queue) = queue[1]
      /\ \A k \in 1..Len(queue') : queue'[k] = queue[k + 1]
  OBVIOUS
<1>2. \A k \in 1..Len(queue') : k + 1 \in 1..Len(queue) /\ k + 1 # 1
  BY <1>1
<1>3. \A k \in 1..Len(queue) : k # 1 => k - 1 \in 1..Len(queue') /\ (k - 1) + 1 = k
  BY <1>1
<1>4. 1 \in 1..Len(queue)
  BY <1>1
<1>5. Waiting' \subseteq Waiting \ {Head(queue)}
  BY <1>1, <1>2, <1>4 DEF Waiting
<1>6. ASSUME NEW w \in Waiting, w # Head(queue) PROVE w \in Waiting'
  <2>1. PICK k \in 1..Len(queue) : w = queue[k]
    BY <1>6 DEF Waiting
  <2>2. k # 1
    BY <1>1, <1>6, <2>1
  <2>3. k - 1 \in 1..Len(queue') /\ queue'[k - 1] = queue[k]
    BY <1>1, <1>3, <2>2
  <2> QED  BY <2>1, <2>3 DEF Waiting
<1> QED  BY <1>1, <1>2, <1>4, <1>5, <1>6

\* The steps that do not touch the gate leave the queued and the evaluating
\* where they are.
LEMMA GateMoves ==
    ASSUME IInv, [Next]_vars
    PROVE  \/ UNCHANGED <<gate, step>>
           \/ UNCHANGED gate /\ \E c \in Callers, s \in Steps :
                /\ step[c] \notin {"queued", "evaluating", "stranded"} /\ GoTo(c, s)
           \/ \E c \in Callers : EnterGate(c) \/ Resume(c) \/ GoUnanswered(c)
           \/ \E c \in Callers, s \in Steps :
                /\ step[c] = "evaluating" /\ Release(c)
                /\ \/ c \in holding /\ UNCHANGED step
                   \/ s # "evaluating" /\ GoTo(c, s)
<1>0. Logins \subseteq Callers
  BY LoginAssumption
<1>1. CASE UNCHANGED vars
  BY <1>1 DEF vars
<1>2. ASSUME NEW r \in Logins, NEW i \in Addresses \cup {NoAddress}, StartLogin(r, i)
      PROVE  UNCHANGED gate /\ \E c \in Callers, s \in Steps :
               /\ step[c] \notin {"queued", "evaluating", "stranded"} /\ GoTo(c, s)
  BY <1>0, <1>2, StepsAre DEF StartLogin, IsAt
<1>3. ASSUME NEW r \in Logins, Record(r)
      PROVE  UNCHANGED gate /\ \E c \in Callers, s \in Steps :
               /\ step[c] \notin {"queued", "evaluating", "stranded"} /\ GoTo(c, s)
  <2>1. UNCHANGED gate /\ step[r] \in Writing /\ \E s \in Steps : GoTo(r, s)
    BY <1>3, StepsAre
       DEF Record, RecordProbe, ForgetAccount, ForgetPair, CountAccount, CountPair,
           CountAddress, StoreFails, Writing, IsAt
  <2> QED  BY <1>0, <2>1 DEF Writing
<1>4. ASSUME NEW r \in Logins, Disconnect(r)
      PROVE  \/ UNCHANGED <<gate, step>>
             \/ r \in Callers /\ step[r] = "evaluating" /\ Release(r) /\ r \in holding /\ UNCHANGED step
  BY <1>0, <1>4 DEF Disconnect, LeaveUnheard, LeaveHeard, Release, IsAt
<1>5. ASSUME NEW c \in Callers, Evaluate(c), ~ GoUnanswered(c)
      PROVE  \E s \in Steps : /\ step[c] = "evaluating" /\ Release(c)
                              /\ s # "evaluating" /\ GoTo(c, s)
  BY <1>5, StepsAre DEF Evaluate, FinishPin, FinishLogin, IsAt
<1>6. CASE Tick
  BY <1>6 DEF Tick
<1> QED  BY <1>1, <1>2, <1>3, <1>4, <1>5, <1>6, StepsAre DEF Next

\* A place that is given back: either it is free again, nobody waiting for it,
\* or the first in the queue has it.
LEMMA Released ==
    ASSUME IInv, NEW c \in holding, Release(c)
    PROVE  /\ IsFiniteSet(holding')
           /\ PlacesExact'
           /\ \/ queue = <<>> /\ UNCHANGED queue /\ holding' = holding \ {c}
              \/ /\ queue # <<>> /\ queue' = Tail(queue)
                 /\ Head(queue) \in Waiting /\ Head(queue) \notin holding
                 /\ Waiting' = Waiting \ {Head(queue)}
                 /\ holding' = (holding \ {c}) \cup {Head(queue)}
<1>0. /\ IsFiniteSet(holding) /\ queue \in Seq(Callers)
      /\ inFlight = Cardinality(holding) /\ inFlight \in Nat /\ inFlight <= Places
      /\ Places \in Nat
      /\ \A j, k \in 1..Len(queue) : queue[j] = queue[k] => j = k
  BY GateAssumption DEF IInv, TypeOK, PlacesKnow, PlacesExact
<1>1. /\ IsFiniteSet(holding \ {c}) /\ Cardinality(holding \ {c}) = inFlight - 1
  BY <1>0, FS_RemoveElement
<1>2. CASE queue = <<>>
  <2>1. inFlight' = inFlight - 1 /\ holding' = holding \ {c} /\ queue' = queue
    BY <1>2 DEF Release, HandOverOrFree
  <2> QED  BY <1>0, <1>1, <1>2, <2>1 DEF PlacesExact
<1>3. CASE queue # <<>>
  <2>1. /\ inFlight' = inFlight /\ queue' = Tail(queue)
        /\ holding' = (holding \ {c}) \cup {Head(queue)}
    BY <1>3 DEF Release, HandOverOrFree
  <2>2. /\ Head(queue) = queue[1] /\ 1 \in 1..Len(queue)
        /\ Waiting' = Waiting \ {Head(queue)}
    BY <1>0, <1>3, <2>1, Left
  <2>3. Head(queue) \in Waiting /\ Head(queue) \notin holding
    BY <2>2 DEF IInv, PlacesKnow, Waiting
  <2>4. IsFiniteSet(holding') /\ Cardinality(holding') = inFlight
    <3>1. Head(queue) \notin holding \ {c}
      BY <2>3
    <3>2. /\ IsFiniteSet((holding \ {c}) \cup {Head(queue)})
          /\ Cardinality((holding \ {c}) \cup {Head(queue)}) = (inFlight - 1) + 1
      BY <1>1, <3>1, FS_AddElement
    <3> QED  BY <1>0, <2>1, <3>2
  <2>5. PlacesExact'
    BY <1>0, <1>3, <2>1, <2>4 DEF IInv, PlacesExact
  <2> QED  BY <1>3, <2>1, <2>2, <2>3, <2>4, <2>5
<1> QED  BY <1>2, <1>3

\* A place that is taken at the door.
LEMMA Admitted ==
    ASSUME IInv, NEW c \in Callers, c \notin holding, Admit(c)
    PROVE  IsFiniteSet(holding') /\ PlacesExact'
<1>1. /\ IsFiniteSet(holding) /\ inFlight = Cardinality(holding) /\ inFlight \in Nat
      /\ Places \in Nat /\ (queue # <<>> => inFlight = Places)
  BY GateAssumption DEF IInv, TypeOK, PlacesKnow, PlacesExact
<1>2. IsFiniteSet(holding \cup {c}) /\ Cardinality(holding \cup {c}) = inFlight + 1
  BY <1>1, FS_AddElement
<1> QED  BY <1>1, <1>2 DEF Admit, PlacesExact

\* Who comes to the door holds nothing and waits for nothing.
LEMMA AtTheDoor ==
    ASSUME IInv, NEW c \in Callers, step[c] \notin {"queued", "evaluating", "stranded"}
    PROVE  c \notin holding /\ c \notin Waiting
BY DEF IInv, PlacesKnow, Waiting

\* The counter tells the places that are held, and who waits waits once.
LEMMA PlacesStep == IInv /\ [Next]_vars => PlacesKnow' /\ PlacesExact'
<1> SUFFICES ASSUME IInv, [Next]_vars PROVE PlacesKnow' /\ PlacesExact'
  OBVIOUS
<1>0. /\ PlacesKnow /\ PlacesExact
      /\ step \in [Callers -> Steps] /\ holding \subseteq Callers
      /\ queue \in Seq(Callers)
      /\ \A k \in 1..Len(queue) : queue[k] \in Callers
  BY DEF IInv, TypeOK
<1>1. CASE UNCHANGED <<gate, step>>
  BY <1>0, <1>1 DEF gate, PlacesKnow, PlacesExact
<1>2. ASSUME NEW c \in Callers, NEW s \in Steps,
             step[c] \notin {"queued", "evaluating", "stranded"}, GoTo(c, s), UNCHANGED gate
      PROVE  PlacesKnow' /\ PlacesExact'
  BY <1>0, <1>2 DEF GoTo, gate, PlacesKnow, PlacesExact
<1>3. ASSUME NEW c \in Callers, EnterGate(c) PROVE PlacesKnow' /\ PlacesExact'
  <2>1. step[c] \notin {"queued", "evaluating", "stranded"} /\ c \notin holding /\ c \notin Waiting
    BY <1>3, AtTheDoor DEF EnterGate, IsAt
  <2>2. CASE Admit(c) /\ GoTo(c, "evaluating")
    <3>1. IsFiniteSet(holding') /\ PlacesExact'
      BY <2>1, <2>2, Admitted
    <3>2. \A k \in 1..Len(queue) : queue[k] # c
      BY <2>1 DEF Waiting
    <3> QED  BY <1>0, <2>2, <3>1, <3>2 DEF Admit, GoTo, PlacesKnow
  <2>3. CASE Enqueue(c) /\ GoTo(c, "queued")
    <3>1. /\ Len(queue') = Len(queue) + 1 /\ queue'[Len(queue) + 1] = c
          /\ \A k \in 1..Len(queue) : queue'[k] = queue[k]
      BY <1>0, <2>3, Joined DEF Enqueue
    <3>2. Len(queue) \in Nat /\ \A k \in 1..Len(queue) : queue[k] # c
      BY <1>0, <2>1 DEF Waiting
    <3>3. \A k \in 1..Len(queue') : k \in 1..Len(queue) \/ k = Len(queue) + 1
      BY <3>1, <3>2
    <3>4. inFlight' = Places
      BY <1>0, <2>3, GateAssumption DEF Enqueue, PlacesExact, IInv, TypeOK
    <3>5. PlacesExact'
      BY <1>0, <2>3, <3>4, GateAssumption DEF Enqueue, PlacesExact
    <3>6. /\ \A k \in 1..Len(queue') : step'[queue'[k]] = "queued" /\ queue'[k] \notin holding'
          /\ \A d \in holding' : step'[d] \in {"queued", "evaluating", "stranded"}
      BY <1>0, <2>1, <2>3, <3>1, <3>2, <3>3 DEF Enqueue, GoTo, PlacesKnow
    <3>7. \A j, k \in 1..Len(queue') : queue'[j] = queue'[k] => j = k
      BY <1>0, <3>1, <3>2, <3>3 DEF PlacesKnow
    <3> QED  BY <1>0, <2>3, <3>5, <3>6, <3>7 DEF Enqueue, PlacesKnow
  <2>4. CASE UNCHANGED gate /\ GoTo(c, "idle")
    BY <2>1, <2>4, <1>2, StepsAre
  <2> QED  BY <1>3, <2>2, <2>3, <2>4 DEF EnterGate
<1>4. ASSUME NEW c \in Callers, Resume(c) \/ GoUnanswered(c)
      PROVE  PlacesKnow' /\ PlacesExact'
  BY <1>0, <1>4 DEF Resume, GoUnanswered, IsAt, GoTo, gate, PlacesKnow, PlacesExact
<1>5. ASSUME NEW c \in Callers, NEW s \in Steps, step[c] = "evaluating", Release(c),
             \/ c \in holding /\ UNCHANGED step
             \/ s # "evaluating" /\ GoTo(c, s)
      PROVE  PlacesKnow' /\ PlacesExact'
  <2>1. \A d \in Callers : d # c => step'[d] = step[d]
    BY <1>0, <1>5 DEF GoTo
  <2>2. CASE c \notin holding
    BY <1>0, <1>5, <2>1, <2>2 DEF Release, gate, PlacesKnow, PlacesExact
  <2>3. CASE c \in holding /\ queue = <<>>
    <3>1. IsFiniteSet(holding') /\ PlacesExact' /\ queue' = queue /\ holding' = holding \ {c}
      BY <1>5, <2>3, Released
    <3> QED  BY <1>0, <2>1, <2>3, <3>1 DEF PlacesKnow
  <2>4. CASE c \in holding /\ queue # <<>>
    <3>1. /\ IsFiniteSet(holding') /\ PlacesExact' /\ queue' = Tail(queue)
          /\ holding' = (holding \ {c}) \cup {Head(queue)}
      BY <1>5, <2>4, Released
    <3>2. /\ Head(queue) = queue[1] /\ 1 \in 1..Len(queue)
          /\ \A k \in 1..Len(queue') : queue'[k] = queue[k + 1] /\ k + 1 \in 1..Len(queue)
      BY <1>0, <2>4, <3>1, Left DEF PlacesKnow
    <3>3. \A k \in 1..Len(queue) : queue[k] # c
      BY <1>0, <2>4 DEF PlacesKnow
    <3>4. Len(queue') \in Nat /\ \A k \in 1..Len(queue') : k \in Nat /\ k + 1 # 1
      BY <1>0, <2>4, <3>1
    <3>5. \A d \in holding' : step'[d] \in {"queued", "evaluating", "stranded"}
      BY <1>0, <2>1, <3>1, <3>2, <3>3 DEF PlacesKnow
    <3>6. \A k \in 1..Len(queue') : step'[queue'[k]] = "queued" /\ queue'[k] \notin holding'
      BY <1>0, <2>1, <3>1, <3>2, <3>3, <3>4 DEF PlacesKnow
    <3>7. \A j, k \in 1..Len(queue') : queue'[j] = queue'[k] => j = k
      BY <1>0, <3>2, <3>4 DEF PlacesKnow
    <3> QED  BY <3>1, <3>5, <3>6, <3>7 DEF PlacesKnow
  <2> QED  BY <2>2, <2>3, <2>4
<1> QED  BY <1>1, <1>2, <1>3, <1>4, <1>5, GateMoves

\* The abstract gate counts its holders as the detailed one does.
LEMMA SlotsCount == ASSUME NEW S PROVE Slots!Cardinality(S) = Cardinality(S)
BY DEF Slots!Cardinality, Cardinality, Slots!IsFiniteSet, IsFiniteSet

\* Every step of the counter and the queue is a step of the abstract gate, or
\* none at all.
LEMMA SlotsStep == IInv /\ [Next]_vars => [Slots!Next]_<<holding, Waiting>>
<1> SUFFICES ASSUME IInv, [Next]_vars PROVE [Slots!Next]_<<holding, Waiting>>
  OBVIOUS
<1>0. /\ PlacesKnow /\ PlacesExact /\ queue \in Seq(Callers) /\ holding \subseteq Callers
      /\ inFlight \in Nat /\ Places \in Nat /\ Waiting \subseteq Callers
  BY GateAssumption DEF IInv, TypeOK, Waiting
<1>1. CASE UNCHANGED gate
  BY <1>1 DEF gate, Waiting
<1>2. ASSUME NEW c \in Callers, EnterGate(c) PROVE [Slots!Next]_<<holding, Waiting>>
  <2>1. c \notin holding /\ c \notin Waiting
    BY <1>2, AtTheDoor DEF EnterGate, IsAt
  <2>2. CASE Admit(c)
    <3>1. Cardinality(holding) < Places
      BY <1>0, <2>2 DEF Admit, PlacesExact
    <3>2. Waiting' = Waiting /\ holding' = holding \cup {c}
      BY <2>2 DEF Admit, Waiting
    <3>3. c \notin holding \cup Waiting
      BY <2>1
    <3>4. Slots!Take(c)
      BY <3>1, <3>2, <3>3, SlotsCount, Zenon DEF Slots!Take, Slots!Free
    <3> QED  BY <3>4, Zenon DEF Slots!Next
  <2>3. CASE Enqueue(c)
    <3>1. Waiting' = Waiting \cup {c} /\ holding' = holding
      BY <1>0, <2>3, Joined DEF Enqueue
    <3>2. ~ (Cardinality(holding) < Places)
      BY <1>0, <2>3 DEF Enqueue, PlacesExact
    <3>3. c \notin holding \cup Waiting
      BY <2>1
    <3>4. Slots!Wait(c)
      BY <3>1, <3>2, <3>3, SlotsCount, Zenon DEF Slots!Wait, Slots!Free
    <3> QED  BY <3>4, Zenon DEF Slots!Next
  <2> QED  BY <1>1, <1>2, <2>2, <2>3 DEF EnterGate
<1>3. ASSUME NEW c \in Callers, Resume(c) \/ GoUnanswered(c)
      PROVE  [Slots!Next]_<<holding, Waiting>>
  BY <1>1, <1>3 DEF Resume, GoUnanswered
<1>4. ASSUME NEW c \in Callers, Release(c) PROVE [Slots!Next]_<<holding, Waiting>>
  <2>1. CASE c \notin holding
    BY <1>1, <1>4, <2>1 DEF Release
  <2>2. CASE c \in holding /\ queue = <<>>
    <3>1. Waiting = {} /\ Waiting' = Waiting /\ holding' = holding \ {c}
      BY <1>4, <2>2, Released DEF Waiting
    <3>2. Slots!Leave(c)
      BY <2>2, <3>1 DEF Slots!Leave
    <3> QED  BY <3>2 DEF Slots!Next
  <2>3. CASE c \in holding /\ queue # <<>>
    <3>1. /\ Head(queue) \in Waiting /\ Waiting' = Waiting \ {Head(queue)}
          /\ holding' = (holding \ {c}) \cup {Head(queue)}
      BY <1>4, <2>3, Released
    <3>2. Slots!HandOver(c, Head(queue))
      BY <2>3, <3>1 DEF Slots!HandOver
    <3> QED  BY <1>0, <3>1, <3>2 DEF Slots!Next
  <2> QED  BY <2>1, <2>2, <2>3
<1> QED  BY <1>1, <1>2, <1>3, <1>4, GateMoves DEF gate

-----------------------------------------------------------------------------
(***************************************************************************)
(* The counters.                                                           *)
(***************************************************************************)
\* The logins that have been let in from an address and may still count.
BeforeCounted == {"entering", "queued", "evaluating", "count account", "count pair",
                  "count address"}
Counting(i) == {r \in Logins : address[r] = i /\ step[r] \in BeforeCounted}

\* Those that have counted against the pair and not yet against the address.
HalfCounted(i) == {r \in Logins : address[r] = i /\ step[r] = "count address"}

\* What an address has counted and what its logins may still count fit in its
\* budget, or are the logins that read the budget together.
BudgetKept ==
    \A i \in Addresses :
        /\ IsFiniteSet(FailureRows(failures[i]))
        /\ RecentFailures(i, now) + Cardinality(Counting(i))
             <= IpBudget - 1 + Cardinality(Logins)

\* The counters that can refuse an address tell no more than its own misses.
MissesTell ==
    \A i \in Addresses :
        /\ pair[i].count <= misses[i]
        /\ pair[i].last <= now
        /\ Cardinality(FailureRows(failures[i])) + Cardinality(HalfCounted(i)) <= misses[i]

CInv == BudgetKept /\ MissesTell /\ StrangerNeverRefused

\* The types the steps below go by.
LEMMA CounterTypes ==
    ASSUME IInv
    PROVE  /\ now \in 0..Horizon /\ now \in Int
           /\ step \in [Callers -> Steps] /\ Logins \subseteq Callers
           /\ address \in [Logins -> Addresses \cup {NoAddress}]
           /\ pair \in [Addresses -> Counter]
           /\ failures \in [Addresses -> [0..Horizon -> Nat]]
           /\ misses \in [Addresses -> Nat]
           /\ IpWindow \in Int /\ IpBudget \in Nat \ {0}
BY LoginAssumption DEF IInv, TypeOK

\* How many logins there are to count.
LEMMA LoginsCounted ==
    ASSUME NEW S \in SUBSET Logins, NEW T \in SUBSET S
    PROVE  /\ IsFiniteSet(S) /\ IsFiniteSet(T)
           /\ Cardinality(S) \in Nat /\ Cardinality(T) \in Nat /\ Cardinality(Logins) \in Nat
           /\ Cardinality(T) <= Cardinality(S)
           /\ Cardinality(S) <= Cardinality(Logins)
<1>1. IsFiniteSet(S) /\ Cardinality(S) <= Cardinality(Logins)
  BY LoginAssumption, FS_Subset
<1>2. IsFiniteSet(T) /\ Cardinality(T) <= Cardinality(S)
  BY <1>1, FS_Subset
<1> QED  BY <1>1, <1>2, LoginAssumption, FS_CardinalityType

\* A set of logins that loses one.
LEMMA OneLoginLess ==
    ASSUME NEW S \in SUBSET Logins, NEW r \in S, NEW T \in SUBSET (S \ {r})
    PROVE  Cardinality(T) <= Cardinality(S) - 1
<1>1. IsFiniteSet(S) /\ Cardinality(S) \in Nat
  BY LoginsCounted
<1>2. IsFiniteSet(S \ {r}) /\ Cardinality(S \ {r}) = Cardinality(S) - 1
  BY <1>1, FS_RemoveElement
<1>3. Cardinality(T) <= Cardinality(S \ {r})
  BY <1>2, FS_Subset
<1> QED  BY <1>1, <1>2, <1>3

\* What a window counts of an address.
LEMMA WindowCounts ==
    ASSUME IInv, NEW i \in Addresses, IsFiniteSet(FailureRows(failures[i])),
           NEW at \in Int, NEW later \in Int, at <= later
    PROVE  /\ RecentFailures(i, at) \in Nat
           /\ RecentFailures(i, at) <= Cardinality(FailureRows(failures[i]))
           /\ RecentFailures(i, later) <= RecentFailures(i, at)
           /\ Cardinality(FailureRows(failures[i])) \in Nat
<1>1. failures[i] \in [0..Horizon -> Nat] /\ IpWindow \in Int
  BY CounterTypes
<1>2. DOMAIN failures[i] \subseteq Int
  <2>1. DOMAIN failures[i] = 0..Horizon
    BY <1>1
  <2>2. 0..Horizon \subseteq Int
    BY LoginAssumption
  <2> QED  BY <2>1, <2>2
<1> QED  BY <1>1, <1>2, LaterCountsLess, FS_CardinalityType DEF RecentFailures

\* What a failure does to the rows of an address.
LEMMA FailureCounted ==
    ASSUME IInv, NEW r \in Logins, CountAddress(r),
           IsFiniteSet(FailureRows(failures[address[r]]))
    PROVE  /\ address[r] \in Addresses
           /\ IsFiniteSet(FailureRows(failures'[address[r]]))
           /\ Cardinality(FailureRows(failures'[address[r]]))
                = Cardinality(FailureRows(failures[address[r]])) + 1
           /\ FailuresWithin(failures'[address[r]], IpWindow, now)
                <= FailuresWithin(failures[address[r]], IpWindow, now) + 1
           /\ \A i \in Addresses : i # address[r] => failures'[i] = failures[i]
<1> DEFINE a == address[r]
<1>1. a \in Addresses
  BY DEF IInv, AddressKnown, CountAddress, IsAt
<1>2. /\ failures \in [Addresses -> [0..Horizon -> Nat]] /\ now \in 0..Horizon
      /\ failures' = [failures EXCEPT ![a][now] = @ + 1]
  BY CounterTypes DEF CountAddress
<1>3. /\ failures[a] \in [0..Horizon -> Nat]
      /\ failures'[a] = [failures[a] EXCEPT ![now] = @ + 1]
      /\ \A i \in Addresses : i # a => failures'[i] = failures[i]
  BY <1>1, <1>2
<1>4. OneMoreAt(failures[a], failures'[a], now)
  BY <1>2, <1>3, UpdateCounts
<1> HIDE DEF a
<1>5. IsFiniteSet(FailureRows(failures[a]))
  BY DEF a
<1>6. /\ IsFiniteSet(FailureRows(failures'[a]))
      /\ Cardinality(FailureRows(failures'[a])) = Cardinality(FailureRows(failures[a])) + 1
      /\ FailuresWithin(failures'[a], IpWindow, now)
           <= FailuresWithin(failures[a], IpWindow, now) + 1
  BY <1>4, <1>5, OneFailureMore
<1> QED  BY <1>1, <1>3, <1>6 DEF a

\* The steps that write no counter an address is refused by bring no login
\* nearer to its count, and refuse nobody.
LEMMA CounterMoves ==
    ASSUME IInv, [Next]_vars
    PROVE  \/ /\ UNCHANGED <<now, address, pair, failures, misses>>
              /\ \A r \in Logins :
                   /\ step'[r] \in BeforeCounted => step[r] \in BeforeCounted
                   /\ step'[r] = "count address" => step[r] = "count address"
                   /\ step'[r] = "probing" => step[r] = "probing"
           \/ \E r \in Logins : \E i \in Addresses \cup {NoAddress} : StartLogin(r, i)
           \/ \E r \in Logins : RecordProbe(r) \/ ForgetPair(r) \/ CountPair(r) \/ CountAddress(r)
           \/ Tick
<1> DEFINE Quiet == /\ UNCHANGED <<now, address, pair, failures, misses>>
                    /\ \A r \in Logins :
                         /\ step'[r] \in BeforeCounted => step[r] \in BeforeCounted
                         /\ step'[r] = "count address" => step[r] = "count address"
                         /\ step'[r] = "probing" => step[r] = "probing"
<1>0. step \in [Callers -> Steps] /\ Logins \subseteq Callers
  BY CounterTypes
<1>1. CASE UNCHANGED vars
  BY <1>1 DEF vars, counters, history
<1>2. ASSUME NEW r \in Logins,
             ForgetAccount(r) \/ CountAccount(r) \/ StoreFails(r) \/ Disconnect(r)
      PROVE  Quiet
  BY <1>0, <1>2
     DEF ForgetAccount, CountAccount, StoreFails, Disconnect, Unthrottled, IsAt, GoTo,
         BeforeCounted, Writing, counters, history
<1>3. ASSUME NEW c \in Callers, EnterGate(c) \/ Resume(c) PROVE Quiet
  <2>1. UNCHANGED <<now, address, pair, failures, misses>>
    BY <1>3 DEF EnterGate, Resume, Unthrottled, counters, history
  <2>2. /\ \E s \in {"evaluating", "queued", "idle"} : GoTo(c, s)
        /\ c \in Logins => step[c] \in {"entering", "queued"}
    BY <1>3, LoginAssumption DEF EnterGate, Resume, IsAt
  <2> QED  BY <1>0, <2>1, <2>2 DEF GoTo, BeforeCounted
<1>4. ASSUME NEW c \in Callers, Evaluate(c) PROVE Quiet
  <2>1. UNCHANGED <<now, address, pair, failures, misses>>
    BY <1>4 DEF Evaluate, FinishPin, FinishLogin, GoUnanswered, Unthrottled, counters, history
  <2>2. /\ \E s \in {"idle", "stranded", "forget account", "count account"} : GoTo(c, s)
        /\ step[c] = "evaluating"
    BY <1>4 DEF Evaluate, FinishPin, FinishLogin, GoUnanswered, IsAt
  <2> QED  BY <1>0, <2>1, <2>2 DEF GoTo, BeforeCounted
<1> QED  BY <1>1, <1>2, <1>3, <1>4 DEF Next, Record

\* What an address has counted and may still count stays within its budget and
\* the logins that may be served at once.
LEMMA BudgetStep == IInv /\ BudgetKept /\ [Next]_vars => BudgetKept'
<1> SUFFICES ASSUME IInv, BudgetKept, [Next]_vars, NEW i \in Addresses
             PROVE  /\ IsFiniteSet(FailureRows(failures'[i]))
                    /\ FailuresWithin(failures'[i], IpWindow, now') + Cardinality(Counting(i)')
                         <= IpBudget - 1 + Cardinality(Logins)
  BY DEF BudgetKept, RecentFailures
<1>0. /\ IsFiniteSet(FailureRows(failures[i]))
      /\ FailuresWithin(failures[i], IpWindow, now) \in Nat
      /\ FailuresWithin(failures[i], IpWindow, now) + Cardinality(Counting(i))
           <= IpBudget - 1 + Cardinality(Logins)
      /\ now \in 0..Horizon /\ now \in Int
  <2>1. now \in 0..Horizon /\ now \in Int /\ now <= now
    BY CounterTypes
  <2>2. IsFiniteSet(FailureRows(failures[i]))
    BY DEF BudgetKept
  <2>3. RecentFailures(i, now) \in Nat
    BY <2>1, <2>2, WindowCounts
  <2> QED  BY <2>1, <2>3 DEF BudgetKept, RecentFailures
<1>t. /\ step \in [Callers -> Steps] /\ Logins \subseteq Callers
      /\ address \in [Logins -> Addresses \cup {NoAddress}]
      /\ IpBudget \in Nat \ {0}
  BY CounterTypes
<1>s. /\ Counting(i) \subseteq Logins /\ Counting(i)' \subseteq Logins
      /\ Cardinality(Counting(i)) \in Nat /\ Cardinality(Counting(i)') \in Nat
      /\ Cardinality(Logins) \in Nat /\ Cardinality(Counting(i)') <= Cardinality(Logins)
  <2>1. Counting(i) \subseteq Logins /\ Counting(i)' \subseteq Logins
    BY DEF Counting
  <2> QED  BY <2>1, LoginsCounted
<1>1. ASSUME UNCHANGED <<now, failures>>, Counting(i)' \subseteq Counting(i)
      PROVE  /\ IsFiniteSet(FailureRows(failures'[i]))
             /\ FailuresWithin(failures'[i], IpWindow, now') + Cardinality(Counting(i)')
                  <= IpBudget - 1 + Cardinality(Logins)
  <2>1. Cardinality(Counting(i)') <= Cardinality(Counting(i))
    BY <1>1, <1>s, LoginsCounted
  <2> QED  BY <1>0, <1>1, <1>s, <1>t, <2>1
<1>2. ASSUME UNCHANGED address,
             \A r \in Logins : step'[r] \in BeforeCounted => step[r] \in BeforeCounted
      PROVE  Counting(i)' \subseteq Counting(i)
  BY <1>2 DEF Counting
<1>3. CASE /\ UNCHANGED <<now, address, pair, failures, misses>>
           /\ \A r \in Logins : step'[r] \in BeforeCounted => step[r] \in BeforeCounted
  BY <1>1, <1>2, <1>3
<1>4. ASSUME NEW r \in Logins, NEW j \in Addresses \cup {NoAddress}, StartLogin(r, j)
      PROVE  /\ IsFiniteSet(FailureRows(failures'[i]))
             /\ FailuresWithin(failures'[i], IpWindow, now') + Cardinality(Counting(i)')
                  <= IpBudget - 1 + Cardinality(Logins)
  <2>1. /\ UNCHANGED <<now, failures>>
        /\ address' = [address EXCEPT ![r] = j] /\ step[r] = "idle"
        /\ GoTo(r, IF j # NoAddress /\ Refused(j) THEN "probing" ELSE "entering")
    BY <1>4 DEF StartLogin, counters, IsAt
  <2>2. CASE i = j /\ ~ WindowExhausted(i, now)
    <3>1. FailuresWithin(failures[i], IpWindow, now) <= IpBudget - 1
      BY <1>0, <1>t, <2>2 DEF WindowExhausted, RecentFailures
    <3> QED  BY <1>0, <1>s, <1>t, <2>1, <3>1
  <2>3. CASE i = j /\ WindowExhausted(i, now)
    <3>1. step' = [step EXCEPT ![r] = "probing"]
      BY <2>1, <2>3, LoginAssumption DEF Refused, GoTo
    <3>2. Counting(i)' \subseteq Counting(i)
      BY <1>t, <2>1, <3>1 DEF Counting, BeforeCounted
    <3> QED  BY <1>1, <2>1, <3>2
  <2>4. CASE i # j
    <3>1. Counting(i)' \subseteq Counting(i)
      BY <1>t, <2>1, <2>4 DEF Counting, GoTo
    <3> QED  BY <1>1, <2>1, <3>1
  <2> QED  BY <2>2, <2>3, <2>4
<1>5. ASSUME NEW r \in Logins, RecordProbe(r) \/ ForgetPair(r) \/ CountPair(r)
      PROVE  /\ IsFiniteSet(FailureRows(failures'[i]))
             /\ FailuresWithin(failures'[i], IpWindow, now') + Cardinality(Counting(i)')
                  <= IpBudget - 1 + Cardinality(Logins)
  <2>1. UNCHANGED <<now, failures>> /\ address' = address
    BY <1>5 DEF RecordProbe, ForgetPair, CountPair
  <2>2. \/ GoTo(r, "idle")
        \/ GoTo(r, "count address") /\ step[r] = "count pair"
    BY <1>5 DEF RecordProbe, ForgetPair, CountPair, IsAt
  <2>3. \A q \in Logins : step'[q] \in BeforeCounted => step[q] \in BeforeCounted
    BY <1>t, <2>2 DEF GoTo, BeforeCounted
  <2> QED  BY <1>1, <1>2, <2>1, <2>3
<1>6. ASSUME NEW r \in Logins, CountAddress(r)
      PROVE  /\ IsFiniteSet(FailureRows(failures'[i]))
             /\ FailuresWithin(failures'[i], IpWindow, now') + Cardinality(Counting(i)')
                  <= IpBudget - 1 + Cardinality(Logins)
  <2>1. /\ now' = now /\ address' = address /\ step[r] = "count address"
        /\ step' = [step EXCEPT ![r] = "idle"]
    BY <1>6 DEF CountAddress, IsAt, GoTo
  <2>n. now' = now
    BY <2>1
  <2>2. address[r] \in Addresses
    BY <1>6 DEF IInv, AddressKnown, CountAddress, IsAt
  <2>3. IsFiniteSet(FailureRows(failures[address[r]]))
    BY <2>2 DEF BudgetKept
  <2>4. CASE i = address[r]
    <3>1. /\ IsFiniteSet(FailureRows(failures'[i]))
          /\ Cardinality(FailureRows(failures'[i])) = Cardinality(FailureRows(failures[i])) + 1
          /\ FailuresWithin(failures'[i], IpWindow, now)
               <= FailuresWithin(failures[i], IpWindow, now) + 1
      BY <1>6, <2>3, <2>4, FailureCounted
    <3>2. FailuresWithin(failures'[i], IpWindow, now) \in Nat
      <4>1. FailuresWithin(failures'[i], IpWindow, now)
              = Cardinality({row \in FailureRows(failures'[i]) : row[1] + IpWindow >= now})
        BY DEF FailuresWithin
      <4>2. IsFiniteSet({row \in FailureRows(failures'[i]) : row[1] + IpWindow >= now})
        BY <3>1, FS_Subset
      <4> QED  BY <4>1, <4>2, FS_CardinalityType
    <3>3. r \in Counting(i) /\ Counting(i)' \subseteq Counting(i) \ {r}
      BY <1>t, <2>1, <2>4 DEF Counting, BeforeCounted
    <3>4. Cardinality(Counting(i)') <= Cardinality(Counting(i)) - 1
      BY <1>s, <3>3, OneLoginLess
    <3> QED  BY <1>0, <1>s, <1>t, <2>n, <3>1, <3>2, <3>4
  <2>5. CASE i # address[r]
    <3>1. failures'[i] = failures[i]
      BY <1>6, <2>3, <2>5, FailureCounted
    <3>2. Counting(i)' \subseteq Counting(i)
      BY <1>t, <2>1 DEF Counting, BeforeCounted
    <3>3. Cardinality(Counting(i)') <= Cardinality(Counting(i))
      BY <1>s, <3>2, LoginsCounted
    <3> QED  BY <1>0, <1>s, <1>t, <2>n, <3>1, <3>3
  <2> QED  BY <2>4, <2>5
<1>7. CASE Tick
  <2>1. /\ now' = now + 1 /\ failures' = failures /\ address' = address /\ step' = step
    BY <1>7 DEF Tick, counters
  <2>2. /\ FailuresWithin(failures[i], IpWindow, now + 1)
             <= FailuresWithin(failures[i], IpWindow, now)
        /\ FailuresWithin(failures[i], IpWindow, now + 1) \in Nat
    BY <1>0, WindowCounts DEF RecentFailures
  <2>3. Counting(i)' = Counting(i)
    BY <2>1 DEF Counting
  <2> QED  BY <1>0, <1>s, <1>t, <2>1, <2>2, <2>3
<1> QED  BY <1>3, <1>4, <1>5, <1>6, <1>7, CounterMoves

\* Who has to wait after a failure has reached the threshold.
LEMMA WaitsForItsFailures ==
    ASSUME NEW counter \in Counter, NEW at \in Int, counter.last <= at,
           MustWait(counter, at)
    PROVE  counter.count >= Threshold
<1>1. counter.count \in Nat /\ counter.last \in Nat /\ Threshold \in Nat \ {0}
  BY LoginAssumption DEF Counter
<1>2. Backoff(Decayed(counter, at)) > at - counter.last
  BY DEF MustWait
<1>3. Decayed(counter, at) \in {0, counter.count}
  BY DEF Decayed
<1>4. Decayed(counter, at) < Threshold => Backoff(Decayed(counter, at)) = 0
  BY DEF Backoff
<1> QED  BY <1>1, <1>2, <1>3, <1>4

\* One miss more is told by one more.
LEMMA OneMoreMiss ==
    ASSUME NEW counter \in Counter, NEW at \in Nat
    PROVE  /\ OneMore(counter, at).count \in Nat
           /\ OneMore(counter, at).count <= counter.count + 1
           /\ OneMore(counter, at).last = at
BY DEF OneMore, Counter

\* The counters that can refuse an address tell no more than its own misses.
LEMMA MissesStep == IInv /\ BudgetKept /\ MissesTell /\ [Next]_vars => MissesTell'
<1> DEFINE Told(i) == /\ pair'[i].count <= misses'[i]
                      /\ pair'[i].last <= now'
                      /\ Cardinality(FailureRows(failures'[i])) + Cardinality(HalfCounted(i)')
                           <= misses'[i]
<1> SUFFICES ASSUME IInv, BudgetKept, MissesTell, [Next]_vars, NEW i \in Addresses
             PROVE  Told(i)
  BY DEF MissesTell
<1>0. /\ pair[i] \in Counter /\ pair[i].count \in Nat /\ pair[i].last \in Nat
      /\ misses[i] \in Nat /\ now \in Nat
      /\ pair[i].count <= misses[i] /\ pair[i].last <= now
      /\ Cardinality(FailureRows(failures[i])) + Cardinality(HalfCounted(i)) <= misses[i]
  <2>1. pair[i] \in Counter /\ misses[i] \in Nat /\ now \in Nat
    BY CounterTypes, LoginAssumption
  <2> QED  BY <2>1 DEF MissesTell, Counter
<1>f. Cardinality(FailureRows(failures[i])) \in Nat
  BY FS_CardinalityType DEF BudgetKept
<1>t. /\ step \in [Callers -> Steps] /\ Logins \subseteq Callers
      /\ address \in [Logins -> Addresses \cup {NoAddress}]
      /\ pair \in [Addresses -> Counter] /\ misses \in [Addresses -> Nat]
  BY CounterTypes
<1>s. /\ HalfCounted(i) \subseteq Logins /\ HalfCounted(i)' \subseteq Logins
      /\ Cardinality(HalfCounted(i)) \in Nat /\ Cardinality(HalfCounted(i)') \in Nat
  <2>1. HalfCounted(i) \subseteq Logins /\ HalfCounted(i)' \subseteq Logins
    BY DEF HalfCounted
  <2> QED  BY <2>1, LoginsCounted
<1>1. ASSUME failures' = failures, HalfCounted(i)' \subseteq HalfCounted(i),
             misses'[i] = misses[i]
      PROVE  Cardinality(FailureRows(failures'[i])) + Cardinality(HalfCounted(i)') <= misses'[i]
  <2>1. Cardinality(HalfCounted(i)') <= Cardinality(HalfCounted(i))
    BY <1>1, <1>s, LoginsCounted
  <2> QED  BY <1>0, <1>1, <1>f, <1>s, <2>1
<1>2. ASSUME UNCHANGED address,
             \A r \in Logins : step'[r] = "count address" => step[r] = "count address"
      PROVE  HalfCounted(i)' \subseteq HalfCounted(i)
  BY <1>2 DEF HalfCounted
<1>3. CASE /\ UNCHANGED <<now, address, pair, failures, misses>>
           /\ \A r \in Logins : step'[r] = "count address" => step[r] = "count address"
  BY <1>0, <1>1, <1>2, <1>3
<1>4. ASSUME NEW r \in Logins, NEW j \in Addresses \cup {NoAddress}, StartLogin(r, j)
      PROVE  Told(i)
  <2>1. /\ UNCHANGED <<now, pair, failures, misses>>
        /\ address' = [address EXCEPT ![r] = j] /\ step[r] = "idle"
        /\ \E s \in {"probing", "entering"} : GoTo(r, s)
    BY <1>4 DEF StartLogin, counters, IsAt
  <2>2. HalfCounted(i)' \subseteq HalfCounted(i)
    BY <1>t, <2>1 DEF HalfCounted, GoTo
  <2>3. now' = now /\ pair' = pair /\ failures' = failures /\ misses' = misses
    BY <2>1
  <2> QED  BY <1>0, <1>1, <2>2, <2>3
<1>5. ASSUME NEW r \in Logins, RecordProbe(r) \/ CountPair(r) PROVE Told(i)
  <2>1. /\ now' = now /\ failures' = failures /\ address' = address
        /\ pair' = [pair EXCEPT ![address[r]] = OneMore(pair[address[r]], now)]
        /\ misses' = [misses EXCEPT ![address[r]] = misses[address[r]] + 1]
    BY <1>5 DEF RecordProbe, CountPair
  <2>2. \E s \in {"idle", "count address"} : GoTo(r, s)
    BY <1>5 DEF RecordProbe, CountPair
  <2>3. address[r] \in Addresses
    BY <1>5 DEF IInv, AddressKnown, RecordProbe, CountPair, IsAt
  <2>4. \A q \in Logins : q # r => step'[q] = step[q]
    BY <1>t, <2>2 DEF GoTo
  <2>5. CASE i = address[r]
    <3>1. /\ pair'[i] = OneMore(pair[i], now) /\ misses'[i] = misses[i] + 1
      BY <1>t, <2>1, <2>3, <2>5
    <3>2. /\ OneMore(pair[i], now).count \in Nat
          /\ OneMore(pair[i], now).count <= pair[i].count + 1
          /\ OneMore(pair[i], now).last = now
      BY <1>0, OneMoreMiss
    <3>3. HalfCounted(i)' \subseteq HalfCounted(i) \cup {r}
      BY <2>1, <2>4 DEF HalfCounted
    <3>4. Cardinality(HalfCounted(i)') <= Cardinality(HalfCounted(i)) + 1
      <4>1. IsFiniteSet(HalfCounted(i))
        BY <1>s, LoginsCounted
      <4>2. /\ IsFiniteSet(HalfCounted(i) \cup {r})
            /\ Cardinality(HalfCounted(i) \cup {r}) \in Nat
            /\ Cardinality(HalfCounted(i) \cup {r}) <= Cardinality(HalfCounted(i)) + 1
        BY <4>1, OneMoreElement
      <4>3. Cardinality(HalfCounted(i)') <= Cardinality(HalfCounted(i) \cup {r})
        BY <3>3, <4>2, FS_Subset
      <4> QED  BY <1>s, <4>2, <4>3
    <3>5. /\ pair'[i].count <= misses'[i] /\ pair'[i].last <= now
      BY <1>0, <3>1, <3>2
    <3>6. Cardinality(FailureRows(failures[i])) + Cardinality(HalfCounted(i)') <= misses'[i]
      BY <1>0, <1>f, <1>s, <3>1, <3>4
    <3>7. now' = now /\ failures' = failures
      BY <2>1
    <3> QED  BY <3>5, <3>6, <3>7
  <2>6. CASE i # address[r]
    <3>1. pair'[i] = pair[i] /\ misses'[i] = misses[i]
      BY <1>t, <2>1, <2>6
    <3>2. HalfCounted(i)' \subseteq HalfCounted(i)
      BY <2>1, <2>4, <2>6 DEF HalfCounted
    <3>3. now' = now /\ failures' = failures
      BY <2>1
    <3> QED  BY <1>0, <1>1, <3>1, <3>2, <3>3
  <2> QED  BY <2>5, <2>6
<1>6. ASSUME NEW r \in Logins, ForgetPair(r) PROVE Told(i)
  <2>1. /\ now' = now /\ failures' = failures /\ address' = address /\ misses' = misses
        /\ pair' = [pair EXCEPT ![address[r]] = NoFailure] /\ GoTo(r, "idle")
    BY <1>6 DEF ForgetPair, history
  <2>2. HalfCounted(i)' \subseteq HalfCounted(i)
    BY <1>t, <2>1 DEF HalfCounted, GoTo
  <2>3. pair'[i] = pair[i] \/ pair'[i] = NoFailure
    BY <1>t, <2>1
  <2>4. pair'[i].count <= misses[i] /\ pair'[i].last <= now
    BY <1>0, <2>3 DEF NoFailure
  <2>5. now' = now /\ failures' = failures /\ misses' = misses
    BY <2>1
  <2> QED  BY <1>1, <2>2, <2>4, <2>5
<1>7. ASSUME NEW r \in Logins, CountAddress(r) PROVE Told(i)
  <2>1. /\ now' = now /\ address' = address /\ pair' = pair /\ misses' = misses
        /\ step[r] = "count address" /\ GoTo(r, "idle")
    BY <1>7 DEF CountAddress, history, IsAt
  <2>2. address[r] \in Addresses
    BY <1>7 DEF IInv, AddressKnown, CountAddress, IsAt
  <2>3. IsFiniteSet(FailureRows(failures[address[r]]))
    BY <2>2 DEF BudgetKept
  <2>4. now' = now /\ pair' = pair /\ misses' = misses
    BY <2>1
  <2>5. CASE i = address[r]
    <3>1. Cardinality(FailureRows(failures'[i])) = Cardinality(FailureRows(failures[i])) + 1
      BY <1>7, <2>3, <2>5, FailureCounted
    <3>2. r \in HalfCounted(i) /\ HalfCounted(i)' \subseteq HalfCounted(i) \ {r}
      BY <1>t, <2>1, <2>5 DEF HalfCounted, GoTo
    <3>3. Cardinality(HalfCounted(i)') <= Cardinality(HalfCounted(i)) - 1
      BY <1>s, <3>2, OneLoginLess
    <3> QED  BY <1>0, <1>f, <1>s, <2>4, <3>1, <3>3
  <2>6. CASE i # address[r]
    <3>1. failures'[i] = failures[i]
      BY <1>7, <2>3, <2>6, FailureCounted
    <3>2. HalfCounted(i)' \subseteq HalfCounted(i)
      BY <1>t, <2>1 DEF HalfCounted, GoTo
    <3>3. Cardinality(HalfCounted(i)') <= Cardinality(HalfCounted(i))
      BY <1>s, <3>2, LoginsCounted
    <3> QED  BY <1>0, <1>f, <1>s, <2>4, <3>1, <3>3
  <2> QED  BY <2>5, <2>6
<1>8. CASE Tick
  <2>1. /\ now' = now + 1 /\ failures' = failures /\ address' = address /\ step' = step
        /\ pair' = pair /\ misses' = misses
    BY <1>8 DEF Tick, counters, history
  <2>2. HalfCounted(i)' = HalfCounted(i)
    BY <2>1 DEF HalfCounted
  <2> QED  BY <1>0, <2>1, <2>2
<1> QED  BY <1>3, <1>4, <1>5, <1>6, <1>7, <1>8, CounterMoves

\* A login is only refused for what its address has itself missed.
LEMMA StrangerStep ==
    IInv /\ BudgetKept /\ MissesTell /\ StrangerNeverRefused /\ [Next]_vars
      => StrangerNeverRefused'
<1> SUFFICES ASSUME IInv, BudgetKept, MissesTell, StrangerNeverRefused, [Next]_vars,
                    NEW r \in Logins, step'[r] = "probing"
             PROVE  misses'[address'[r]] >= Smaller(Threshold, IpBudget)
  BY DEF StrangerNeverRefused, IsAt
<1>t. /\ step \in [Callers -> Steps] /\ Logins \subseteq Callers
      /\ address \in [Logins -> Addresses \cup {NoAddress}]
      /\ misses \in [Addresses -> Nat]
      /\ Smaller(Threshold, IpBudget) \in Nat
      /\ Smaller(Threshold, IpBudget) <= Threshold
      /\ Smaller(Threshold, IpBudget) <= IpBudget
  BY CounterTypes, LoginAssumption DEF Smaller
<1>1. ASSUME step[r] = "probing", address'[r] = address[r],
             \A i \in Addresses : misses'[i] >= misses[i] /\ misses'[i] \in Nat
      PROVE  misses'[address'[r]] >= Smaller(Threshold, IpBudget)
  <2>1. address[r] \in Addresses /\ misses[address[r]] >= Smaller(Threshold, IpBudget)
    BY <1>1 DEF IInv, AddressKnown, StrangerNeverRefused, IsAt
  <2> QED  BY <1>1, <1>t, <2>1
<1>2. CASE /\ UNCHANGED <<now, address, pair, failures, misses>>
           /\ \A q \in Logins : step'[q] = "probing" => step[q] = "probing"
  <2>1. step[r] = "probing" /\ address' = address /\ misses' = misses
    BY <1>2
  <2> QED  BY <1>1, <1>t, <2>1
<1>3. ASSUME NEW q \in Logins, NEW i \in Addresses \cup {NoAddress}, StartLogin(q, i)
      PROVE  misses'[address'[r]] >= Smaller(Threshold, IpBudget)
  <2>1. /\ address' = [address EXCEPT ![q] = i] /\ misses' = misses
        /\ step' = [step EXCEPT ![q] = IF i # NoAddress /\ Refused(i) THEN "probing" ELSE "entering"]
    BY <1>3 DEF StartLogin, GoTo
  <2>2. CASE r # q
    <3>1. step[r] = "probing" /\ address'[r] = address[r]
      BY <1>t, <2>1, <2>2
    <3>2. misses' = misses
      BY <2>1
    <3> QED  BY <1>1, <1>t, <3>1, <3>2
  <2>3. CASE r = q
    <3>1. address'[r] = i /\ i \in Addresses /\ Refused(i)
      BY <1>t, <2>1, <2>3
    <3>2. misses[i] >= Smaller(Threshold, IpBudget)
      <4>1. CASE MustWait(pair[i], now)
        <5>1. /\ pair[i] \in Counter /\ now \in Int /\ pair[i].last <= now
              /\ pair[i].count <= misses[i]
          BY <3>1, CounterTypes DEF MissesTell
        <5>2. pair[i].count >= Threshold
          BY <4>1, <5>1, WaitsForItsFailures
        <5>3. pair[i].count \in Nat /\ misses[i] \in Nat /\ Threshold \in Nat
          BY <1>t, <3>1, <5>1, LoginAssumption DEF Counter
        <5> QED  BY <1>t, <5>1, <5>2, <5>3
      <4>2. CASE WindowExhausted(i, now)
        <5>1. IsFiniteSet(FailureRows(failures[i])) /\ now \in Int /\ now <= now
          BY <3>1, CounterTypes DEF BudgetKept
        <5>2. /\ RecentFailures(i, now) \in Nat
              /\ RecentFailures(i, now) <= Cardinality(FailureRows(failures[i]))
              /\ Cardinality(FailureRows(failures[i])) \in Nat
          BY <3>1, <5>1, WindowCounts
        <5>3. Cardinality(HalfCounted(i)) \in Nat
          <6>1. HalfCounted(i) \subseteq Logins
            BY DEF HalfCounted
          <6> QED  BY <6>1, LoginsCounted
        <5>4. Cardinality(FailureRows(failures[i])) + Cardinality(HalfCounted(i)) <= misses[i]
          BY <3>1 DEF MissesTell
        <5>5. RecentFailures(i, now) >= IpBudget /\ misses[i] \in Nat /\ IpBudget \in Nat
          BY <1>t, <3>1, <4>2, LoginAssumption DEF WindowExhausted
        <5> QED  BY <1>t, <5>2, <5>3, <5>4, <5>5
      <4> QED  BY <3>1, <4>1, <4>2 DEF Refused
    <3>3. misses' = misses
      BY <2>1
    <3> QED  BY <3>1, <3>2, <3>3
  <2> QED  BY <2>2, <2>3
<1>4. ASSUME NEW q \in Logins, RecordProbe(q) \/ ForgetPair(q) \/ CountPair(q) \/ CountAddress(q)
      PROVE  misses'[address'[r]] >= Smaller(Threshold, IpBudget)
  <2>1. address' = address /\ \E s \in {"idle", "count address"} : GoTo(q, s)
    BY <1>4 DEF RecordProbe, ForgetPair, CountPair, CountAddress
  <2>2. step[r] = "probing"
    BY <1>t, <2>1 DEF GoTo
  <2>3. misses' = misses \/ misses' = [misses EXCEPT ![address[q]] = misses[address[q]] + 1]
    BY <1>4 DEF RecordProbe, ForgetPair, CountPair, CountAddress, history
  <2>4. \A i \in Addresses : misses'[i] >= misses[i] /\ misses'[i] \in Nat
    BY <1>t, <2>3
  <2>5. address'[r] = address[r]
    BY <2>1
  <2> QED  BY <1>1, <2>2, <2>4, <2>5
<1>5. CASE Tick
  <2>1. step[r] = "probing" /\ address' = address /\ misses' = misses
    BY <1>5 DEF Tick, history
  <2> QED  BY <1>1, <1>t, <2>1
<1> QED  BY <1>2, <1>3, <1>4, <1>5, CounterMoves

-----------------------------------------------------------------------------
(***************************************************************************)
(* The theorems.                                                           *)
(***************************************************************************)
\* Initially nobody holds a place and nobody waits.
LEMMA InvInit == Init => IInv
<1> SUFFICES ASSUME Init PROVE IInv
  OBVIOUS
<1>1. holding = {} /\ queue = <<>> /\ inFlight = 0 /\ Len(queue) = 0
  BY DEF Init, GateInit
<1>2. PlacesKnow /\ PlacesExact
  BY <1>1, FS_EmptySet, GateAssumption DEF PlacesKnow, PlacesExact
<1>3. AddressKnown
  BY LoginAssumption DEF Init, AddressKnown
<1> QED  BY <1>2, <1>3, TypeInit DEF IInv

\* The invariant holds in every state the API reaches.
THEOREM Invariance == Spec => []IInv
<1>1. IInv /\ [Next]_vars => IInv'
  BY TypeStep, PlacesStep, AddressStep DEF IInv
<1> QED  BY <1>1, InvInit, PTL DEF Spec

\* Counters, places and requests keep their shape.
THEOREM TypeCorrect == Spec => []TypeOK
<1>1. IInv => TypeOK
  BY DEF IInv
<1> QED  BY <1>1, Invariance, PTL

\* The counter tells exactly the places that are held: none is lost and none is
\* given twice, and nobody waits while one is free.
THEOREM PlacesAreExact == Spec => []PlacesExact
<1>1. IInv => PlacesExact
  BY DEF IInv
<1> QED  BY <1>1, Invariance, PTL

\* The counter and the queue implement the abstract gate.
THEOREM GateImplementsSlots == Spec => GateIsSlots
<1>1. Init => Slots!Init
  BY DEF Init, GateInit, Slots!Init, Waiting
<1> QED  BY <1>1, SlotsStep, Invariance, PTL DEF Spec, GateIsSlots, Slots!Spec

\* A right password opens again the door of its own address, and of no other.
THEOREM ForgetsItsAddressOnly == Spec => SuccessForgetsItsAddressOnly
<1> DEFINE Own == \A i \in Addresses : pair[i] # NoFailure /\ pair'[i] = NoFailure
                    => \E r \in Logins : address[r] = i /\ IsAt(r, "forget pair")
<1>1. ASSUME IInv, [Next]_vars PROVE [Own]_vars
  <2>0. pair \in [Addresses -> Counter] /\ now \in Nat
    BY <1>1, LoginAssumption DEF IInv, TypeOK
  <2>1. CASE UNCHANGED pair
    BY <2>1
  <2>2. ASSUME NEW r \in Logins, RecordProbe(r) \/ CountPair(r) PROVE Own
    <3>1. pair' = [pair EXCEPT ![address[r]] = OneMore(pair[address[r]], now)]
      BY <2>2 DEF RecordProbe, CountPair
    <3>2. \A i \in Addresses : OneMore(pair[i], now) # NoFailure
      BY <2>0, OneMoreType
    <3> QED  BY <2>0, <3>1, <3>2
  <2>3. ASSUME NEW r \in Logins, ForgetPair(r) PROVE Own
    BY <2>0, <2>3 DEF ForgetPair
  <2>4. \/ UNCHANGED pair
        \/ \E r \in Logins : RecordProbe(r) \/ CountPair(r) \/ ForgetPair(r)
    BY <1>1 DEF Next, vars, counters, StartLogin, Record, ForgetAccount, CountAccount,
           CountAddress, StoreFails, Disconnect, EnterGate, Resume, Evaluate, FinishPin,
           FinishLogin, GoUnanswered, Unthrottled, Tick
  <2> QED  BY <2>1, <2>2, <2>3, <2>4
<1>2. IInv /\ [Next]_vars => [Own]_vars
  BY <1>1
<1> QED  BY <1>2, Invariance, PTL DEF Spec, SuccessForgetsItsAddressOnly

\* The counters start even.
LEMMA CountersInit == Init => CInv
<1> SUFFICES ASSUME Init PROVE CInv
  OBVIOUS
<1>1. /\ StrangerNeverRefused
      /\ \A i \in Addresses : Counting(i) = {} /\ HalfCounted(i) = {}
  BY LoginAssumption
     DEF Init, StrangerNeverRefused, IsAt, Counting, HalfCounted, BeforeCounted
<1>2. ASSUME NEW i \in Addresses PROVE FailureRows(failures[i]) = {}
  <2>1. \A t \in DOMAIN failures[i] : failures[i][t] = 0
    BY DEF Init
  <2> QED  BY <2>1, NoRows
<1>3. IsFiniteSet({}) /\ Cardinality({}) = 0 /\ Cardinality(Logins) \in Nat
  BY FS_EmptySet, FS_CardinalityType, LoginAssumption
<1>4. ASSUME NEW i \in Addresses PROVE RecentFailures(i, now) = 0
  <2>1. {row \in FailureRows(failures[i]) : row[1] + IpWindow >= now} = {}
    BY <1>2
  <2> QED  BY <1>3, <2>1 DEF RecentFailures, FailuresWithin
<1>5. BudgetKept
  BY <1>1, <1>2, <1>3, <1>4, LoginAssumption DEF BudgetKept
<1>6. \A i \in Addresses : pair[i] = NoFailure /\ misses[i] = 0 /\ now = 0
  BY DEF Init
<1>7. MissesTell
  BY <1>1, <1>2, <1>3, <1>6 DEF MissesTell, NoFailure
<1> QED  BY <1>1, <1>5, <1>7 DEF CInv

\* What the counters tell holds in every state the API reaches.
THEOREM CountersTell == Spec => []CInv
<1>1. IInv /\ CInv /\ [Next]_vars => CInv'
  BY BudgetStep, MissesStep, StrangerStep DEF CInv
<1> QED  BY <1>1, CountersInit, Invariance, PTL DEF Spec

\* However many failures other addresses pile up on the account, an address is
\* refused only for what it has itself missed.
THEOREM StrangersKeepTheirDoor == Spec => []StrangerNeverRefused
<1>1. CInv => StrangerNeverRefused
  BY DEF CInv
<1> QED  BY <1>1, CountersTell, PTL

\* Logins that read the counters together go over the budget of their address
\* by no more than their number.
THEOREM OvershootBounded == Spec => []IpOvershootBounded
<1>1. ASSUME IInv, CInv PROVE IpOvershootBounded
  <2> SUFFICES ASSUME NEW i \in Addresses
               PROVE  RecentFailures(i, now) <= IpBudget - 1 + Cardinality(Logins)
    BY DEF IpOvershootBounded
  <2>1. /\ IsFiniteSet(FailureRows(failures[i]))
        /\ RecentFailures(i, now) + Cardinality(Counting(i)) <= IpBudget - 1 + Cardinality(Logins)
    BY <1>1 DEF CInv, BudgetKept
  <2>2. RecentFailures(i, now) \in Nat
    <3>1. now \in Int /\ now <= now
      BY <1>1, CounterTypes
    <3> QED  BY <1>1, <2>1, <3>1, WindowCounts
  <2>3. Cardinality(Counting(i)) \in Nat /\ Cardinality(Logins) \in Nat
    <3>1. Counting(i) \subseteq Logins
      BY DEF Counting
    <3> QED  BY <3>1, LoginsCounted
  <2> QED  BY <2>1, <2>2, <2>3, LoginAssumption
<1>2. IInv /\ CInv => IpOvershootBounded
  BY <1>1
<1> QED  BY <1>2, CountersTell, Invariance, PTL
=============================================================================

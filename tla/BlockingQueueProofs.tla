------------------------ MODULE BlockingQueueProofs ------------------------
(***************************************************************************)
(* What BlockingQueue does for any number of putters and takers.           *)
(***************************************************************************)
EXTENDS BlockingQueue, SequenceTheorems, FiniteSetTheorems, TLAPS

\* Every variable keeps its type, and a sleeping taker is inside take.
THEOREM TypeCorrect == Spec => []TypeOK
<1>1. Init => TypeOK
  BY DEF Init, TypeOK
<1>2. TypeOK /\ [Next]_vars => TypeOK'
  <2> SUFFICES ASSUME TypeOK, [Next]_vars PROVE TypeOK'
    OBVIOUS
  <2> USE DEF TypeOK
  <2>1. ASSUME NEW p \in Putters, NEW x \in Values, CallPut(p, x)
        PROVE  TypeOK'
    BY <2>1 DEF CallPut
  <2>2. ASSUME NEW p \in Putters, Put(p) PROVE TypeOK'
    <3>1. putting[p] \in Values
      BY <2>2 DEF Put
    <3>2. queue' \in Seq(Values) /\ accepted' \in Seq(Values)
      BY <2>2, <3>1 DEF Put
    <3>3. QED
      BY <2>2, <3>2 DEF Put
  <2>3. ASSUME NEW t \in Takers, CallTake(t) PROVE TypeOK'
    BY <2>3 DEF CallTake
  <2>4. ASSUME NEW t \in Takers, Take(t) PROVE TypeOK'
    <3>1. CASE queue # <<>>
      <4>1. Head(queue) \in Values /\ Tail(queue) \in Seq(Values)
        BY <3>1, HeadTailProperties
      <4>2. queue' = Tail(queue) /\ delivered' = Append(delivered, Head(queue))
        BY <2>4, <3>1 DEF Take
      <4>3. queue' \in Seq(Values) /\ delivered' \in Seq(Values)
        <5> DEFINE h == Head(queue)
        <5>1. h \in Values /\ delivered' = Append(delivered, h)
          BY <4>1, <4>2
        <5> HIDE DEF h
        <5>2. QED
          BY <4>1, <4>2, <5>1
      <4>4. cond' \subseteq taking' /\ taking' \subseteq Takers
        BY <2>4, <3>1 DEF Take
      <4>5. QED
        BY <2>4, <4>3, <4>4 DEF Take
    <3>2. CASE queue = <<>>
      BY <2>4, <3>2 DEF Take
    <3>3. QED
      BY <3>1, <3>2
  <2>5. CASE SpuriousWakeup
    BY <2>5 DEF SpuriousWakeup
  <2>6. CASE UNCHANGED vars
    BY <2>6 DEF vars
  <2>7. QED
    BY <2>1, <2>2, <2>3, <2>4, <2>5, <2>6 DEF Next
<1>3. QED
  BY <1>1, <1>2, PTL DEF Spec

LEMMA AwakeTakersFinite ==
    ASSUME NEW S, S \subseteq Takers
    PROVE  IsFiniteSet(S) /\ Cardinality(S) \in Nat
  BY ClientAssumption, FS_Subset, FS_CardinalityType

-----------------------------------------------------------------------------
\* While a taker sleeps, every element has an awake taker coming for it.
THEOREM NoLostElementCorrect == Spec => []NoLostElement
<1>1. Init => NoLostElement
  BY DEF Init, NoLostElement
<1>2. TypeOK /\ TypeOK' /\ NoLostElement /\ [Next]_vars => NoLostElement'
  <2> SUFFICES ASSUME TypeOK, TypeOK', NoLostElement, [Next]_vars, cond' # {}
               PROVE  Len(queue') <= Cardinality(AwakeTakers')
    BY DEF NoLostElement
  <2> DEFINE A == AwakeTakers
             B == AwakeTakers'
  <2>1. /\ IsFiniteSet(A) /\ Cardinality(A) \in Nat
        /\ IsFiniteSet(B) /\ Cardinality(B) \in Nat
        /\ Len(queue) \in Nat /\ Len(queue') \in Nat
    BY AwakeTakersFinite DEF TypeOK, AwakeTakers
  <2>2. ASSUME A \subseteq B, queue' = queue, cond # {}
        PROVE  Len(queue') <= Cardinality(B)
    <3>1. Cardinality(A) <= Cardinality(B)
      BY <2>1, <2>2, FS_Subset
    <3>2. QED
      BY <2>1, <2>2, <3>1 DEF NoLostElement
  <2>3. ASSUME NEW p \in Putters, Put(p)
        PROVE  Len(queue') <= Cardinality(B)
    <3>1. Len(queue') = Len(queue) + 1
      BY <2>3 DEF Put, TypeOK
    <3>2. PICK t \in cond : cond' = cond \ {t}
      BY <2>3 DEF Put
    <3>3. t \notin A /\ B = A \cup {t}
      BY <2>3, <3>2 DEF Put, AwakeTakers, TypeOK
    <3>4. Cardinality(B) = Cardinality(A) + 1
      BY <2>1, <3>3, FS_AddElement
    <3>5. QED
      BY <2>1, <3>1, <3>2, <3>4 DEF NoLostElement
  <2>4. ASSUME NEW t \in Takers, Take(t)
        PROVE  Len(queue') <= Cardinality(B)
    <3>1. CASE queue # <<>>
      <4>1. Len(queue') = Len(queue) - 1 /\ cond' = cond
        BY <2>4, <3>1, HeadTailProperties DEF Take, TypeOK
      <4>2. t \in A /\ B = A \ {t}
        BY <2>4, <3>1 DEF Take, AwakeTakers
      <4>3. Cardinality(B) = Cardinality(A) - 1
        BY <2>1, <4>2, FS_RemoveElement
      <4>4. QED
        BY <2>1, <4>1, <4>3 DEF NoLostElement
    <3>2. CASE queue = <<>>
      <4>1. Len(queue') = 0
        BY <2>4, <3>2 DEF Take
      <4>2. QED
        BY <2>1, <4>1
    <3>3. QED
      BY <3>1, <3>2
  <2>5. ASSUME NEW p \in Putters, NEW x \in Values, CallPut(p, x)
        PROVE  Len(queue') <= Cardinality(B)
    BY <2>2, <2>5 DEF CallPut, AwakeTakers
  <2>6. ASSUME NEW t \in Takers, CallTake(t)
        PROVE  Len(queue') <= Cardinality(B)
    BY <2>2, <2>6 DEF CallTake, AwakeTakers
  <2>7. CASE SpuriousWakeup
    BY <2>2, <2>7 DEF SpuriousWakeup, AwakeTakers
  <2>8. CASE UNCHANGED vars
    BY <2>2, <2>8 DEF vars, AwakeTakers
  <2>9. QED
    BY <2>3, <2>4, <2>5, <2>6, <2>7, <2>8 DEF Next
<1>3. QED
  BY <1>1, <1>2, TypeCorrect, PTL DEF Spec
-----------------------------------------------------------------------------
(* The refinement.  The abstract queue has a capacity; no put ever finds   *)
(* it used up, since a call is counted from CallPut on.                    *)

Pending == {p \in Putters : putting[p] # None}

HasRoom == /\ Len(queue) + Len(delivered) = Len(accepted)
           /\ Len(accepted) + Cardinality(Pending) <= MaxPuts + Cardinality(Putters)

LEMMA PendingFinite ==
    ASSUME NEW S, S \subseteq Putters
    PROVE  /\ IsFiniteSet(S) /\ Cardinality(S) \in Nat
           /\ Cardinality(S) <= Cardinality(Putters)
  BY ClientAssumption, FS_Subset, FS_CardinalityType

LEMMA HasRoomStep == TypeOK /\ TypeOK' /\ HasRoom /\ [Next]_vars => HasRoom'
<1> SUFFICES ASSUME TypeOK, TypeOK', HasRoom, [Next]_vars PROVE HasRoom'
  OBVIOUS
<1> DEFINE A == Pending
           B == Pending'
<1>1. /\ IsFiniteSet(A) /\ Cardinality(A) \in Nat
      /\ IsFiniteSet(B) /\ Cardinality(B) \in Nat
      /\ Cardinality(B) <= Cardinality(Putters) /\ Cardinality(Putters) \in Nat
      /\ MaxPuts \in Nat
      /\ Len(accepted) \in Nat /\ Len(queue) \in Nat /\ Len(delivered) \in Nat
  BY PendingFinite, ClientAssumption DEF Pending, TypeOK
<1>2. ASSUME NEW p \in Putters, NEW x \in Values, CallPut(p, x) PROVE HasRoom'
  <2>1. UNCHANGED <<queue, delivered, accepted>> /\ Len(accepted) < MaxPuts
    BY <1>2 DEF CallPut
  <2>2. QED
    BY <1>1, <2>1 DEF HasRoom
<1>3. ASSUME NEW p \in Putters, Put(p) PROVE HasRoom'
  <2>1. /\ Len(queue') = Len(queue) + 1 /\ Len(accepted') = Len(accepted) + 1
        /\ UNCHANGED delivered
    BY <1>3 DEF Put, TypeOK
  <2>2. p \in A /\ B = A \ {p}
    BY <1>3 DEF Put, Pending, TypeOK
  <2>3. Cardinality(B) = Cardinality(A) - 1
    BY <1>1, <2>2, FS_RemoveElement
  <2>4. QED
    BY <1>1, <2>1, <2>3 DEF HasRoom
<1>4. ASSUME UNCHANGED <<putting, accepted, queue, delivered>> PROVE HasRoom'
  BY <1>4 DEF HasRoom, Pending
<1>5. ASSUME NEW t \in Takers, Take(t) PROVE HasRoom'
  <2>1. CASE queue # <<>>
    <3>1. PICK x : x = Head(queue)
      OBVIOUS
    <3>2. x \in Values /\ delivered' = Append(delivered, x) /\ Len(queue') = Len(queue) - 1
          /\ UNCHANGED <<putting, accepted>>
      BY <1>5, <2>1, <3>1, HeadTailProperties DEF Take, TypeOK
    <3>3. Len(delivered') = Len(delivered) + 1
      BY <3>2 DEF TypeOK
    <3>4. B = A
      BY <3>2 DEF Pending
    <3>5. Len(queue') + Len(delivered') = Len(accepted')
      <4>1. Len(queue) \in Nat /\ Len(delivered) \in Nat
        BY <1>1
      <4>2. Len(queue) + Len(delivered) = Len(accepted) /\ Len(accepted') = Len(accepted)
        BY <3>2 DEF HasRoom
      <4>3. Len(queue') = Len(queue) - 1
        BY <3>2
      <4> QED
        BY <3>3, <4>1, <4>2, <4>3
    <3>6. QED
      BY <3>2, <3>4, <3>5 DEF HasRoom
  <2>2. CASE queue = <<>>
    BY <1>4, <1>5, <2>2 DEF Take
  <2>3. QED
    BY <2>1, <2>2
<1>6. ASSUME NEW t \in Takers, CallTake(t) PROVE HasRoom'
  BY <1>4, <1>6 DEF CallTake
<1>7. CASE SpuriousWakeup
  BY <1>4, <1>7 DEF SpuriousWakeup
<1>8. CASE UNCHANGED vars
  BY <1>4, <1>8 DEF vars
<1>9. QED
  BY <1>2, <1>3, <1>5, <1>6, <1>7, <1>8 DEF Next

\* Callers cannot tell the deque, its mutex and its condition variable from the
\* abstract FIFO: put and take are atomic, elements leave in the order they came,
\* and no take returns without one, also after a spurious wakeup.
THEOREM ImplementsFifo == Spec => Fifo!Safety
<1>1. Init => HasRoom
  <2> SUFFICES ASSUME Init PROVE HasRoom
    OBVIOUS
  <2>1. Pending = {}
    BY DEF Init, Pending
  <2>2. Cardinality(Pending) = 0
    BY <2>1, FS_EmptySet
  <2>3. QED
    BY <2>2, PendingFinite, ClientAssumption DEF Init, HasRoom
<1>2. Init => Fifo!Init
  BY DEF Init, Fifo!Init
<1>3. TypeOK /\ HasRoom /\ [Next]_vars => [Fifo!Next]_(Fifo!vars)
  <2> SUFFICES ASSUME TypeOK, HasRoom, [Next]_vars
               PROVE  Fifo!Next \/ UNCHANGED Fifo!vars
    OBVIOUS
  <2>1. ASSUME NEW p \in Putters, NEW x \in Values, CallPut(p, x) PROVE Fifo!CallPut(p, x)
    BY <2>1 DEF CallPut, Fifo!CallPut
  <2>2. ASSUME NEW p \in Putters, Put(p) PROVE Fifo!Put(p)
    <3>1. p \in Pending /\ Pending \ {p} \subseteq Putters
      BY <2>2 DEF Put, Pending
    <3>2. /\ Cardinality(Pending) >= 1
          /\ Cardinality(Pending) \in Nat /\ Cardinality(Putters) \in Nat
      <4>1. Cardinality(Pending) = Cardinality(Pending \ {p}) + 1
        BY <3>1, PendingFinite, FS_RemoveElement
      <4>2. QED
        BY <3>1, <4>1, PendingFinite DEF Pending
    <3>3. Len(queue) < MaxPuts + Cardinality(Putters)
      BY <3>2, ClientAssumption DEF HasRoom, TypeOK
    <3>4. QED
      BY <2>2, <3>3 DEF Put, Fifo!Put
  <2>3. ASSUME NEW t \in Takers, CallTake(t) PROVE Fifo!CallTake(t)
    BY <2>3 DEF CallTake, Fifo!CallTake
  <2>4. ASSUME NEW t \in Takers, Take(t) PROVE Fifo!Take(t) \/ UNCHANGED Fifo!vars
    BY <2>4 DEF Take, Fifo!Take, Fifo!vars
  <2>5. CASE SpuriousWakeup
    BY <2>5 DEF SpuriousWakeup, Fifo!vars
  <2>6. CASE UNCHANGED vars
    BY <2>6 DEF vars, Fifo!vars
  <2>7. QED
    BY <2>1, <2>2, <2>3, <2>4, <2>5, <2>6 DEF Next, Fifo!Next
<1>4. QED
  BY <1>1, <1>2, <1>3, HasRoomStep, TypeCorrect, PTL DEF Spec, Fifo!Safety
=============================================================================

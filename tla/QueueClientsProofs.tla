------------------------- MODULE QueueClientsProofs -------------------------
(***************************************************************************)
(* What BoundedBlockingQueue does for every capacity and any number of     *)
(* threads.                                                                *)
(***************************************************************************)
EXTENDS QueueClients, SequenceTheorems, FiniteSetTheorems, TLAPS

\* notify_one() takes at most one thread out of a condition variable.
LEMMA NotifyOneType ==
    ASSUME NEW cv, NEW new \in NotifyOne(cv)
    PROVE  /\ new \subseteq cv
           /\ cv = {} => new = {}
           /\ cv # {} => \E t \in cv : new = cv \ {t}
  BY DEF NotifyOne

\* What put does to the variables of the queue.
LEMMA PutDoneEffect ==
    ASSUME TypeOK, NEW x \in Values, PutDone(x)
    PROVE  /\ ringbuffer' = Append(ringbuffer, x) /\ ringbuffer' \in Seq(Values)
           /\ Len(ringbuffer') = Len(ringbuffer) + 1
           /\ Len(ringbuffer) < Capacity
           /\ notEmpty' \subseteq notEmpty
           /\ ringbuffer = <<>> /\ notEmpty # {} => notEmpty' # notEmpty
           /\ notFull' = notFull
  <1>1. Len(ringbuffer) \in Nat /\ Len(ringbuffer) < Capacity
    BY CapacityAssumption DEF TypeOK, PutDone, full
  <1>2. /\ ringbuffer' = Append(ringbuffer, x)
        /\ ringbuffer' \in Seq(Values)
        /\ Len(ringbuffer') = Len(ringbuffer) + 1
    BY DEF TypeOK, PutDone
  <1>3. ringbuffer = <<>> => Len(ringbuffer') = 1
    BY <1>2
  <1>4. notEmpty' \in NotifyOne(notEmpty) \/ notEmpty' = notEmpty
    BY DEF PutDone
  <1>5. ringbuffer = <<>> => notEmpty' \in NotifyOne(notEmpty)
    BY <1>3 DEF PutDone
  <1>6. notEmpty' \in NotifyOne(notEmpty) =>
            /\ notEmpty' \subseteq notEmpty
            /\ notEmpty # {} => notEmpty' # notEmpty
    BY DEF NotifyOne
  <1>7. QED
    BY <1>1, <1>2, <1>4, <1>5, <1>6 DEF PutDone

\* What take does to the variables of the queue.
LEMMA TakeDoneEffect ==
    ASSUME TypeOK, TakeDone
    PROVE  /\ ringbuffer # <<>> /\ front \in Values
           /\ ringbuffer' = Tail(ringbuffer) /\ ringbuffer' \in Seq(Values)
           /\ Len(ringbuffer') = Len(ringbuffer) - 1
           /\ Len(ringbuffer) \in Nat \ {0}
           /\ ringbuffer = <<front>> \o Tail(ringbuffer)
           /\ notFull' \in NotifyOne(notFull)
           /\ notEmpty' = notEmpty
  <1>1. ringbuffer \in Seq(Values) /\ ringbuffer # <<>>
    BY DEF TypeOK, TakeDone, empty
  <1>2. ringbuffer = <<front>> \o Tail(ringbuffer)
    BY <1>1 DEF front
  <1>3. QED
    BY <1>1, <1>2, HeadTailProperties, EmptySeq DEF TakeDone, front

-----------------------------------------------------------------------------
\* Every variable keeps its type; a thread sleeps only inside its own call.
LEMMA TypeStep == TypeOK /\ [Next]_vars => TypeOK'
  <1> SUFFICES ASSUME TypeOK, [Next]_vars PROVE TypeOK'
    OBVIOUS
  <1> USE ClientAssumption
  <1>1. ASSUME NEW p \in Putters, Put(p) PROVE TypeOK'
    <2>1. putting[p] \in Values
      BY <1>1 DEF TypeOK, Put
    <2>2. CASE PutDone(putting[p]) /\ accepted' = Append(accepted, putting[p])
                 /\ putting' = [putting EXCEPT ![p] = None]
      <3>1. Len(ringbuffer') <= Capacity
        BY <2>1, <2>2, PutDoneEffect, CapacityAssumption DEF TypeOK
      <3>2. accepted' \in Seq(Values)
        BY <2>1, <2>2 DEF TypeOK
      <3>3. QED
        BY <1>1, <2>1, <2>2, <3>1, <3>2, PutDoneEffect DEF TypeOK, Put
    <2>3. CASE PutWait(p) /\ UNCHANGED <<putting, accepted>>
      BY <1>1, <2>1, <2>3 DEF TypeOK, Put, PutWait
    <2>4. QED
      BY <1>1, <2>2, <2>3 DEF Put
  <1>2. ASSUME NEW p \in Putters, NEW x \in Values, CallPut(p, x) PROVE TypeOK'
    BY <1>2 DEF TypeOK, CallPut, queueVars
  <1>3. ASSUME NEW t \in Takers, Take(t) PROVE TypeOK'
    <2>1. CASE TakeDone /\ taking' = taking \ {t}
                 /\ delivered' = Append(delivered, front)
      <3>1. Len(ringbuffer') <= Capacity
        BY <2>1, TakeDoneEffect, CapacityAssumption DEF TypeOK
      <3>2. notFull' \subseteq notFull
        BY <2>1, TakeDoneEffect, NotifyOneType
      <3>3. delivered' \in Seq(Values)
        BY <2>1, TakeDoneEffect DEF TypeOK
      <3>4. QED
        BY <1>3, <2>1, <3>1, <3>2, <3>3, TakeDoneEffect DEF TypeOK, Take
    <2>2. CASE TakeWait(t) /\ UNCHANGED <<taking, delivered>>
      BY <1>3, <2>2 DEF TypeOK, Take, TakeWait
    <2>3. QED
      BY <1>3, <2>1, <2>2 DEF Take
  <1>4. ASSUME NEW t \in Takers, CallTake(t) PROVE TypeOK'
    BY <1>4 DEF TypeOK, CallTake, queueVars
  <1>5. CASE SpuriousWakeup /\ UNCHANGED callVars
    BY <1>5 DEF TypeOK, SpuriousWakeup, callVars
  <1>6. CASE UNCHANGED vars
    BY <1>6 DEF TypeOK, vars, queueVars, callVars
  <1>7. QED
    BY <1>1, <1>2, <1>3, <1>4, <1>5, <1>6 DEF Next

\* The queue never holds more than its capacity and only threads inside a call
\* sleep, for every capacity, 0 included.
THEOREM TypeCorrect == Spec => []TypeOK
  <1>1. Init => TypeOK
    BY CapacityAssumption, EmptySeq DEF Init, QueueInit, TypeOK
  <1>2. QED
    BY <1>1, TypeStep, PTL DEF Spec

-----------------------------------------------------------------------------
\* Elements leave the queue in the order they came: none is lost, duplicated or
\* overtaken, whatever the number of threads.
THEOREM FifoCorrect == Spec => []FifoOrder
  <1>1. Init => FifoOrder
    BY DEF Init, QueueInit, FifoOrder
  <1>2. TypeOK /\ FifoOrder /\ [Next]_vars => FifoOrder'
    <2> SUFFICES ASSUME TypeOK, FifoOrder, [Next]_vars PROVE FifoOrder'
      OBVIOUS
    <2>1. ASSUME NEW p \in Putters, Put(p) PROVE FifoOrder'
      <3>1. CASE PutDone(putting[p]) /\ accepted' = Append(accepted, putting[p])
        <4>1. putting[p] \in Values
          BY <2>1 DEF TypeOK, Put
        <4>2. Append(delivered \o ringbuffer, putting[p])
                = delivered \o Append(ringbuffer, putting[p])
          <5>1. delivered \in Seq(Values) /\ ringbuffer \in Seq(Values)
            BY DEF TypeOK
          <5>2. /\ delivered \o ringbuffer \in Seq(Values) /\ <<putting[p]>> \in Seq(Values)
                /\ Append(delivered \o ringbuffer, putting[p])
                     = (delivered \o ringbuffer) \o <<putting[p]>>
                /\ Append(ringbuffer, putting[p]) = ringbuffer \o <<putting[p]>>
            BY <4>1, <5>1, ConcatProperties, AppendIsConcat
          <5>3. (delivered \o ringbuffer) \o <<putting[p]>>
                  = delivered \o (ringbuffer \o <<putting[p]>>)
            BY <5>1, <5>2, ConcatAssociative
          <5>4. QED
            BY <5>2, <5>3
        <4>3. ringbuffer' = Append(ringbuffer, putting[p]) /\ delivered' = delivered
          BY <2>1, <3>1 DEF Put, PutDone
        <4>4. QED
          BY <3>1, <4>2, <4>3 DEF FifoOrder
      <3>2. CASE PutWait(p) /\ UNCHANGED <<putting, accepted>>
        BY <2>1, <3>2 DEF FifoOrder, Put, PutWait
      <3>3. QED
        BY <2>1, <3>1, <3>2 DEF Put
    <2>2. ASSUME NEW t \in Takers, Take(t) PROVE FifoOrder'
      <3>1. CASE /\ TakeDone
                 /\ delivered' = Append(delivered, front)
        <4> DEFINE h == front
                   rest == Tail(ringbuffer)
        <4>1. /\ h \in Values /\ rest \in Seq(Values) /\ delivered \in Seq(Values)
              /\ ringbuffer = <<h>> \o rest /\ ringbuffer' = rest
          BY <3>1, TakeDoneEffect DEF TypeOK
        <4> HIDE DEF h, rest
        <4>2. Append(delivered, h) \o rest = delivered \o (<<h>> \o rest)
          <5>1. <<h>> \in Seq(Values) /\ Append(delivered, h) = delivered \o <<h>>
            BY <4>1, AppendIsConcat
          <5>2. (delivered \o <<h>>) \o rest = delivered \o (<<h>> \o rest)
            BY <4>1, <5>1, ConcatAssociative
          <5>3. QED
            BY <5>1, <5>2
        <4>3. accepted' = accepted
          BY <2>2 DEF Take
        <4>4. delivered' = Append(delivered, h)
          BY <3>1 DEF h
        <4>5. QED
          BY <4>1, <4>2, <4>3, <4>4 DEF FifoOrder
      <3>2. CASE TakeWait(t) /\ UNCHANGED <<taking, delivered>>
        BY <2>2, <3>2 DEF FifoOrder, Take, TakeWait
      <3>3. QED
        BY <2>2, <3>1, <3>2 DEF Take
    <2>3. CASE UNCHANGED <<ringbuffer, accepted, delivered>>
      BY <2>3 DEF FifoOrder
    <2>4. QED
      BY <2>1, <2>2, <2>3 DEF Next, CallPut, CallTake, SpuriousWakeup,
                              vars, queueVars, callVars
  <1>3. QED
    BY <1>1, <1>2, TypeCorrect, PTL DEF Spec

-----------------------------------------------------------------------------
\* One notification per empty-to-non-empty step keeps a taker up, for any
\* number of takers.
THEOREM TakerAwake == Spec => []SomeTakerAwake
  <1>1. Init => SomeTakerAwake
    BY DEF Init, QueueInit, SomeTakerAwake
  <1>2. TypeOK /\ SomeTakerAwake /\ [Next]_vars => SomeTakerAwake'
    <2> SUFFICES ASSUME TypeOK, SomeTakerAwake, [Next]_vars
                 PROVE  SomeTakerAwake'
      OBVIOUS
    <2> USE ClientAssumption DEF SomeTakerAwake
    <2>1. notEmpty \subseteq Takers
      BY DEF TypeOK
    <2>2. ASSUME NEW p \in Putters, Put(p) PROVE SomeTakerAwake'
      <3>1. CASE PutDone(putting[p])
        <4>1. putting[p] \in Values
          BY <2>2 DEF TypeOK, Put
        <4>2. /\ notEmpty' \subseteq notEmpty
              /\ ringbuffer = <<>> /\ notEmpty # {} => notEmpty' # notEmpty
          BY <3>1, <4>1, PutDoneEffect
        <4>3. QED
          BY <2>1, <4>2
      <3>2. CASE PutWait(p)
        BY <3>2 DEF PutWait
      <3>3. QED
        BY <2>2, <3>1, <3>2 DEF Put
    <2>3. ASSUME NEW t \in Takers, Take(t) PROVE SomeTakerAwake'
      BY <2>3 DEF Take, TakeDone, TakeWait, empty
    <2>4. CASE SpuriousWakeup
      BY <2>1, <2>4 DEF SpuriousWakeup
    <2>5. CASE UNCHANGED queueVars
      BY <2>5 DEF queueVars
    <2>6. QED
      BY <2>2, <2>3, <2>4, <2>5 DEF Next, CallPut, CallTake, vars
  <1>3. QED
    BY <1>1, <1>2, TypeCorrect, PTL DEF Spec

-----------------------------------------------------------------------------
\* The set AwakePutters is finite, and so has a cardinality.
LEMMA AwakePuttersFinite ==
    ASSUME NEW S, S \subseteq Putters
    PROVE  IsFiniteSet(S) /\ Cardinality(S) \in Nat
  BY ClientAssumption, FS_Subset, FS_CardinalityType

\* No wakeup of a putter is lost: while one sleeps, each free place of the ring
\* has an awake putter that is on its way to it.
THEOREM NotFullCorrect == Spec => []NoLostNotFull
  <1>1. Init => NoLostNotFull
    BY DEF Init, QueueInit, NoLostNotFull
  <1>2. TypeOK /\ NoLostNotFull /\ [Next]_vars => NoLostNotFull'
    <2> SUFFICES ASSUME TypeOK, NoLostNotFull, [Next]_vars,
                        notFull' # {}
                 PROVE  Capacity - Len(ringbuffer')
                            <= Cardinality(AwakePutters)'
      BY DEF NoLostNotFull
    <2> DEFINE A == AwakePutters
               B == AwakePutters'
    <2>1. TypeOK'
      BY TypeStep
    <2>2. /\ A \subseteq Putters /\ B \subseteq Putters
          /\ Capacity \in Nat /\ Len(ringbuffer) \in Nat
          /\ Len(ringbuffer') \in Nat /\ Len(ringbuffer') <= Capacity
          /\ notFull \subseteq Putters /\ notFull' \subseteq Putters
      BY <2>1, CapacityAssumption DEF TypeOK, AwakePutters
    <2>3. /\ IsFiniteSet(A) /\ Cardinality(A) \in Nat
          /\ IsFiniteSet(B) /\ Cardinality(B) \in Nat
      BY <2>2, AwakePuttersFinite
    <2>4. ASSUME A \subseteq B, Len(ringbuffer') = Len(ringbuffer),
                 notFull # {}
          PROVE  Capacity - Len(ringbuffer') <= Cardinality(B)
      <3>1. Cardinality(A) <= Cardinality(B)
        BY <2>3, <2>4, FS_Subset
      <3>2. QED
        BY <2>2, <2>3, <2>4, <3>1 DEF NoLostNotFull
    <2>5. ASSUME NEW p \in Putters, Put(p)
          PROVE  Capacity - Len(ringbuffer') <= Cardinality(B)
      <3>1. CASE PutDone(putting[p]) /\ putting' = [putting EXCEPT ![p] = None]
        <4>1. putting[p] \in Values /\ putting[p] # None
          BY <2>5 DEF TypeOK, Put
        <4>2. Len(ringbuffer') = Len(ringbuffer) + 1 /\ notFull' = notFull
          BY <3>1, <4>1, PutDoneEffect
        <4>3. p \in A /\ B = A \ {p}
          BY <2>5, <3>1, <4>1, <4>2 DEF TypeOK, Put, AwakePutters
        <4>4. Cardinality(B) = Cardinality(A) - 1
          BY <2>3, <4>3, FS_RemoveElement
        <4>5. QED
          BY <2>2, <2>3, <4>2, <4>4 DEF NoLostNotFull
      <3>2. CASE PutWait(p)
        BY <2>2, <2>3, <3>2 DEF PutWait, full
      <3>3. QED
        BY <2>5, <3>1, <3>2 DEF Put
    <2>6. ASSUME NEW t \in Takers, Take(t)
          PROVE  Capacity - Len(ringbuffer') <= Cardinality(B)
      <3>1. CASE TakeDone
        <4>1. /\ Len(ringbuffer') = Len(ringbuffer) - 1
              /\ notFull' \in NotifyOne(notFull)
          BY <3>1, TakeDoneEffect
        <4>2. PICK s \in notFull : notFull' = notFull \ {s}
          BY <4>1, NotifyOneType
        <4>3. putting' = putting
          BY <2>6 DEF Take
        <4>4. s \notin A /\ B = A \cup {s}
          BY <4>2, <4>3 DEF TypeOK, AwakePutters
        <4>5. Cardinality(B) = Cardinality(A) + 1
          BY <2>3, <4>4, FS_AddElement
        <4>6. QED
          BY <2>2, <2>3, <4>1, <4>2, <4>5 DEF NoLostNotFull
      <3>2. CASE TakeWait(t)
        <4>1. A = B /\ UNCHANGED <<ringbuffer, notFull>>
          BY <2>6, <3>2 DEF Take, TakeWait, AwakePutters
        <4>2. QED
          BY <2>4, <4>1
      <3>3. QED
        BY <2>6, <3>1, <3>2 DEF Take
    <2>7. ASSUME NEW p \in Putters, NEW x \in Values, CallPut(p, x)
          PROVE  Capacity - Len(ringbuffer') <= Cardinality(B)
      <3>1. UNCHANGED <<ringbuffer, notFull>>
        BY <2>7 DEF CallPut, queueVars
      <3>2. A \subseteq B
        BY <2>7, <3>1, ClientAssumption DEF TypeOK, CallPut, AwakePutters
      <3>3. QED
        BY <2>4, <3>1, <3>2
    <2>8. CASE SpuriousWakeup /\ UNCHANGED callVars
      <3>1. A \subseteq B /\ notFull' \subseteq notFull /\ ringbuffer' = ringbuffer
        BY <2>8 DEF SpuriousWakeup, callVars, AwakePutters
      <3>2. QED
        BY <2>4, <3>1
    <2>9. CASE UNCHANGED <<queueVars, putting>>
      <3>1. A = B /\ UNCHANGED <<ringbuffer, notFull>>
        BY <2>9 DEF AwakePutters, queueVars
      <3>2. QED
        BY <2>4, <3>1
    <2>10. QED
      BY <2>5, <2>6, <2>7, <2>8, <2>9 DEF Next, CallTake, vars, callVars
  <1>3. QED
    BY <1>1, <1>2, TypeCorrect, PTL DEF Spec

-----------------------------------------------------------------------------
\* The queue implements the abstract bounded FIFO, its safety part: the mutex,
\* the condition variables and the spurious wakeups are invisible to callers.
THEOREM ImplementsFifo == Spec => FifoSafety
  <1>1. Init => Fifo!Init
    BY DEF Init, QueueInit, Fifo!Init
  <1>2. TypeOK /\ [Next]_vars => [Fifo!Next]_(Fifo!vars)
    <2> SUFFICES ASSUME TypeOK, [Next]_vars
                 PROVE  Fifo!Next \/ UNCHANGED Fifo!vars
      OBVIOUS
    <2> USE DEF Fifo!vars, Fifo!Next
    <2>1. ASSUME NEW p \in Putters, Put(p)
          PROVE  Fifo!Next \/ UNCHANGED Fifo!vars
      <3>1. CASE /\ PutDone(putting[p])
                 /\ accepted' = Append(accepted, putting[p])
                 /\ putting' = [putting EXCEPT ![p] = None]
        <4>1. Len(ringbuffer) < Capacity
          BY <3>1, CapacityAssumption DEF TypeOK, PutDone, full
        <4>2. Fifo!Put(p)
          BY <2>1, <3>1, <4>1 DEF Put, PutDone, Fifo!Put
        <4>3. QED
          BY <4>2
      <3>2. CASE PutWait(p) /\ UNCHANGED <<putting, accepted>>
        BY <2>1, <3>2 DEF Put, PutWait
      <3>3. QED
        BY <2>1, <3>1, <3>2 DEF Put
    <2>2. ASSUME NEW p \in Putters, NEW x \in Values, CallPut(p, x)
          PROVE  Fifo!Next
      <3>1. Fifo!CallPut(p, x)
        BY <2>2 DEF CallPut, Fifo!CallPut, queueVars
      <3>2. QED
        BY <3>1
    <2>3. ASSUME NEW t \in Takers, Take(t)
          PROVE  Fifo!Next \/ UNCHANGED Fifo!vars
      <3>1. CASE /\ TakeDone
                 /\ delivered' = Append(delivered, front)
                 /\ taking' = taking \ {t}
        <4>1. Fifo!Take(t)
          BY <2>3, <3>1 DEF Take, TakeDone, empty, front, Fifo!Take
        <4>2. QED
          BY <4>1
      <3>2. CASE TakeWait(t) /\ UNCHANGED <<taking, delivered>>
        BY <2>3, <3>2 DEF Take, TakeWait
      <3>3. QED
        BY <2>3, <3>1, <3>2 DEF Take
    <2>4. ASSUME NEW t \in Takers, CallTake(t) PROVE Fifo!Next
      <3>1. Fifo!CallTake(t)
        BY <2>4 DEF CallTake, Fifo!CallTake, queueVars
      <3>2. QED
        BY <3>1
    <2>5. CASE SpuriousWakeup /\ UNCHANGED callVars
      BY <2>5 DEF SpuriousWakeup, callVars
    <2>6. CASE UNCHANGED vars
      BY <2>6 DEF vars, queueVars, callVars
    <2>7. QED
      BY <2>1, <2>2, <2>3, <2>4, <2>5, <2>6 DEF Next
  <1>3. QED
    BY <1>1, <1>2, TypeCorrect, PTL DEF Spec, FifoSafety, Fifo!Safety
=============================================================================

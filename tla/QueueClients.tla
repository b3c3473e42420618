---------------------------- MODULE QueueClients ----------------------------
(***************************************************************************)
(* A BoundedBlockingQueue and the threads that share it.  In the program:  *)
(*  - taskchan: the HTTP handler and main put, the Pushing thread takes;   *)
(*  - ThreadPool::queue_: ConsumeLoop and main put, the workers take.      *)
(* A call is two steps, because other threads run between the call and the *)
(* moment the thread gets the mutex.                                       *)
(***************************************************************************)
EXTENDS BoundedBlockingQueue, FiniteSets

CONSTANTS Putters,    \* the threads that call put
          Takers,     \* the threads that call take
          Values,     \* the elements
          None,       \* no call in progress
          MaxPuts     \* bound: no put is called once this many were accepted

ASSUME ClientAssumption == /\ IsFiniteSet(Putters)
                           /\ Takers # {}
                           /\ None \notin Values
                           /\ MaxPuts \in Nat

VARIABLES putting,    \* the argument of each putter's call of put, or None
          taking,     \* the takers inside a call of take
          accepted,   \* history: every element pushed, in order
          delivered   \* history: every element returned by take, in order

callVars == <<putting, taking, accepted, delivered>>
vars == <<queueVars, callVars>>

Init == /\ QueueInit
        /\ putting = [p \in Putters |-> None]
        /\ taking = {}
        /\ accepted = <<>> /\ delivered = <<>>

CallPut(p, x) == /\ putting[p] = None
                 /\ Len(accepted) < MaxPuts
                 /\ putting' = [putting EXCEPT ![p] = x]
                 /\ UNCHANGED <<queueVars, taking, accepted, delivered>>

\* The thread of p runs inside put: it pushes and returns, or it sleeps.
Put(p) == /\ putting[p] # None
          /\ p \notin notFull
          /\ \/ /\ PutDone(putting[p])
                /\ accepted' = Append(accepted, putting[p])
                /\ putting' = [putting EXCEPT ![p] = None]
             \/ PutWait(p) /\ UNCHANGED <<putting, accepted>>
          /\ UNCHANGED <<taking, delivered>>

CallTake(t) == /\ t \notin taking
               /\ taking' = taking \cup {t}
               /\ UNCHANGED <<queueVars, putting, accepted, delivered>>

\* The thread of t runs inside take: it returns the front, or it sleeps.
Take(t) == /\ t \in taking
           /\ t \notin notEmpty
           /\ \/ /\ TakeDone
                 /\ delivered' = Append(delivered, front)
                 /\ taking' = taking \ {t}
              \/ TakeWait(t) /\ UNCHANGED <<taking, delivered>>
           /\ UNCHANGED <<putting, accepted>>

Next == \/ \E p \in Putters : Put(p) \/ \E x \in Values : CallPut(p, x)
        \/ \E t \in Takers : Take(t) \/ CallTake(t)
        \/ SpuriousWakeup /\ UNCHANGED callVars

Spec == Init /\ [][Next]_vars

\* The scheduler runs every thread that is awake inside a call.  Nobody has
\* to make a call, and nobody may count on a spurious wakeup.
FairSpec == /\ Spec
            /\ \A p \in Putters : WF_vars(Put(p))
            /\ \A t \in Takers : WF_vars(Take(t))

-----------------------------------------------------------------------------
\* The putters inside put that are not asleep: the next to get the mutex.
AwakePutters == {p \in Putters : putting[p] # None} \ notFull

\* Every variable has its type, only a thread inside a call can be asleep,
\* and the ring buffer never holds more than its capacity.
TypeOK == /\ ringbuffer \in Seq(Values) /\ Len(ringbuffer) <= Capacity
          /\ putting \in [Putters -> Values \cup {None}]
          /\ taking \subseteq Takers
          /\ accepted \in Seq(Values) /\ delivered \in Seq(Values)
          /\ notEmpty \subseteq taking
          /\ notFull \subseteq {p \in Putters : putting[p] # None}

\* Whatever the interleaving, take returns the elements that put pushed, in
\* that order, each of them once, and what is missing is in the buffer.
FifoOrder == accepted = delivered \o ringbuffer

\* put notifies notEmpty_ only on the step from empty to one element.  That is
\* enough to keep one taker up: the buffer is never non-empty with every
\* taker asleep.
SomeTakerAwake == ringbuffer # <<>> => notEmpty # Takers

\* take notifies notFull_ once per freed place.  That is enough for putters:
\* while one of them sleeps, every free place has an awake putter to fill it,
\* even if newcomers push into the place before the notified one runs.
NoLostNotFull ==
    notFull # {} => Capacity - Len(ringbuffer) <= Cardinality(AwakePutters)

\* The queue is a bounded FIFO: every step is a step of BoundedFifo.
Fifo == INSTANCE BoundedFifo WITH items <- ringbuffer
FifoSafety == Fifo!Safety

\* ... and it keeps the promise that puts and takes which can happen do happen.
FifoPromise == Fifo!Spec
=============================================================================

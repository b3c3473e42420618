---------------------------- MODULE BlockingQueue ----------------------------
(***************************************************************************)
(* The class template BlockingQueue<T> of base/BlockingQueue.hpp, which no *)
(* file of the program uses yet, and the threads that could share it: an   *)
(* unbounded deque, one mutex, one condition variable.  Every put notifies *)
(* one taker, where BoundedBlockingQueue notifies for the first element    *)
(* only: this is the queue that suits several takers.                      *)
(***************************************************************************)
EXTENDS Naturals, Sequences, FiniteSets

CONSTANTS Putters, Takers, Values, None,
          MaxPuts     \* bound: no put is called once this many were accepted

ASSUME ClientAssumption == /\ IsFiniteSet(Putters) /\ IsFiniteSet(Takers)
                           /\ None \notin Values
                           /\ MaxPuts \in Nat

VARIABLES queue,      \* the elements, the oldest first
          cond,       \* the threads asleep in cond_ (inside take)
          putting,    \* the argument of each putter's call of put, or None
          taking,     \* the takers inside a call of take
          accepted,   \* history: every element pushed, in order
          delivered   \* history: every element returned by take, in order

vars == <<queue, cond, putting, taking, accepted, delivered>>

Init == /\ queue = <<>> /\ cond = {}
        /\ putting = [p \in Putters |-> None] /\ taking = {}
        /\ accepted = <<>> /\ delivered = <<>>

CallPut(p, x) == /\ putting[p] = None
                 /\ Len(accepted) < MaxPuts
                 /\ putting' = [putting EXCEPT ![p] = x]
                 /\ UNCHANGED <<queue, cond, taking, accepted, delivered>>

PutOfEmpty(p) == /\ putting[p] # None                             \* a mutant
                 /\ queue' = Append(queue, putting[p])
                 /\ accepted' = Append(accepted, putting[p])
                 /\ putting' = [putting EXCEPT ![p] = None]
                 /\ \/ (cond = {} \/ queue # <<>>) /\ UNCHANGED cond
                    \/ /\ queue = <<>>
                       /\ \E t \in cond : cond' = cond \ {t}
                 /\ UNCHANGED <<taking, delivered>>
Put(p) == /\ putting[p] # None
          /\ queue' = Append(queue, putting[p])
          /\ accepted' = Append(accepted, putting[p])
          /\ putting' = [putting EXCEPT ![p] = None]
          /\ \/ cond = {} /\ UNCHANGED cond
             \/ \E t \in cond : cond' = cond \ {t}
          /\ UNCHANGED <<taking, delivered>>

CallTake(t) == /\ t \notin taking
               /\ taking' = taking \cup {t}
               /\ UNCHANGED <<queue, cond, putting, accepted, delivered>>

TakeUnchecked(t) == /\ t \in taking                               \* a mutant
                    /\ delivered' = Append(delivered,
                           IF queue = <<>> THEN None ELSE Head(queue))
                    /\ queue' = IF queue = <<>> THEN <<>> ELSE Tail(queue)
                    /\ taking' = taking \ {t} /\ cond' = cond \ {t}
                    /\ UNCHANGED <<putting, accepted>>
TakeBack(t) == /\ t \in taking /\ t \notin cond                   \* a mutant
               /\ \/ /\ queue # <<>>
                     /\ queue' = SubSeq(queue, 1, Len(queue) - 1)
                     /\ delivered' = Append(delivered, queue[Len(queue)])
                     /\ taking' = taking \ {t} /\ UNCHANGED cond
                  \/ /\ queue = <<>> /\ cond' = cond \cup {t}
                     /\ UNCHANGED <<queue, taking, delivered>>
               /\ UNCHANGED <<putting, accepted>>
Take(t) == /\ t \in taking /\ t \notin cond
           /\ \/ /\ queue # <<>>
                 /\ queue' = Tail(queue)
                 /\ delivered' = Append(delivered, Head(queue))
                 /\ taking' = taking \ {t}
                 /\ UNCHANGED cond
              \/ /\ queue = <<>>
                 /\ cond' = cond \cup {t}
                 /\ UNCHANGED <<queue, taking, delivered>>
           /\ UNCHANGED <<putting, accepted>>

SpuriousWakeup == /\ \E t \in cond : cond' = cond \ {t}
                  /\ UNCHANGED <<queue, putting, taking, accepted, delivered>>

Next == \/ \E p \in Putters : Put(p) \/ \E x \in Values : CallPut(p, x)
        \/ \E t \in Takers : Take(t) \/ CallTake(t)
        \/ SpuriousWakeup

Spec == Init /\ [][Next]_vars

\* The scheduler runs every thread that is awake inside a call.
FairSpec == /\ Spec
            /\ \A p \in Putters : WF_vars(Put(p))
            /\ \A t \in Takers : WF_vars(Take(t))

-----------------------------------------------------------------------------
\* The takers inside take that are not asleep: the next to get the mutex.
AwakeTakers == taking \ cond

\* Every variable has its type, and only a thread inside take can be asleep.
TypeOK == /\ queue \in Seq(Values)
          /\ putting \in [Putters -> Values \cup {None}]
          /\ taking \subseteq Takers /\ cond \subseteq taking
          /\ accepted \in Seq(Values) /\ delivered \in Seq(Values)

\* One notification per put is enough for any number of takers: while one
\* sleeps, every element has an awake taker on its way to it, also when another
\* taker overtakes the notified one.
NoLostElement == cond # {} => Len(queue) <= Cardinality(AwakeTakers)

\* The queue is a FIFO without a bound that matters, and keeps its promise for
\* several takers: puts and takes that can happen do happen.
Fifo == INSTANCE BoundedFifo
            WITH items <- queue, Capacity <- MaxPuts + Cardinality(Putters)
FifoPromise == Fifo!Spec
=============================================================================

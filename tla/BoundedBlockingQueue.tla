------------------------ MODULE BoundedBlockingQueue ------------------------
(***************************************************************************)
(* The class template BoundedBlockingQueue<T> of                           *)
(* base/BoundedBlockingQueue.hpp: a ring buffer of Capacity elements, one  *)
(* mutex and two condition variables.  A critical section is one atomic    *)
(* step.  A condition variable is the set of threads asleep in it; a       *)
(* notified thread leaves the set, and evaluates its predicate again when  *)
(* it next gets the mutex, as wait(lock, pred) does.                       *)
(*                                                                         *)
(* The module has the operations and no specification of its own: the      *)
(* modules that extend it say which threads call them.                     *)
(***************************************************************************)
EXTENDS Naturals, Sequences

CONSTANT Capacity      \* maxSize, which no caller validates: it may be 0

ASSUME CapacityAssumption == Capacity \in Nat

VARIABLES ringbuffer,  \* the buffered elements, the oldest first
          notEmpty,    \* the threads asleep in notEmpty_ (inside take)
          notFull      \* the threads asleep in notFull_ (inside put)

queueVars == <<ringbuffer, notEmpty, notFull>>

QueueInit == ringbuffer = <<>> /\ notEmpty = {} /\ notFull = {}

empty == ringbuffer = <<>>

Overcommitted == Len(ringbuffer) > Capacity                       \* a mutant
full == Len(ringbuffer) >= Capacity

\* The values a condition variable can have after notify_one().
NotifyOne(cv) == IF cv = {} THEN {{}} ELSE {cv \ {t} : t \in cv}

\* put, once the predicate holds: push, and notify notEmpty_ only when the
\* element is the only one of the buffer.
PutFront(x) == /\ ~full                                           \* a mutant
               /\ ringbuffer' = <<x>> \o ringbuffer
               /\ notEmpty' \in NotifyOne(notEmpty)
               /\ UNCHANGED notFull
PutTested(x) == /\ ~full                                          \* a mutant
                /\ ringbuffer' = Append(ringbuffer, x)
                /\ notEmpty' \in IF Len(ringbuffer) = 1
                                 THEN NotifyOne(notEmpty) ELSE {notEmpty}
                /\ UNCHANGED notFull
PutDone(x) == /\ ~full
              /\ ringbuffer' = Append(ringbuffer, x)
              /\ notEmpty' \in IF Len(ringbuffer') = 1
                               THEN NotifyOne(notEmpty) ELSE {notEmpty}
              /\ UNCHANGED notFull

\* put, when the predicate is false: thread t releases the mutex and sleeps.
PutWait(t) == /\ full
              /\ notFull' = notFull \cup {t}
              /\ UNCHANGED <<ringbuffer, notEmpty>>

\* take, once the predicate holds: front is the element returned.
front == Head(ringbuffer)
TakeOfFull == /\ ~empty                                           \* a mutant
              /\ ringbuffer' = Tail(ringbuffer)
              /\ notFull' \in IF full THEN NotifyOne(notFull) ELSE {notFull}
              /\ UNCHANGED notEmpty
TakeDone == /\ ~empty
            /\ ringbuffer' = Tail(ringbuffer)
            /\ notFull' \in NotifyOne(notFull)
            /\ UNCHANGED notEmpty

\* take, when the predicate is false.
TakeWait(t) == /\ empty
               /\ notEmpty' = notEmpty \cup {t}
               /\ UNCHANGED <<ringbuffer, notFull>>

\* std::condition_variable may wake a thread nobody notified.
SpuriousWakeup ==
    \/ \E t \in notEmpty : /\ notEmpty' = notEmpty \ {t}
                           /\ UNCHANGED <<ringbuffer, notFull>>
    \/ \E t \in notFull : /\ notFull' = notFull \ {t}
                          /\ UNCHANGED <<ringbuffer, notEmpty>>
=============================================================================

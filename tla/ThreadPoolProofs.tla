-------------------------- MODULE ThreadPoolProofs --------------------------
(***************************************************************************)
(* What ThreadPool does for every number of workers, every capacity of its *)
(* queue and any set of tasks, those that never return included.           *)
(***************************************************************************)
EXTENDS ThreadPool, SequenceTheorems, FiniteSetTheorems, TLAPS

\* The part of the invariant that is about control: where the threads can be,
\* given where main is.
ControlType == /\ IsRunning \in BOOLEAN
               /\ pc \in [Workers -> {"unborn", "loop", "take", "run", "exited"}]
               /\ main \in {"new", "starting", "up", "stopping", "joining", "stopped"}
               /\ joining \in 0..(maxThreads + 1)
               /\ late \in [Workers -> Nat]

RunsWhenUp == IsRunning <=> main \in {"starting", "up"}

BornAndGone == \A w \in Workers :
    /\ main = "new" => pc[w] = "unborn"
    /\ pc[w] = "unborn" => main \in {"new", "starting"}
    /\ pc[w] = "exited" => main \notin {"starting", "up"}

\* A worker takes nothing late before Stop, and has taken nothing late when it is
\* about to take.
TakesOnce == \A w \in Workers : /\ main \in {"new", "starting", "up"} => late[w] = 0
                                /\ pc[w] = "take" => late[w] = 0
                                /\ late[w] <= 1

\* Stop joins the workers one after another.
Joined == /\ main \in {"stopping", "joining", "stopped"} =>
                /\ joining \in 1..(maxThreads + 1)
                /\ \A w \in Workers : w < joining => pc[w] = "exited"
          /\ main = "joining" => joining \in Workers
          /\ main = "stopped" => joining \notin Workers

Control == ControlType /\ RunsWhenUp /\ BornAndGone /\ TakesOnce /\ Joined

LEMMA ControlInit == Init => Control
<1> SUFFICES ASSUME Init PROVE Control
  OBVIOUS
<1>1. ControlType
  <2>1. IsRunning \in BOOLEAN
    BY DEF Init
  <2>2. joining \in 0..(maxThreads + 1)
    BY PoolAssumption DEF Init
  <2>3. QED
    BY <2>1, <2>2 DEF Init, ControlType
<1>2. RunsWhenUp
  BY DEF Init, RunsWhenUp
<1>3. BornAndGone /\ TakesOnce /\ Joined
  BY DEF Init, BornAndGone, TakesOnce, Joined
<1>4. QED
  BY <1>1, <1>2, <1>3 DEF Control

-----------------------------------------------------------------------------
\* The main thread.
LEMMA ControlMain == ASSUME Control, MainThread PROVE Control'
<1> USE PoolAssumption DEF Control
<1>1. CASE Start \/ StartReturn
  <2>1. ControlType' /\ RunsWhenUp'
    BY <1>1 DEF Start, StartReturn, ControlType, RunsWhenUp
  <2>2. BornAndGone' /\ TakesOnce' /\ Joined'
    BY <1>1 DEF Start, StartReturn, ControlType, BornAndGone, TakesOnce, Joined
  <2>3. QED
    BY <2>1, <2>2
<1>2. CASE Stop
  <2>1. IsRunning' \in BOOLEAN /\ RunsWhenUp'
    BY <1>2 DEF Stop, RunsWhenUp
  <2>2. joining' \in 0..(maxThreads + 1)
    BY <1>2 DEF Stop
  <2>3. ControlType'
    BY <1>2, <2>1, <2>2 DEF Stop, ControlType
  <2>4. BornAndGone' /\ TakesOnce'
    BY <1>2 DEF Stop, ControlType, BornAndGone, TakesOnce
  <2>5. Joined'
    BY <1>2 DEF Stop, ControlType, Joined, Workers
  <2>6. QED
    BY <2>1, <2>3, <2>4, <2>5
<1>3. CASE StopPut
  <2>1. ControlType' /\ RunsWhenUp'
    BY <1>3 DEF StopPut, ControlType, RunsWhenUp
  <2>2. BornAndGone' /\ TakesOnce' /\ Joined'
    BY <1>3 DEF StopPut, ControlType, BornAndGone, TakesOnce, Joined
  <2>3. QED
    BY <2>1, <2>2
<1>4. CASE StopJoin
  <2>1. joining \in Workers /\ joining' = joining + 1 /\ pc[joining] = "exited"
    BY <1>4 DEF StopJoin, Joined
  <2>2. ControlType' /\ RunsWhenUp'
    BY <1>4, <2>1 DEF StopJoin, ControlType, RunsWhenUp, Workers
  <2>3. BornAndGone' /\ TakesOnce'
    BY <1>4 DEF StopJoin, ControlType, BornAndGone, TakesOnce
  <2>4. Joined'
    BY <1>4, <2>1 DEF StopJoin, ControlType, Joined, Workers
  <2>5. QED
    BY <2>2, <2>3, <2>4
<1>5. CASE StopReturn
  <2>1. ControlType' /\ RunsWhenUp'
    BY <1>5 DEF StopReturn, ControlType, RunsWhenUp
  <2>2. BornAndGone' /\ TakesOnce' /\ Joined'
    BY <1>5 DEF StopReturn, ControlType, BornAndGone, TakesOnce, Joined
  <2>3. QED
    BY <2>1, <2>2
<1>6. ASSUME NEW w \in Workers, Spawn(w) PROVE Control'
  <2>1. ControlType' /\ RunsWhenUp'
    BY <1>6 DEF Spawn, ControlType, RunsWhenUp
  <2>2. BornAndGone' /\ TakesOnce' /\ Joined'
    BY <1>6 DEF Spawn, ControlType, BornAndGone, TakesOnce, Joined
  <2>3. QED
    BY <2>1, <2>2
<1>7. QED
  BY <1>1, <1>2, <1>3, <1>4, <1>5, <1>6 DEF MainThread, Starting, Stopping

\* A worker.
LEMMA ControlWorker ==
    ASSUME Control, NEW w \in Workers, RunInLoop(w) PROVE Control'
<1> USE PoolAssumption DEF Control
<1>1. CASE Check(w)
  <2>1. ControlType' /\ RunsWhenUp'
    BY <1>1 DEF Check, ControlType, RunsWhenUp
  <2>2. IsRunning <=> main \in {"starting", "up"}
    BY DEF RunsWhenUp
  <2>3. main # "new"
    BY <1>1 DEF Check, BornAndGone
  <2>4. pc[w] = "loop" /\ pc'[w] \in {"take", "exited"}
    BY <1>1 DEF Check, ControlType
  <2>5. \A v \in Workers : v # w => pc'[v] = pc[v]
    BY <1>1 DEF Check, ControlType
  <2>6. pc'[w] = "take" => main \in {"starting", "up"}
    BY <1>1, <2>2 DEF Check, ControlType
  <2>7. pc'[w] = "exited" => main \notin {"starting", "up"}
    BY <1>1, <2>2 DEF Check, ControlType
  <2>8. UNCHANGED <<main, late, joining>>
    BY <1>1 DEF Check
  <2>9. BornAndGone' /\ TakesOnce' /\ Joined'
    BY <2>3, <2>4, <2>5, <2>6, <2>7, <2>8 DEF BornAndGone, TakesOnce, Joined
  <2>10. QED
    BY <2>1, <2>9
<1>2. CASE Take(w)
  <2>1. CASE UNCHANGED <<pc, late>>
    BY <1>2, <2>1 DEF Take, ControlType, RunsWhenUp, BornAndGone, TakesOnce, Joined
  <2>2. CASE /\ pc' = [pc EXCEPT ![w] = IF front = Exit THEN "loop" ELSE "run"]
             /\ late' = IF IsRunning THEN late ELSE [late EXCEPT ![w] = @ + 1]
    <3>1. pc[w] = "take" /\ UNCHANGED <<IsRunning, main, joining>>
      BY <1>2 DEF Take
    <3>2. late[w] = 0
      BY <3>1 DEF TakesOnce
    <3>3. pc'[w] \in {"loop", "run"} /\ \A v \in Workers : v # w => pc'[v] = pc[v]
      BY <2>2 DEF ControlType
    <3>4. \A v \in Workers : v # w => late'[v] = late[v]
      BY <2>2 DEF ControlType
    <3>5. late'[w] = IF IsRunning THEN 0 ELSE 1
      BY <2>2, <3>2 DEF ControlType
    <3>6. ControlType' /\ RunsWhenUp'
      BY <2>2, <3>1 DEF ControlType, RunsWhenUp
    <3>7. main \in {"starting", "up"} => IsRunning
      BY DEF RunsWhenUp
    <3>8. main # "new"
      BY <3>1 DEF BornAndGone
    <3>9. late'[w] \in {0, 1} /\ (main \in {"starting", "up"} => late'[w] = 0)
      BY <3>5, <3>7
    <3>10. BornAndGone' /\ TakesOnce' /\ Joined'
      BY <3>1, <3>3, <3>4, <3>8, <3>9 DEF BornAndGone, TakesOnce, Joined
    <3>11. QED
      BY <3>6, <3>10
  <2>3. QED
    BY <1>2, <2>1, <2>2 DEF Take
<1>3. CASE Run(w)
  <2>1. ControlType' /\ RunsWhenUp'
    BY <1>3 DEF Run, ControlType, RunsWhenUp
  <2>2. BornAndGone' /\ TakesOnce' /\ Joined'
    BY <1>3 DEF Run, ControlType, BornAndGone, TakesOnce, Joined
  <2>3. QED
    BY <2>1, <2>2
<1>4. QED
  BY <1>1, <1>2, <1>3 DEF RunInLoop

\* The queue and the submitter do not touch Control.
LEMMA ControlStep == Control /\ [Next]_vars => Control'
<1> SUFFICES ASSUME Control, [Next]_vars PROVE Control'
  OBVIOUS
<1>1. CASE UNCHANGED <<IsRunning, pc, main, joining, late>>
  <2>1. ControlType' /\ RunsWhenUp'
    BY <1>1 DEF Control, ControlType, RunsWhenUp
  <2>2. BornAndGone' /\ TakesOnce' /\ Joined'
    BY <1>1 DEF Control, BornAndGone, TakesOnce, Joined
  <2>3. QED
    BY <2>1, <2>2 DEF Control
<1>2. ASSUME NEW w \in Workers, RunInLoop(w) PROVE Control'
  BY <1>2, ControlWorker
<1>3. CASE MainThread
  BY <1>3, ControlMain
<1>4. QED
  BY <1>1, <1>2, <1>3 DEF Next, Submit, PutTask, vars, poolVars

LEMMA ControlInv == Spec => []Control
  BY ControlInit, ControlStep, PTL DEF Spec

-----------------------------------------------------------------------------
(* The types of the queue and of the elements.                             *)

Element == Tasks \cup {Exit}

QueueType == /\ ringbuffer \in Seq(Element) /\ Len(ringbuffer) <= Capacity
             /\ notFull \subseteq {"main", "submitter"}

SleepsInTake == notEmpty \subseteq {w \in Workers : pc[w] = "take"}

ElementType == /\ todo \in [Workers -> Element \cup {None}]
               /\ putting \in Tasks \cup {None}
               /\ accepted \in Seq(Element) /\ taken \in Seq(Element)

Data == QueueType /\ SleepsInTake /\ ElementType

LEMMA TypeParts == ControlType /\ Data => TypeOK
  BY DEF ControlType, Data, QueueType, SleepsInTake, ElementType, Element, TypeOK

\* put keeps the types, whoever calls it.
LEMMA PutDoneType ==
    ASSUME QueueType, accepted \in Seq(Element), NEW x \in Element, PutDone(x),
           accepted' = Append(accepted, x)
    PROVE  QueueType' /\ accepted' \in Seq(Element) /\ notEmpty' \subseteq notEmpty
<1>1. ringbuffer' \in Seq(Element) /\ Len(ringbuffer') = Len(ringbuffer) + 1
  BY DEF QueueType, PutDone
<1>2. Len(ringbuffer) \in Nat /\ Len(ringbuffer) < Capacity
  BY CapacityAssumption DEF QueueType, PutDone, full
<1>3. notEmpty' \subseteq notEmpty
  BY DEF PutDone, NotifyOne
<1>4. accepted' \in Seq(Element)
  OBVIOUS
<1>5. QED
  BY <1>1, <1>2, <1>3, <1>4, CapacityAssumption DEF QueueType, PutDone

\* take keeps the types, and returns an element.
LEMMA TakeDoneType ==
    ASSUME QueueType, TakeDone
    PROVE  QueueType' /\ front \in Element /\ notEmpty' = notEmpty
<1>1. ringbuffer \in Seq(Element) /\ ringbuffer # <<>>
  BY DEF QueueType, TakeDone, empty
<1>2. /\ front \in Element /\ Tail(ringbuffer) \in Seq(Element)
      /\ Len(Tail(ringbuffer)) = Len(ringbuffer) - 1 /\ Len(ringbuffer) \in Nat
  BY <1>1, HeadTailProperties DEF front
<1>3. notFull' \subseteq notFull
  BY DEF TakeDone, NotifyOne
<1>4. QED
  BY <1>2, <1>3, CapacityAssumption DEF QueueType, TakeDone

LEMMA DataInit == Init => Data
  BY CapacityAssumption
  DEF Init, QueueInit, Data, QueueType, SleepsInTake, ElementType

\* The steps of the main thread, of the submitter and of a worker.
LEMMA DataMain == ASSUME Control, Data, MainThread PROVE Data'
<1> USE DEF Data
<1>1. ASSUME NEW w \in Workers, Spawn(w) PROVE Data'
  <2>1. pc[w] = "unborn" /\ pc \in [Workers -> {"unborn", "loop", "take", "run", "exited"}]
    BY <1>1 DEF Spawn, Control, ControlType
  <2>2. QED
    BY <1>1, <2>1 DEF Spawn, queueVars, QueueType, SleepsInTake, ElementType
<1>2. CASE Start \/ StartReturn \/ Stop \/ StopJoin \/ StopReturn
  BY <1>2 DEF Start, StartReturn, Stop, StopJoin, StopReturn, queueVars, QueueType, SleepsInTake,
              ElementType
<1>3. CASE StopPut
  <2>1. QueueType' /\ accepted' \in Seq(Element) /\ notEmpty' \subseteq notEmpty
    <3>1. CASE PutDone(Exit) /\ accepted' = Append(accepted, Exit)
      BY <3>1, PutDoneType DEF Element, ElementType
    <3>2. CASE PutWait("main") /\ UNCHANGED accepted
      BY <3>2 DEF PutWait, QueueType, ElementType
    <3>3. QED
      BY <1>3, <3>1, <3>2 DEF StopPut
  <2>2. UNCHANGED <<pc, todo, putting, taken>>
    BY <1>3 DEF StopPut
  <2>3. QED
    BY <2>1, <2>2 DEF SleepsInTake, ElementType
<1>4. QED
  BY <1>1, <1>2, <1>3 DEF MainThread, Starting, Stopping

LEMMA DataSubmit == ASSUME Data, Submit PROVE Data'
<1> USE DEF Data
<1>1. putting \in Element
  BY DEF Submit, ElementType, Element
<1>2. QueueType' /\ accepted' \in Seq(Element) /\ notEmpty' \subseteq notEmpty
  <2>1. CASE PutDone(putting) /\ accepted' = Append(accepted, putting)
    BY <1>1, <2>1, PutDoneType DEF ElementType
  <2>2. CASE PutWait("submitter") /\ UNCHANGED accepted
    BY <2>2 DEF PutWait, QueueType, ElementType
  <2>3. QED
    BY <2>1, <2>2 DEF Submit
<1>3. UNCHANGED <<pc, todo, taken>> /\ putting' \in {putting, None}
  BY DEF Submit
<1>4. QED
  BY <1>2, <1>3 DEF SleepsInTake, ElementType

LEMMA DataWorker ==
    ASSUME Control, Data, NEW w \in Workers, RunInLoop(w) PROVE Data'
<1> USE DEF Data
<1>1. pc \in [Workers -> {"unborn", "loop", "take", "run", "exited"}]
  BY DEF Control, ControlType
<1>2. CASE Check(w) \/ Run(w)
  <2>1. UNCHANGED <<queueVars, todo, putting, accepted, taken>>
    BY <1>2 DEF Check, Run
  <2>2. \A v \in Workers : pc[v] = "take" => pc'[v] = "take"
    BY <1>1, <1>2 DEF Check, Run
  <2>3. QED
    BY <2>1, <2>2 DEF queueVars, QueueType, SleepsInTake, ElementType
<1>3. CASE Take(w)
  <2>1. pc[w] = "take" /\ w \notin notEmpty /\ UNCHANGED <<putting, accepted>>
    BY <1>3 DEF Take
  <2>2. CASE /\ TakeDone
             /\ todo' = [todo EXCEPT ![w] = front]
             /\ taken' = Append(taken, front)
             /\ pc' = [pc EXCEPT ![w] = IF front = Exit THEN "loop" ELSE "run"]
    <3>1. QueueType' /\ front \in Element /\ notEmpty' = notEmpty
      BY <2>2, TakeDoneType
    <3>2. SleepsInTake'
      BY <1>1, <2>1, <2>2, <3>1 DEF SleepsInTake
    <3>3. taken' \in Seq(Element) /\ todo' \in [Workers -> Element \cup {None}]
      <4> DEFINE f == front
      <4>1. /\ f \in Element /\ taken' = Append(taken, f)
            /\ todo' = [todo EXCEPT ![w] = f]
        BY <2>2, <3>1
      <4> HIDE DEF f
      <4>2. QED
        BY <4>1 DEF ElementType
    <3>4. QED
      BY <2>1, <3>1, <3>2, <3>3 DEF ElementType
  <2>3. CASE TakeWait(w) /\ UNCHANGED <<pc, todo, taken>>
    BY <2>1, <2>3 DEF TakeWait, QueueType, SleepsInTake, ElementType
  <2>4. QED
    BY <1>3, <2>2, <2>3 DEF Take
<1>4. QED
  BY <1>2, <1>3 DEF RunInLoop

LEMMA DataStep == Control /\ Data /\ [Next]_vars => Data'
<1> SUFFICES ASSUME Control, Data, [Next]_vars PROVE Data'
  OBVIOUS
<1>1. ASSUME NEW task \in Tasks, PutTask(task) PROVE Data'
  BY <1>1 DEF PutTask, queueVars, Data, QueueType, SleepsInTake, ElementType
<1>2. ASSUME NEW w \in Workers, RunInLoop(w) PROVE Data'
  BY <1>2, DataWorker
<1>3. CASE SpuriousWakeup /\ UNCHANGED poolVars
  BY <1>3 DEF SpuriousWakeup, poolVars, Data, QueueType, SleepsInTake, ElementType
<1>4. CASE UNCHANGED vars
  BY <1>4 DEF vars, queueVars, poolVars, Data, QueueType, SleepsInTake, ElementType
<1>5. QED
  BY <1>1, <1>2, <1>3, <1>4, DataMain, DataSubmit DEF Next

\* Every variable keeps its type; the queue never holds more than Capacity.
THEOREM TypeCorrect == Spec => []TypeOK
<1>1. Control /\ Data => TypeOK
  BY TypeParts DEF Control
<1>2. QED
  BY <1>1, ControlInv, DataInit, DataStep, PTL DEF Spec

-----------------------------------------------------------------------------
\* After Stop has begun, a worker takes at most one more element.
THEOREM OneMoreAtMostCorrect == Spec => []OneMoreAtMost
<1>1. Control => OneMoreAtMost
  BY DEF Control, TakesOnce, OneMoreAtMost
<1>2. QED
  BY <1>1, ControlInv, PTL

\* When Stop has returned, every worker has exited.
THEOREM QuietAfterStopCorrect == Spec => []QuietAfterStop
<1>1. Control => QuietAfterStop
  BY PoolAssumption DEF Control, ControlType, Joined, QuietAfterStop, Workers
<1>2. QED
  BY <1>1, ControlInv, PTL

-----------------------------------------------------------------------------
(* Where a task is.                                                        *)

\* take returns the elements in the order they were put.
InOrder == accepted = taken \o ringbuffer

\* A task is put once: no two places of accepted have it, and the task that is
\* being put has none yet.
PutOnce == /\ \A i, j \in DOMAIN accepted :
                 accepted[i] = accepted[j] /\ accepted[i] # Exit => i = j
           /\ \A i \in DOMAIN accepted : accepted[i] # putting \/ putting = None

\* What a worker runs was taken, and no other worker runs it.
HeldOnce == /\ \A w \in Running : /\ todo[w] # Exit
                                  /\ \E i \in DOMAIN taken : taken[i] = todo[w]
            /\ \A v, w \in Running : v # w => todo[v] # todo[w]

Place == InOrder /\ PutOnce /\ HeldOnce

\* The elements of accepted are those of taken, followed by those of the queue.
LEMMA Places ==
    ASSUME Data, InOrder
    PROVE  /\ DOMAIN accepted = 1..(Len(taken) + Len(ringbuffer))
           /\ DOMAIN taken = 1..Len(taken) /\ DOMAIN ringbuffer = 1..Len(ringbuffer)
           /\ Len(taken) \in Nat /\ Len(ringbuffer) \in Nat
           /\ \A i \in DOMAIN taken : accepted[i] = taken[i]
           /\ \A i \in DOMAIN ringbuffer : accepted[Len(taken) + i] = ringbuffer[i]
<1>1. taken \in Seq(Element) /\ ringbuffer \in Seq(Element) /\ accepted \in Seq(Element)
  BY DEF Data, QueueType, ElementType
<1>2. /\ Len(accepted) = Len(taken) + Len(ringbuffer)
      /\ \A i \in 1..(Len(taken) + Len(ringbuffer)) : accepted[i] =
             IF i <= Len(taken) THEN taken[i] ELSE ringbuffer[i - Len(taken)]
  BY <1>1, ConcatProperties DEF InOrder
<1>3. /\ DOMAIN accepted = 1..Len(accepted) /\ DOMAIN taken = 1..Len(taken)
      /\ DOMAIN ringbuffer = 1..Len(ringbuffer)
      /\ Len(taken) \in Nat /\ Len(ringbuffer) \in Nat
  BY <1>1, LenProperties
<1>4. \A i \in 1..Len(taken) : accepted[i] = taken[i]
  BY <1>2, <1>3
<1>5. ASSUME NEW i \in 1..Len(ringbuffer)
      PROVE  accepted[Len(taken) + i] = ringbuffer[i]
  <2>1. Len(taken) + i \in 1..(Len(taken) + Len(ringbuffer))
    BY <1>3
  <2>2. ~(Len(taken) + i <= Len(taken)) /\ (Len(taken) + i) - Len(taken) = i
    BY <1>3
  <2>3. QED
    BY <1>2, <2>1, <2>2
<1>6. QED
  BY <1>2, <1>3, <1>4, <1>5

\* A put of the exit notification, or of a task that was not put before.
LEMMA PutKeepsOnce ==
    ASSUME Data, Place, NEW x \in Element, PutDone(x),
           accepted' = Append(accepted, x), UNCHANGED taken,
           x # Exit => \A i \in DOMAIN accepted : accepted[i] # x,
           x # putting' \/ putting' = None, putting' \in {putting, None}
    PROVE  InOrder' /\ PutOnce'
<1>1. taken \in Seq(Element) /\ ringbuffer \in Seq(Element) /\ accepted \in Seq(Element)
  BY DEF Data, QueueType, ElementType
<1>2. InOrder'
  <2>1. /\ taken \o ringbuffer \in Seq(Element) /\ <<x>> \in Seq(Element)
        /\ Append(taken \o ringbuffer, x) = (taken \o ringbuffer) \o <<x>>
        /\ Append(ringbuffer, x) = ringbuffer \o <<x>>
    BY <1>1, ConcatProperties, AppendIsConcat
  <2>2. (taken \o ringbuffer) \o <<x>> = taken \o (ringbuffer \o <<x>>)
    BY <1>1, <2>1, ConcatAssociative
  <2>3. QED
    BY <2>1, <2>2 DEF Place, InOrder, PutDone
<1>3. /\ DOMAIN accepted = 1..Len(accepted) /\ Len(accepted) \in Nat
      /\ DOMAIN accepted' = 1..(Len(accepted) + 1)
      /\ \A i \in 1..Len(accepted) : accepted'[i] = accepted[i]
      /\ accepted'[Len(accepted) + 1] = x
  BY <1>1
<1>4. \A i \in DOMAIN accepted' : i \in DOMAIN accepted \/ i = Len(accepted) + 1
  BY <1>3
<1>5. \A i, j \in DOMAIN accepted' :
          accepted'[i] = accepted'[j] /\ accepted'[i] # Exit => i = j
  BY <1>3, <1>4 DEF Place, PutOnce
<1>6. \A i \in DOMAIN accepted' : accepted'[i] # putting' \/ putting' = None
  BY <1>3, <1>4 DEF Place, PutOnce
<1>7. QED
  BY <1>2, <1>5, <1>6 DEF PutOnce

LEMMA PlaceInit == Init => Place
<1> SUFFICES ASSUME Init PROVE Place
  OBVIOUS
<1>1. InOrder
  BY DEF Init, QueueInit, InOrder
<1>2. PutOnce /\ HeldOnce
  BY DEF Init, PutOnce, HeldOnce, Running
<1>3. QED
  BY <1>1, <1>2 DEF Place

\* What take returns was not taken before, unless it is an exit notification.
LEMMA FreshFront ==
    ASSUME Data, Place, TakeDone
    PROVE  \A i \in DOMAIN taken : front = Exit \/ taken[i] # front
<1>1. ringbuffer \in Seq(Element) /\ ringbuffer # <<>>
  BY DEF Data, QueueType, TakeDone, empty
<1>2. 1 \in DOMAIN ringbuffer /\ front = ringbuffer[1]
  BY <1>1 DEF front
<1>3. /\ accepted[Len(taken) + 1] = front /\ Len(taken) + 1 \in DOMAIN accepted
      /\ \A i \in DOMAIN taken : i \in DOMAIN accepted /\ i # Len(taken) + 1
      /\ \A i \in DOMAIN taken : accepted[i] = taken[i]
  BY <1>2, Places DEF Place
<1>4. QED
  BY <1>3 DEF Place, PutOnce

\* What is taken is what no worker has, and is in no other place of the queue.
LEMMA PlaceTake ==
    ASSUME Control, Data, Place, NEW w \in Workers, Take(w), TakeDone,
           todo' = [todo EXCEPT ![w] = front], taken' = Append(taken, front),
           pc' = [pc EXCEPT ![w] = IF front = Exit THEN "loop" ELSE "run"]
    PROVE  Place'
<1> DEFINE f == front
<1>1. taken \in Seq(Element) /\ ringbuffer \in Seq(Element) /\ ringbuffer # <<>>
  BY DEF Data, QueueType, ElementType, TakeDone, empty
<1>2. ringbuffer = <<f>> \o Tail(ringbuffer) /\ f \in Element
  BY <1>1 DEF front
<1>3. /\ pc \in [Workers -> {"unborn", "loop", "take", "run", "exited"}]
      /\ todo \in [Workers -> Element \cup {None}]
  BY DEF Control, ControlType, Data, ElementType
<1>4. UNCHANGED <<accepted, putting>> /\ ringbuffer' = Tail(ringbuffer)
  BY DEF Take, TakeDone
<1>5. Tail(ringbuffer) \in Seq(Element)
  BY <1>1
<1>6. \A i \in DOMAIN taken : f = Exit \/ taken[i] # f
  BY FreshFront
<1> HIDE DEF f
<1>7. taken' = Append(taken, f) /\ todo' = [todo EXCEPT ![w] = f]
  BY DEF f
<1>8. InOrder'
  <2>1. taken \o (<<f>> \o Tail(ringbuffer)) = Append(taken, f) \o Tail(ringbuffer)
    BY <1>1, <1>2, <1>5
  <2>2. QED
    BY <1>2, <1>4, <1>7, <2>1 DEF Place, InOrder
<1>9. PutOnce'
  BY <1>4 DEF Place, PutOnce
<1>10. \A v \in Running' : v # w => v \in Running /\ todo'[v] = todo[v]
  BY <1>3, <1>7 DEF Running
<1>11. w \in Running' => todo'[w] = f /\ f # Exit
  BY <1>3, <1>7 DEF Running, f
<1>12. /\ \A i \in DOMAIN taken : i \in DOMAIN taken' /\ taken'[i] = taken[i]
       /\ Len(taken) + 1 \in DOMAIN taken' /\ taken'[Len(taken) + 1] = f
  BY <1>1, <1>2, <1>7
<1>13. HeldOnce'
  <2>1. ASSUME NEW v \in Running'
        PROVE  todo'[v] # Exit /\ \E i \in DOMAIN taken' : taken'[i] = todo'[v]
    BY <1>10, <1>11, <1>12 DEF Place, HeldOnce
  <2>2. ASSUME NEW v \in Running', NEW u \in Running', v # u
        PROVE  todo'[v] # todo'[u]
    BY <1>6, <1>10, <1>11, <2>2 DEF Place, HeldOnce
  <2>3. QED
    BY <2>1, <2>2 DEF HeldOnce
<1>14. QED
  BY <1>8, <1>9, <1>13 DEF Place

\* Steps that touch neither the queue nor what a worker runs.
LEMMA PlaceIdle ==
    ASSUME Place, UNCHANGED <<ringbuffer, accepted, taken, putting, todo>>,
           Running' \subseteq Running
    PROVE  Place'
<1>1. InOrder' /\ PutOnce'
  BY DEF Place, InOrder, PutOnce
<1>2. HeldOnce'
  BY DEF Place, HeldOnce
<1>3. QED
  BY <1>1, <1>2 DEF Place

LEMMA PlaceStep == Control /\ Data /\ Place /\ [Next]_vars => Place'
<1> SUFFICES ASSUME Control, Data, Place, [Next]_vars PROVE Place'
  OBVIOUS
<1>1. /\ pc \in [Workers -> {"unborn", "loop", "take", "run", "exited"}]
      /\ putting \in Tasks \cup {None} /\ Exit \notin Tasks /\ None \notin Tasks
  BY PoolAssumption DEF Control, ControlType, Data, ElementType
<1>2. CASE Start \/ Starting \/ Stop \/ StopJoin \/ StopReturn
  <2>1. UNCHANGED <<ringbuffer, accepted, taken, putting, todo>>
    BY <1>2 DEF Start, Starting, StartReturn, Spawn, Stop, StopJoin, StopReturn, queueVars
  <2>2. Running' \subseteq Running
    BY <1>1, <1>2
    DEF Start, Starting, StartReturn, Spawn, Stop, StopJoin, StopReturn, Running
  <2>3. QED
    BY <2>1, <2>2, PlaceIdle
<1>3. CASE StopPut
  <2>1. UNCHANGED <<pc, todo, putting, taken>>
    BY <1>3 DEF StopPut
  <2>2. CASE PutDone(Exit) /\ accepted' = Append(accepted, Exit)
    <3>1. InOrder' /\ PutOnce'
      BY <1>1, <2>1, <2>2, PutKeepsOnce DEF Element
    <3>2. HeldOnce'
      BY <2>1 DEF Place, HeldOnce, Running
    <3>3. QED
      BY <3>1, <3>2 DEF Place
  <2>3. CASE PutWait("main") /\ UNCHANGED accepted
    BY <2>1, <2>3, PlaceIdle DEF PutWait, Running
  <2>4. QED
    BY <1>3, <2>2, <2>3 DEF StopPut
<1>4. CASE Submit
  <2>1. UNCHANGED <<pc, todo, taken>> /\ putting \in Tasks
    BY <1>1, <1>4 DEF Submit
  <2>2. CASE PutDone(putting) /\ accepted' = Append(accepted, putting) /\ putting' = None
    <3>1. \A i \in DOMAIN accepted : accepted[i] # putting
      BY <1>1, <2>1 DEF Place, PutOnce
    <3>2. InOrder' /\ PutOnce'
      BY <2>1, <2>2, <3>1, PutKeepsOnce DEF Element
    <3>3. HeldOnce'
      BY <2>1 DEF Place, HeldOnce, Running
    <3>4. QED
      BY <3>2, <3>3 DEF Place
  <2>3. CASE PutWait("submitter") /\ UNCHANGED <<accepted, putting>>
    BY <2>1, <2>3, PlaceIdle DEF PutWait, Running
  <2>4. QED
    BY <1>4, <2>2, <2>3 DEF Submit
<1>5. ASSUME NEW task \in Tasks, PutTask(task) PROVE Place'
  <2>1. UNCHANGED <<ringbuffer, accepted, taken, pc, todo>> /\ putting' = task
    BY <1>5 DEF PutTask, queueVars
  <2>2. \A i \in DOMAIN accepted : accepted[i] # task
    BY <1>5 DEF PutTask
  <2>3. InOrder' /\ PutOnce' /\ HeldOnce'
    BY <2>1, <2>2 DEF Place, InOrder, PutOnce, HeldOnce, Running
  <2>4. QED
    BY <2>3 DEF Place
<1>6. ASSUME NEW w \in Workers, RunInLoop(w) PROVE Place'
  <2>1. CASE Check(w) \/ Run(w)
    <3>1. UNCHANGED <<ringbuffer, accepted, taken, putting, todo>>
      BY <2>1 DEF Check, Run, queueVars
    <3>2. Running' \subseteq Running
      BY <1>1, <2>1 DEF Check, Run, Running
    <3>3. QED
      BY <3>1, <3>2, PlaceIdle
  <2>2. CASE Take(w)
    <3>1. CASE TakeWait(w) /\ UNCHANGED <<pc, todo, taken, late>>
      BY <2>2, <3>1, PlaceIdle DEF Take, TakeWait, Running
    <3>2. QED
      BY <2>2, <3>1, PlaceTake DEF Take
  <2>3. QED
    BY <1>6, <2>1, <2>2 DEF RunInLoop
<1>7. CASE SpuriousWakeup /\ UNCHANGED poolVars
  BY <1>7, PlaceIdle DEF SpuriousWakeup, poolVars, Running
<1>8. CASE UNCHANGED vars
  BY <1>8, PlaceIdle DEF vars, queueVars, poolVars, Running
<1>9. QED
  BY <1>2, <1>3, <1>4, <1>5, <1>6, <1>7, <1>8 DEF Next, MainThread, Stopping

LEMMA PoolInv == Spec => [](Control /\ Data /\ Place)
  BY ControlInv, DataInit, DataStep, PlaceInit, PlaceStep, PTL DEF Spec

\* A task is on the queue, or with one worker, or done, for any number of
\* workers and any capacity.
THEOREM TaskInOnePlaceCorrect == Spec => []TaskInOnePlace
<1>1. Data /\ Place => TaskInOnePlace
  <2> SUFFICES ASSUME Data, Place PROVE TaskInOnePlace
    OBVIOUS
  <2>1. ASSUME NEW w \in Running, NEW i \in DOMAIN ringbuffer
        PROVE  ringbuffer[i] # todo[w]
    <3>1. PICK k \in DOMAIN taken : taken[k] = todo[w]
      BY DEF Place, HeldOnce
    <3>2. /\ k \in DOMAIN accepted /\ Len(taken) + i \in DOMAIN accepted
          /\ k # Len(taken) + i
          /\ accepted[k] = taken[k] /\ accepted[Len(taken) + i] = ringbuffer[i]
      BY Places DEF Place
    <3>3. accepted[k] # Exit
      BY <3>1, <3>2 DEF Place, HeldOnce
    <3>4. QED
      BY <3>1, <3>2, <3>3 DEF Place, PutOnce
  <2>2. QED
    BY <2>1 DEF Place, InOrder, HeldOnce, TaskInOnePlace
<1>2. QED
  BY <1>1, PoolInv, PTL

-----------------------------------------------------------------------------
(* queue_ is the queue of QueueClients, with the submitter and main as its *)
(* putters and the workers as its takers.                                  *)

Putters == {"main", "submitter"}
Putting == [p \in Putters |->
               IF p = "submitter" THEN putting
               ELSE IF main = "stopping" /\ joining \in Workers THEN Exit ELSE None]
Taking == {w \in Workers : pc[w] = "take"}

Queue == INSTANCE QueueClientsProofs
    WITH Takers <- Workers, Values <- Element, putting <- Putting, taking <- Taking,
         MaxPuts <- Cardinality(Tasks) + maxThreads, delivered <- taken

LEMMA QueueAssumptions ==
    ASSUME IsFiniteSet(Tasks), maxThreads # 0
    PROVE  /\ Queue!ClientAssumption /\ Queue!CapacityAssumption
           /\ Cardinality(Tasks) \in Nat
<1>1. Cardinality(Tasks) \in Nat
  BY FS_CardinalityType
<1>2. Queue!IsFiniteSet(Putters)
  <2>1. IsFiniteSet({"main"} \cup {"submitter"})
    BY FS_Singleton, FS_AddElement
  <2>2. Putters = {"main"} \cup {"submitter"}
    BY DEF Putters
  <2>3. QED
    BY <2>1, <2>2 DEF IsFiniteSet, Queue!IsFiniteSet
<1>3. 1 \in Workers /\ Cardinality(Tasks) + maxThreads \in Nat
  BY <1>1, PoolAssumption DEF Workers
<1>4. None \notin Element
  BY PoolAssumption DEF Element
<1>5. QED
  BY <1>1, <1>2, <1>3, <1>4, CapacityAssumption
     DEF Queue!ClientAssumption, Queue!CapacityAssumption

\* The submitter is inside put only before Stop, main only after that.
OnePutter == putting # None => main = "up"

\* The exit notifications on the queue so far, and what they leave for tasks.
Exits == IF main \in {"new", "starting", "up"} THEN 0
         ELSE IF main = "joining" THEN joining ELSE joining - 1
Counted == Len(accepted) = Cardinality(TaskSet) + Exits

LEMMA TaskSetFinite ==
    ASSUME Data, IsFiniteSet(Tasks)
    PROVE  /\ TaskSet \subseteq Tasks /\ IsFiniteSet(TaskSet)
           /\ Cardinality(TaskSet) \in Nat /\ Cardinality(Tasks) \in Nat
           /\ Cardinality(TaskSet) <= Cardinality(Tasks)
           /\ \A x \in Tasks \ TaskSet : Cardinality(TaskSet) < Cardinality(Tasks)
<1>1. TaskSet \subseteq Tasks
  BY DEF Data, ElementType, Element, TaskSet
<1>2. /\ IsFiniteSet(TaskSet) /\ Cardinality(TaskSet) \in Nat /\ Cardinality(Tasks) \in Nat
      /\ Cardinality(TaskSet) <= Cardinality(Tasks)
  BY <1>1, FS_Subset, FS_CardinalityType
<1>3. ASSUME NEW x \in Tasks \ TaskSet PROVE Cardinality(TaskSet) < Cardinality(Tasks)
  BY <1>1, <1>2, <1>3, FS_Subset
<1>4. QED
  BY <1>1, <1>2, <1>3

\* What a put adds to the tasks of accepted.
LEMMA TaskSetPut ==
    ASSUME Data, NEW x \in Element, accepted' = Append(accepted, x)
    PROVE  /\ TaskSet' = TaskSet \cup ({x} \ {Exit})
           /\ Len(accepted) \in Nat /\ Len(accepted') = Len(accepted) + 1
<1>1. accepted \in Seq(Element)
  BY DEF Data, ElementType
<1>2. /\ Len(accepted) \in Nat /\ Len(accepted') = Len(accepted) + 1
      /\ DOMAIN accepted = 1..Len(accepted) /\ DOMAIN accepted' = 1..(Len(accepted) + 1)
      /\ \A i \in 1..Len(accepted) : accepted'[i] = accepted[i]
      /\ accepted'[Len(accepted) + 1] = x
  BY <1>1
<1>3. \A y : (\E i \in DOMAIN accepted' : accepted'[i] = y)
                 <=> (\E i \in DOMAIN accepted : accepted[i] = y) \/ y = x
  BY <1>2
<1>4. QED
  BY <1>2, <1>3 DEF TaskSet

LEMMA UseStep ==
    IsFiniteSet(Tasks) /\ Control /\ Data /\ Place /\ OnePutter /\ Counted /\ [Next]_vars
        => OnePutter' /\ Counted'
<1> SUFFICES ASSUME IsFiniteSet(Tasks), Control, Data, Place, OnePutter, Counted, [Next]_vars
             PROVE  OnePutter' /\ Counted'
  OBVIOUS
<1>1. /\ maxThreads \in Nat /\ joining \in 0..(maxThreads + 1)
      /\ putting \in Tasks \cup {None} /\ Exit \notin Tasks /\ None \notin Tasks
      /\ main \in {"new", "starting", "up", "stopping", "joining", "stopped"}
  BY PoolAssumption DEF Control, ControlType, Data, ElementType
<1>2. TaskSet \subseteq Tasks /\ IsFiniteSet(TaskSet) /\ Cardinality(TaskSet) \in Nat
  BY TaskSetFinite
<1>3. ASSUME UNCHANGED accepted, Exits' = Exits PROVE Counted'
  BY <1>3 DEF Counted, TaskSet
<1>4. CASE Start \/ Starting \/ Stop \/ StopJoin \/ StopReturn
  <2>1. UNCHANGED <<accepted, putting>>
    BY <1>4 DEF Start, Starting, StartReturn, Spawn, Stop, StopJoin, StopReturn
  <2>2. OnePutter'
    BY <1>4, <2>1
    DEF Start, Starting, StartReturn, Spawn, Stop, StopJoin, StopReturn, OnePutter
  <2>3. Exits' = Exits
    BY <1>1, <1>4
    DEF Start, Starting, StartReturn, Spawn, Stop, StopJoin, StopReturn, Exits
  <2>4. QED
    BY <1>3, <2>1, <2>2, <2>3
<1>5. CASE StopPut
  <2>1. main = "stopping" /\ UNCHANGED <<putting, joining>> /\ putting = None
    BY <1>5 DEF StopPut, OnePutter
  <2>2. CASE accepted' = Append(accepted, Exit) /\ main' = "joining"
    <3>1. TaskSet' = TaskSet /\ Len(accepted) \in Nat /\ Len(accepted') = Len(accepted) + 1
      BY <2>2, TaskSetPut DEF Element
    <3>2. Exits = joining - 1 /\ Exits' = joining
      BY <2>1, <2>2 DEF Exits
    <3>3. QED
      BY <1>1, <1>2, <2>1, <3>1, <3>2 DEF Counted, OnePutter
  <2>3. CASE UNCHANGED <<accepted, main>>
    BY <1>3, <2>1, <2>3 DEF Exits, OnePutter
  <2>4. QED
    BY <1>5, <2>2, <2>3 DEF StopPut
<1>6. CASE Submit
  <2>1. /\ putting \in Tasks /\ putting # Exit /\ UNCHANGED <<main, joining>>
        /\ main = "up" /\ putting \notin TaskSet
    BY <1>1, <1>6 DEF Submit, OnePutter, Place, PutOnce, TaskSet
  <2>2. CASE accepted' = Append(accepted, putting) /\ putting' = None
    <3>1. /\ TaskSet' = TaskSet \cup {putting}
          /\ Len(accepted) \in Nat /\ Len(accepted') = Len(accepted) + 1
      <4>1. putting \in Element /\ {putting} \ {Exit} = {putting}
        BY <2>1 DEF Element
      <4>2. QED
        BY <2>2, <4>1, TaskSetPut
    <3>2. Cardinality(TaskSet') = Cardinality(TaskSet) + 1
      BY <1>2, <2>1, <3>1, FS_AddElement
    <3>3. Exits = 0 /\ Exits' = 0
      BY <2>1 DEF Exits
    <3>4. QED
      BY <1>2, <2>2, <3>1, <3>2, <3>3 DEF Counted, OnePutter
  <2>3. CASE UNCHANGED <<accepted, putting>>
    BY <1>3, <2>1, <2>3 DEF Exits, OnePutter
  <2>4. QED
    BY <1>6, <2>2, <2>3 DEF Submit
<1>7. ASSUME NEW task \in Tasks, PutTask(task) PROVE OnePutter' /\ Counted'
  BY <1>3, <1>7 DEF PutTask, Exits, OnePutter
<1>8. ASSUME NEW w \in Workers, RunInLoop(w) PROVE OnePutter' /\ Counted'
  BY <1>3, <1>8 DEF RunInLoop, Check, Take, Run, Exits, OnePutter
<1>9. CASE SpuriousWakeup /\ UNCHANGED poolVars
  BY <1>3, <1>9 DEF poolVars, Exits, OnePutter
<1>10. CASE UNCHANGED vars
  BY <1>3, <1>10 DEF vars, poolVars, Exits, OnePutter
<1>11. QED
  BY <1>4, <1>5, <1>6, <1>7, <1>8, <1>9, <1>10 DEF Next, MainThread, Stopping

LEMMA UseInv ==
    ASSUME IsFiniteSet(Tasks)
    PROVE  Spec => [](OnePutter /\ Counted)
<1>1. Init => OnePutter /\ Counted
  <2> SUFFICES ASSUME Init PROVE OnePutter /\ Counted
    OBVIOUS
  <2>1. TaskSet = {} /\ Len(accepted) = 0 /\ Exits = 0
    BY DEF Init, TaskSet, Exits
  <2>2. QED
    BY <2>1, FS_EmptySet DEF Init, Counted, OnePutter
<1>2. QED
  BY <1>1, UseStep, PoolInv, PTL DEF Spec

\* A step of the pool is a step of the queue's clients, or leaves them alone.
LEMMA QueueStep ==
    IsFiniteSet(Tasks) /\ Control /\ Data /\ OnePutter /\ Counted /\ [Next]_vars
        => [Queue!Next]_(Queue!vars)
<1> SUFFICES ASSUME IsFiniteSet(Tasks), Control, Data, OnePutter, Counted, [Next]_vars
             PROVE  Queue!Next \/ UNCHANGED Queue!vars
  OBVIOUS
<1>1. /\ maxThreads \in Nat /\ joining \in 0..(maxThreads + 1)
      /\ putting \in Tasks \cup {None} /\ Exit \notin Tasks /\ None \notin Tasks
      /\ pc \in [Workers -> {"unborn", "loop", "take", "run", "exited"}]
  BY PoolAssumption DEF Control, ControlType, Data, ElementType
<1>2. /\ TaskSet \subseteq Tasks /\ Cardinality(TaskSet) \in Nat /\ Cardinality(Tasks) \in Nat
      /\ Cardinality(TaskSet) <= Cardinality(Tasks)
      /\ \A x \in Tasks \ TaskSet : Cardinality(TaskSet) < Cardinality(Tasks)
  BY TaskSetFinite
<1>3. ASSUME UNCHANGED <<queueVars, accepted, taken>>, Putting' = Putting, Taking' = Taking
      PROVE  UNCHANGED Queue!vars
  BY <1>3 DEF queueVars, Queue!vars, Queue!queueVars, Queue!callVars
\* main calls put for the first, or the next, thread that Stop joins.
<1>4. ASSUME Stop \/ StopJoin, joining' \in Workers PROVE Queue!CallPut("main", Exit)
  <2>1. /\ main' = "stopping" /\ UNCHANGED <<queueVars, pc, putting, accepted, taken>>
        /\ main # "stopping" /\ joining' <= maxThreads
    BY <1>1, <1>4 DEF Stop, StopJoin, Workers
  <2>2. /\ Putting["main"] = None /\ Putting' = [Putting EXCEPT !["main"] = Exit]
        /\ Taking' = Taking
    BY <1>4, <2>1 DEF Putting, Putters, Taking
  <2>3. Exits < maxThreads
    <3>1. CASE Stop
      BY <1>4, <2>1, <3>1, <1>1 DEF Stop, Exits, Workers
    <3>2. CASE StopJoin
      BY <1>1, <2>1, <3>2 DEF StopJoin, Exits
    <3>3. QED
      BY <1>4, <3>1, <3>2
  <2>4. Len(accepted) < Cardinality(Tasks) + maxThreads
    <3>1. Exits \in Int
      BY <1>1 DEF Exits
    <3>2. QED
      BY <1>1, <1>2, <2>3, <3>1 DEF Counted
  <2>5. QED
    BY <2>1, <2>2, <2>4 DEF Queue!CallPut, Queue!queueVars, queueVars
<1>5. CASE Stop \/ StopJoin
  <2>1. CASE joining' \in Workers
    BY <1>4, <1>5, <2>1 DEF Queue!Next, Putters, Element
  <2>2. CASE joining' \notin Workers
    <3>1. main # "stopping" /\ UNCHANGED <<queueVars, pc, putting, accepted, taken>>
      BY <1>5 DEF Stop, StopJoin
    <3>2. QED
      BY <1>3, <2>2, <3>1 DEF Putting, Taking
  <2>3. QED
    BY <2>1, <2>2
<1>6. CASE Start \/ Starting
  <2>1. /\ UNCHANGED <<queueVars, putting, accepted, taken, joining>>
        /\ main # "stopping" /\ main' # "stopping"
    BY <1>6 DEF Start, Starting, StartReturn, Spawn
  <2>2. Taking' = Taking
    BY <1>1, <1>6 DEF Start, Starting, StartReturn, Spawn, Taking
  <2>3. QED
    BY <1>3, <2>1, <2>2 DEF Putting
<1>7. CASE StopReturn
  <2>1. /\ UNCHANGED <<queueVars, pc, putting, accepted, taken, joining>>
        /\ joining \notin Workers
    BY <1>7 DEF StopReturn
  <2>2. QED
    BY <1>3, <2>1 DEF Putting, Taking
<1>8. CASE StopPut
  <2>1. /\ main = "stopping" /\ joining \in Workers /\ "main" \notin notFull
        /\ UNCHANGED <<pc, joining, putting, taken>>
    BY <1>8 DEF StopPut
  <2>2. Putting["main"] = Exit /\ Exit # None /\ Taking' = Taking
    BY <2>1, PoolAssumption DEF Putting, Putters, Taking
  <2>3. CASE PutDone(Exit) /\ accepted' = Append(accepted, Exit) /\ main' = "joining"
    <3>1. Putting' = [Putting EXCEPT !["main"] = None]
      BY <2>1, <2>3 DEF Putting, Putters
    <3>2. Queue!PutDone(Putting["main"])
      BY <2>2, <2>3 DEF PutDone, full, NotifyOne, Queue!PutDone, Queue!full,
                        Queue!NotifyOne
    <3>3. Queue!Put("main")
      BY <2>1, <2>2, <2>3, <3>1, <3>2 DEF Queue!Put
    <3>4. QED
      BY <3>3 DEF Queue!Next, Putters
  <2>4. CASE PutWait("main") /\ UNCHANGED <<accepted, main>>
    <3>1. Putting' = Putting
      BY <2>1, <2>4 DEF Putting
    <3>2. Queue!Put("main")
      BY <2>1, <2>2, <2>4, <3>1 DEF Queue!Put, PutWait, full, Queue!PutWait, Queue!full
    <3>3. QED
      BY <3>2 DEF Queue!Next, Putters
  <2>5. QED
    BY <1>8, <2>3, <2>4 DEF StopPut
<1>9. ASSUME NEW task \in Tasks, PutTask(task) PROVE Queue!Next
  <2>1. /\ main = "up" /\ putting = None /\ task \notin TaskSet /\ putting' = task
        /\ UNCHANGED <<queueVars, pc, main, joining, accepted, taken>>
    BY <1>9 DEF PutTask, TaskSet
  <2>2. /\ Putting["submitter"] = None
        /\ Putting' = [Putting EXCEPT !["submitter"] = task] /\ Taking' = Taking
    BY <2>1 DEF Putting, Putters, Taking
  <2>3. Len(accepted) < Cardinality(Tasks) + maxThreads
    <3>1. Exits = 0
      BY <2>1 DEF Exits
    <3>2. QED
      BY <1>1, <1>2, <2>1, <3>1 DEF Counted
  <2>4. Queue!CallPut("submitter", task)
    BY <2>1, <2>2, <2>3 DEF Queue!CallPut, Queue!queueVars, queueVars
  <2>5. QED
    BY <2>4 DEF Queue!Next, Putters, Element
<1>10. CASE Submit
  <2>1. /\ putting # None /\ "submitter" \notin notFull
        /\ UNCHANGED <<pc, main, joining, taken>>
    BY <1>10 DEF Submit
  <2>2. Putting["submitter"] = putting /\ Taking' = Taking
    BY <2>1 DEF Putting, Putters, Taking
  <2>3. CASE PutDone(putting) /\ accepted' = Append(accepted, putting) /\ putting' = None
    <3>1. Putting' = [Putting EXCEPT !["submitter"] = None]
      BY <2>1, <2>3 DEF Putting, Putters
    <3>2. Queue!PutDone(Putting["submitter"])
      BY <2>2, <2>3 DEF PutDone, full, NotifyOne, Queue!PutDone, Queue!full,
                        Queue!NotifyOne
    <3>3. Queue!Put("submitter")
      BY <2>1, <2>2, <2>3, <3>1, <3>2 DEF Queue!Put
    <3>4. QED
      BY <3>3 DEF Queue!Next, Putters
  <2>4. CASE PutWait("submitter") /\ UNCHANGED <<accepted, putting>>
    <3>1. Putting' = Putting
      BY <2>1, <2>4 DEF Putting
    <3>2. Queue!Put("submitter")
      BY <2>1, <2>2, <2>4, <3>1 DEF Queue!Put, PutWait, full, Queue!PutWait, Queue!full
    <3>3. QED
      BY <3>2 DEF Queue!Next, Putters
  <2>5. QED
    BY <1>10, <2>3, <2>4 DEF Submit
<1>11. ASSUME NEW w \in Workers, Check(w) PROVE Queue!Next \/ UNCHANGED Queue!vars
  <2>1. /\ pc[w] = "loop" /\ pc' = [pc EXCEPT ![w] = IF IsRunning THEN "take" ELSE "exited"]
        /\ UNCHANGED <<queueVars, main, joining, putting, accepted, taken>>
    BY <1>11 DEF Check
  <2>2. Putting' = Putting /\ w \notin Taking
    BY <2>1 DEF Putting, Taking
  <2>3. CASE IsRunning
    <3>1. Taking' = Taking \cup {w}
      BY <1>1, <2>1, <2>3 DEF Taking
    <3>2. Queue!CallTake(w)
      BY <2>1, <2>2, <3>1 DEF Queue!CallTake, Queue!queueVars, queueVars
    <3>3. QED
      BY <3>2 DEF Queue!Next
  <2>4. CASE ~IsRunning
    <3>1. Taking' = Taking
      BY <1>1, <2>1, <2>4 DEF Taking
    <3>2. QED
      BY <1>3, <2>1, <2>2, <3>1
  <2>5. QED
    BY <2>3, <2>4
<1>12. ASSUME NEW w \in Workers, Take(w) PROVE Queue!Next
  <2>1. /\ pc[w] = "take" /\ w \notin notEmpty
        /\ UNCHANGED <<main, joining, putting, accepted>>
    BY <1>12 DEF Take
  <2>2. Putting' = Putting /\ w \in Taking
    BY <2>1 DEF Putting, Taking
  <2>3. CASE /\ TakeDone /\ taken' = Append(taken, front)
             /\ pc' = [pc EXCEPT ![w] = IF front = Exit THEN "loop" ELSE "run"]
    <3>1. Taking' = Taking \ {w}
      BY <1>1, <2>3 DEF Taking
    <3>2. Queue!TakeDone /\ taken' = Append(taken, Queue!front)
      BY <2>3 DEF TakeDone, empty, front, NotifyOne, Queue!TakeDone, Queue!empty,
                  Queue!front, Queue!NotifyOne
    <3>3. Queue!Take(w)
      BY <2>1, <2>2, <3>1, <3>2 DEF Queue!Take
    <3>4. QED
      BY <3>3 DEF Queue!Next
  <2>4. CASE TakeWait(w) /\ UNCHANGED <<pc, taken>>
    <3>1. Taking' = Taking
      BY <2>4 DEF Taking
    <3>2. Queue!Take(w)
      BY <2>1, <2>2, <2>4, <3>1 DEF Queue!Take, TakeWait, empty, Queue!TakeWait, Queue!empty
    <3>3. QED
      BY <3>2 DEF Queue!Next
  <2>5. QED
    BY <1>12, <2>3, <2>4 DEF Take
<1>13. ASSUME NEW w \in Workers, Run(w) PROVE UNCHANGED Queue!vars
  <2>1. /\ pc[w] = "run" /\ pc' = [pc EXCEPT ![w] = "loop"]
        /\ UNCHANGED <<queueVars, main, joining, putting, accepted, taken>>
    BY <1>13 DEF Run
  <2>2. Taking' = Taking
    BY <1>1, <2>1 DEF Taking
  <2>3. QED
    BY <1>3, <2>1, <2>2 DEF Putting
<1>14. CASE SpuriousWakeup /\ UNCHANGED poolVars
  <2>1. Putting' = Putting /\ Taking' = Taking /\ UNCHANGED <<accepted, taken>>
    BY <1>14 DEF Putting, Taking, poolVars
  <2>2. Queue!SpuriousWakeup
    BY <1>14 DEF SpuriousWakeup, Queue!SpuriousWakeup
  <2>3. QED
    BY <2>1, <2>2 DEF Queue!Next, Queue!callVars
<1>15. CASE UNCHANGED vars
  BY <1>3, <1>15 DEF vars, poolVars, Putting, Taking
<1>16. QED
  BY <1>5, <1>6, <1>7, <1>8, <1>9, <1>10, <1>11, <1>12, <1>13, <1>14, <1>15
     DEF Next, MainThread, Stopping, RunInLoop

\* ConsumeLoop's PutTask, Stop and the workers use queue_ as QueueClients lets its
\* threads do: what is proved of the queue holds of the pool's, for any positive
\* number of workers and any finite set of tasks, and through it the abstract FIFO.
THEOREM ImplementsQueue ==
    ASSUME IsFiniteSet(Tasks)
    PROVE  Spec => Queue!Spec
<1>1. Init => Queue!Init
  <2> SUFFICES ASSUME Init PROVE Queue!Init
    OBVIOUS
  <2>1. Putting = [p \in Putters |-> None] /\ Taking = {}
    BY DEF Init, Putting, Taking
  <2>2. QED
    BY <2>1 DEF Init, QueueInit, Queue!Init, Queue!QueueInit
<1>2. QED
  BY <1>1, UseInv, QueueStep, PoolInv, PTL DEF Spec, Queue!Spec

\* put notifies a worker for the first task only, and still all workers are never
\* asleep while a task, or an exit notification, is on the queue.
THEOREM WorkerAwake ==
    ASSUME IsFiniteSet(Tasks), maxThreads # 0
    PROVE  Spec => [](ringbuffer # <<>> => notEmpty # Workers)
<1>1. Queue!Spec => []Queue!SomeTakerAwake
  BY QueueAssumptions, Queue!TakerAwake
<1>2. QED
  BY <1>1, ImplementsQueue, PTL DEF Queue!SomeTakerAwake

\* ConsumeLoop, or a Stop, that sleeps in put sleeps on a full queue: each place that
\* is freed wakes it, because the two are never inside put together.
THEOREM PutterAwake ==
    ASSUME IsFiniteSet(Tasks), maxThreads # 0
    PROVE  Spec => [](notFull # {} => full)
<1>1. Queue!Spec => [](Queue!TypeOK /\ Queue!NoLostNotFull)
  BY QueueAssumptions, Queue!TypeCorrect, Queue!NotFullCorrect, PTL
<1>2. Queue!TypeOK /\ Queue!NoLostNotFull /\ OnePutter => (notFull # {} => full)
  <2> SUFFICES ASSUME Queue!TypeOK, Queue!NoLostNotFull, OnePutter, notFull # {}
               PROVE  full
    OBVIOUS
  <2>1. PICK p \in notFull : p \in Putters /\ Putting[p] # None
    BY DEF Queue!TypeOK
  <2>2. \A q \in Putters : Putting[q] # None => q = p
    BY <2>1 DEF Putting, Putters, OnePutter
  <2>3. Queue!AwakePutters = {}
    BY <2>1, <2>2 DEF Queue!AwakePutters
  <2>4. Queue!Cardinality(Queue!AwakePutters) = 0
    BY <2>3, FS_EmptySet DEF Cardinality, Queue!Cardinality
  <2>5. QED
    BY <2>4, CapacityAssumption DEF Queue!NoLostNotFull, Queue!TypeOK, full
<1>3. QED
  BY <1>1, <1>2, UseInv, ImplementsQueue, PTL
=============================================================================

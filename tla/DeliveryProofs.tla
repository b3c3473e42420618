--------------------------- MODULE DeliveryProofs ---------------------------
(***************************************************************************)
(* What the way from Kafka to a call keeps for every number of messages    *)
(* and workers and every capacity of the queue.  The pool in it is the     *)
(* ThreadPool of its own module, whose theorems hold here.                 *)
(***************************************************************************)
EXTENDS Delivery, SequenceTheorems, FiniteSetTheorems, TLAPS

PoolProofs == INSTANCE ThreadPoolProofs WITH Tasks <- Messages, Endless <- {}

LEMMA Assumptions == PoolProofs!PoolAssumption /\ PoolProofs!CapacityAssumption
  BY DeliveryAssumption DEF PoolProofs!PoolAssumption, PoolProofs!CapacityAssumption

-----------------------------------------------------------------------------
(* The pool inside Delivery is the pool of those theorems.                 *)

\* Both instances of the pool have the same actions.
LEMMA SamePool ==
    /\ Pool!Init <=> PoolProofs!Init
    /\ Pool!Workers = PoolProofs!Workers
    /\ Pool!Start <=> PoolProofs!Start
    /\ Pool!Starting <=> PoolProofs!Starting
    /\ Pool!Stop <=> PoolProofs!Stop
    /\ Pool!Stopping <=> PoolProofs!Stopping
    /\ \A m : Pool!PutTask(m) <=> PoolProofs!PutTask(m)
    /\ Pool!Submit <=> PoolProofs!Submit
    /\ \A w : Pool!Check(w) <=> PoolProofs!Check(w)
    /\ \A w : Pool!Take(w) <=> PoolProofs!Take(w)
    /\ \A w : Pool!Run(w) <=> PoolProofs!Run(w)
    /\ Pool!SpuriousWakeup <=> PoolProofs!SpuriousWakeup
    /\ Pool!TypeOK <=> PoolProofs!TypeOK
<1>1. Pool!Init <=> PoolProofs!Init
  BY DEF Pool!Init, PoolProofs!Init, Pool!QueueInit, PoolProofs!QueueInit,
         Pool!Workers, PoolProofs!Workers
<1>2. Pool!Start <=> PoolProofs!Start
  BY DEF Pool!Start, PoolProofs!Start, Pool!queueVars, PoolProofs!queueVars
<1>3. Pool!Starting <=> PoolProofs!Starting
  <2>1. Pool!StartReturn <=> PoolProofs!StartReturn
    BY DEF Pool!StartReturn, PoolProofs!StartReturn, Pool!queueVars,
           PoolProofs!queueVars, Pool!Workers, PoolProofs!Workers
  <2>2. \A w : Pool!Spawn(w) <=> PoolProofs!Spawn(w)
    BY DEF Pool!Spawn, PoolProofs!Spawn, Pool!queueVars, PoolProofs!queueVars
  <2>3. QED
    BY <2>1, <2>2 DEF Pool!Starting, PoolProofs!Starting, Pool!Workers,
                      PoolProofs!Workers
<1>4. Pool!Stop <=> PoolProofs!Stop
  BY DEF Pool!Stop, PoolProofs!Stop, Pool!queueVars, PoolProofs!queueVars
<1>5. Pool!StopPut <=> PoolProofs!StopPut
  BY DEF Pool!StopPut, PoolProofs!StopPut, Pool!Workers, PoolProofs!Workers,
         Pool!PutDone, PoolProofs!PutDone, Pool!PutWait, PoolProofs!PutWait,
         Pool!full, PoolProofs!full, Pool!NotifyOne, PoolProofs!NotifyOne
<1>6. Pool!Stopping <=> PoolProofs!Stopping
  <2>1. Pool!StopJoin <=> PoolProofs!StopJoin
    BY DEF Pool!StopJoin, PoolProofs!StopJoin, Pool!queueVars, PoolProofs!queueVars
  <2>2. Pool!StopReturn <=> PoolProofs!StopReturn
    BY DEF Pool!StopReturn, PoolProofs!StopReturn, Pool!queueVars,
           PoolProofs!queueVars, Pool!Workers, PoolProofs!Workers
  <2>3. QED
    BY <1>5, <2>1, <2>2 DEF Pool!Stopping, PoolProofs!Stopping
<1>7. \A m : Pool!PutTask(m) <=> PoolProofs!PutTask(m)
  BY DEF Pool!PutTask, PoolProofs!PutTask, Pool!queueVars, PoolProofs!queueVars
<1>8. Pool!Submit <=> PoolProofs!Submit
  BY DEF Pool!Submit, PoolProofs!Submit, Pool!PutDone, PoolProofs!PutDone,
         Pool!PutWait, PoolProofs!PutWait, Pool!full, PoolProofs!full,
         Pool!NotifyOne, PoolProofs!NotifyOne
<1>9. \A w : Pool!Check(w) <=> PoolProofs!Check(w)
  BY DEF Pool!Check, PoolProofs!Check, Pool!queueVars, PoolProofs!queueVars
<1>10. \A w : Pool!Take(w) <=> PoolProofs!Take(w)
  BY DEF Pool!Take, PoolProofs!Take, Pool!TakeDone, PoolProofs!TakeDone,
         Pool!TakeWait, PoolProofs!TakeWait, Pool!empty, PoolProofs!empty,
         Pool!front, PoolProofs!front, Pool!NotifyOne, PoolProofs!NotifyOne
<1>11. \A w : Pool!Run(w) <=> PoolProofs!Run(w)
  BY DEF Pool!Run, PoolProofs!Run, Pool!queueVars, PoolProofs!queueVars
<1>12. Pool!SpuriousWakeup <=> PoolProofs!SpuriousWakeup
  BY DEF Pool!SpuriousWakeup, PoolProofs!SpuriousWakeup
<1>13. Pool!TypeOK <=> PoolProofs!TypeOK
  BY DEF Pool!TypeOK, PoolProofs!TypeOK, Pool!Workers, PoolProofs!Workers
<1>14. QED
  BY <1>1, <1>2, <1>3, <1>4, <1>5, <1>6, <1>7, <1>8, <1>9, <1>10, <1>11, <1>12,
     <1>13 DEF Pool!Workers, PoolProofs!Workers

-----------------------------------------------------------------------------
(* ConsumeLoop.                                                            *)

\* Where the loop is, and what its variable holds then.
LoopType ==
    /\ loop \in {"unborn", "check", "consume", "call", "put", "exited"} \cup Fields
    /\ offset \in 0..NMessages /\ reqmsg \in [Fields -> Messages \cup {None}]
    /\ loop \in Fields \cup {"call", "put"} => offset \in Messages

LEMMA LoopInit == Init => LoopType
  BY DeliveryAssumption DEF Init, LoopType, Messages, Fields, Empty

\* The assignment of a field.
LEMMA ParseType ==
    ASSUME LoopType, NEW f \in Fields, Parse(f)
    PROVE  LoopType'
<1>1. offset \in Messages /\ UNCHANGED offset
  BY DEF LoopType, Parse
<1>2. reqmsg' \in [Fields -> Messages \cup {None}]
  BY <1>1 DEF LoopType, Parse
<1>3. loop' \in Fields \cup {"call"}
  BY DEF Parse, AfterParse, Fields
<1>4. QED
  BY <1>1, <1>2, <1>3 DEF LoopType, Fields

LEMMA LoopStep == LoopType /\ [Next]_vars => LoopType'
<1> SUFFICES ASSUME LoopType, [Next]_vars PROVE LoopType'
  OBVIOUS
<1> USE DeliveryAssumption DEF LoopType, Messages
<1>1. CASE UNCHANGED <<loop, offset, reqmsg>>
  BY <1>1
<1>2. CASE StartLoop \/ LoopCheck
  BY <1>2 DEF StartLoop, LoopCheck, Fields
<1>3. CASE Consume
  BY <1>3 DEF Consume, Fields, Empty
<1>4. CASE AsyncCall \/ Submit
  BY <1>4 DEF AsyncCall, Submit, Fields
<1>5. ASSUME NEW f \in Fields, Parse(f) PROVE LoopType'
  BY <1>5, ParseType
<1>6. QED
  BY <1>1, <1>2, <1>3, <1>4, <1>5
     DEF Next, Step, MainThread, Start, StartPool, StopConsuming, StopPool, Stopping,
         ConsumeLoop, Calling, Worker, BeginCall, Read, Answered, Failed, loopVars, vars

-----------------------------------------------------------------------------
(* Every step is a step of the pool, or leaves it alone.                   *)

LEMMA PoolStep == LoopType /\ [Next]_vars => [PoolProofs!Next]_poolVars
<1> SUFFICES ASSUME LoopType, [Next]_vars PROVE PoolProofs!Next \/ UNCHANGED poolVars
  OBVIOUS
<1>1. CASE Start \/ StartPool \/ StopPool \/ Stopping
  BY <1>1, SamePool DEF Start, StartPool, StopPool, Stopping, PoolProofs!Next,
                        PoolProofs!MainThread
<1>2. CASE StartLoop \/ StopConsuming \/ LoopCheck \/ Consume \/ \E f \in Fields : Parse(f)
  BY <1>2 DEF StartLoop, StopConsuming, LoopCheck, Consume, Parse
<1>3. CASE AsyncCall
  <2>1. offset \in Messages /\ Pool!PutTask(offset)
    BY <1>3 DEF AsyncCall, LoopType
  <2>2. QED
    BY <2>1, SamePool DEF PoolProofs!Next
<1>4. CASE Submit
  BY <1>4, SamePool DEF Submit, PoolProofs!Next
<1>5. ASSUME NEW w \in Pool!Workers, Calling(w) \/ Answered(w) \/ Failed(w)
      PROVE  PoolProofs!RunInLoop(w) \/ UNCHANGED poolVars
  BY <1>5, SamePool DEF Calling, Worker, BeginCall, Read, Answered, Failed,
                        Return, PoolProofs!RunInLoop
<1>6. CASE Pool!SpuriousWakeup /\ UNCHANGED <<threadVars, loopVars, callVars, crashed>>
  BY <1>6, SamePool DEF threadVars, PoolProofs!Next, PoolProofs!poolVars
<1>7. CASE UNCHANGED vars
  BY <1>7 DEF vars
<1>8. QED
  BY <1>1, <1>2, <1>3, <1>4, <1>5, <1>6, <1>7, SamePool
     DEF Next, Step, MainThread, ConsumeLoop, PoolProofs!Next

\* The pool that ConsumeLoop submits to, whose workers block in AsyncCall, is a
\* ThreadPool: what is proved of ThreadPool under any client holds in Delivery.
THEOREM ImplementsPool == Spec => PoolProofs!Spec
<1>1. Init => PoolProofs!Init
  BY SamePool DEF Init, AsyncClient
<1>2. UNCHANGED poolVars => UNCHANGED PoolProofs!vars
  BY DEF poolVars, threadVars, PoolProofs!vars, PoolProofs!queueVars, PoolProofs!poolVars
<1>3. LoopType /\ [Next]_vars => [PoolProofs!Next]_PoolProofs!vars
  BY <1>2, PoolStep
<1>4. QED
  BY <1>1, <1>3, LoopInit, LoopStep, PTL DEF Spec, PoolProofs!Spec

PoolInvariant == PoolProofs!Control /\ PoolProofs!Data /\ PoolProofs!Place

LEMMA PoolInv == Spec => [](LoopType /\ PoolInvariant)
<1>1. PoolProofs!Spec => []PoolInvariant
  BY Assumptions, PoolProofs!PoolInv DEF PoolInvariant
<1>2. QED
  BY <1>1, ImplementsPool, LoopInit, LoopStep, PTL DEF Spec

\* What the invariant of the pool says, in the words of this module.
LEMMA PoolFacts ==
    ASSUME PoolInvariant
    PROVE  /\ IsRunning <=> main \in {"starting", "up"}
           /\ pc \in [Pool!Workers -> {"unborn", "loop", "take", "run", "exited"}]
           /\ todo \in [Pool!Workers -> Messages \cup {Exit, None}]
           /\ main \in {"new", "starting", "up", "stopping", "joining", "stopped"}
           /\ \A w \in Pool!Workers : main = "new" => pc[w] = "unborn"
           /\ taken \in Seq(Messages \cup {Exit}) /\ putting \in Messages \cup {None}
           /\ accepted \in Seq(Messages \cup {Exit})
           /\ \A w \in Running : /\ todo[w] \in Messages
                                 /\ \E i \in DOMAIN taken : taken[i] = todo[w]
           /\ \A v, w \in Running : v # w => todo[v] # todo[w]
           /\ \A i \in DOMAIN taken : i \in DOMAIN accepted /\ accepted[i] = taken[i]
<1>1. Pool!Workers = PoolProofs!Workers /\ Running = PoolProofs!Running
  BY SamePool DEF Running, PoolProofs!Running
<1>2. /\ IsRunning <=> main \in {"starting", "up"}
      /\ pc \in [Pool!Workers -> {"unborn", "loop", "take", "run", "exited"}]
      /\ main \in {"new", "starting", "up", "stopping", "joining", "stopped"}
      /\ \A w \in Pool!Workers : main = "new" => pc[w] = "unborn"
  BY <1>1 DEF PoolInvariant, PoolProofs!Control, PoolProofs!ControlType,
              PoolProofs!RunsWhenUp, PoolProofs!BornAndGone
<1>3. /\ todo \in [Pool!Workers -> Messages \cup {Exit, None}]
      /\ taken \in Seq(Messages \cup {Exit}) /\ putting \in Messages \cup {None}
      /\ accepted \in Seq(Messages \cup {Exit})
  BY <1>1 DEF PoolInvariant, PoolProofs!Data, PoolProofs!ElementType, PoolProofs!Element
<1>4. /\ \A w \in Running : /\ todo[w] # Exit
                            /\ \E i \in DOMAIN taken : taken[i] = todo[w]
      /\ \A v, w \in Running : v # w => todo[v] # todo[w]
  BY <1>1 DEF PoolInvariant, PoolProofs!Place, PoolProofs!HeldOnce
<1>5. \A i \in DOMAIN taken : taken[i] \in Messages \cup {Exit}
  BY <1>3
<1>6. \A i \in DOMAIN taken : i \in DOMAIN accepted /\ accepted[i] = taken[i]
  <2>1. /\ DOMAIN accepted = 1..(Len(taken) + Len(ringbuffer))
        /\ DOMAIN taken = 1..Len(taken)
        /\ Len(taken) \in Nat /\ Len(ringbuffer) \in Nat
        /\ \A i \in DOMAIN taken : accepted[i] = taken[i]
    BY Assumptions, PoolProofs!Places DEF PoolInvariant, PoolProofs!Place
  <2>2. QED
    BY <2>1
<1>7. QED
  BY <1>2, <1>3, <1>4, <1>5, <1>6

-----------------------------------------------------------------------------
\* ConsumeLoop begins when the pool is up, and is gone when the pool stops.
LoopInside == /\ main \in {"new", "starting"} => loop = "unborn"
              /\ main \notin {"new", "starting", "up"} => loop = "exited"

LEMMA InsideStep == LoopInside /\ [Next]_vars => LoopInside'
<1> SUFFICES ASSUME LoopInside, [Next]_vars PROVE LoopInside'
  OBVIOUS
<1> USE DEF LoopInside
<1>1. CASE UNCHANGED <<loop, main>>
  BY <1>1
<1>2. CASE MainThread
  <2>1. CASE Start \/ StartPool
    BY <2>1 DEF Start, StartPool, loopVars, Pool!Start, Pool!Starting, Pool!Spawn,
                Pool!StartReturn
  <2>2. CASE StartLoop \/ StopConsuming
    BY <2>2 DEF StartLoop, StopConsuming, poolVars, threadVars
  <2>3. CASE StopPool \/ Stopping
    BY <2>3 DEF StopPool, Stopping, loopVars, Pool!Stop, Pool!Stopping, Pool!StopPut,
                Pool!StopJoin, Pool!StopReturn
  <2>4. QED
    BY <1>2, <2>1, <2>2, <2>3 DEF MainThread
<1>3. CASE LoopCheck \/ Consume \/ \E f \in Fields : Parse(f)
  BY <1>3 DEF LoopCheck, Consume, Parse, Fields, poolVars, threadVars
<1>4. CASE AsyncCall \/ Submit
  BY <1>4 DEF AsyncCall, Submit, Pool!PutTask, Pool!Submit
<1>5. ASSUME NEW w \in Pool!Workers, Calling(w) \/ Answered(w) \/ Failed(w)
      PROVE  UNCHANGED <<loop, main>>
  BY <1>5 DEF Calling, Worker, BeginCall, Read, Answered, Failed, Return,
              Pool!Check, Pool!Take, Pool!Run, loopVars, poolVars, threadVars
<1>6. CASE Pool!SpuriousWakeup /\ UNCHANGED <<threadVars, loopVars, callVars, crashed>>
  BY <1>1, <1>6 DEF threadVars, loopVars
<1>7. CASE UNCHANGED vars
  BY <1>1, <1>7 DEF vars, poolVars, threadVars, loopVars
<1>8. QED
  BY <1>1, <1>2, <1>3, <1>4, <1>5, <1>6, <1>7 DEF Next, Step, ConsumeLoop

\* The assertion on IsStarted in AsyncCall never fails, whenever Stop comes.
THEOREM AsyncCallAssertsCorrect == Spec => []AsyncCallAsserts
<1>1. Init => LoopInside
  BY DEF Init, AsyncClient, Pool!Init, LoopInside
<1>2. PoolInvariant /\ LoopInside => AsyncCallAsserts
  BY PoolFacts DEF LoopInside, AsyncCallAsserts, Pool!IsStarted
<1>3. QED
  BY <1>1, <1>2, InsideStep, PoolInv, PTL DEF Spec

-----------------------------------------------------------------------------
(* Types.                                                                  *)

Flags == /\ consuming \in BOOLEAN /\ alive \in BOOLEAN /\ crashed \in BOOLEAN
         /\ rateLimit \in BOOLEAN
RetriesType == retries \in Retries
PutsInLoop == putting # None <=> loop = "put"
Place == {"none", "begin", "request"} \cup Fields
Record == [Fields -> Messages \cup {None}]
CallType == /\ call \in [Pool!Workers -> Place]
            /\ read \in [Pool!Workers -> Record]
            /\ finished \in Seq(Messages)
CallsWhileRunning == \A w \in Pool!Workers : pc[w] = "run" <=> call[w] # "none"

\* A step of a worker in its loop, in a call, at the end of one, or none.
LEMMA CallSteps ==
    ASSUME NEW w \in Pool!Workers, Calling(w) \/ Answered(w) \/ Failed(w)
    PROVE  \/ Worker(w)
           \/ /\ UNCHANGED pc /\ call[w] # "none"
              /\ \E x \in Fields \cup {"request"} : call' = [call EXCEPT ![w] = x]
           \/ Return(w)
           \/ UNCHANGED <<pc, call>>
<1>1. ASSUME NEW f \in Fields, Read(w, f)
      PROVE  \/ /\ UNCHANGED pc /\ call[w] # "none"
                /\ \E x \in Fields \cup {"request"} : call' = [call EXCEPT ![w] = x]
             \/ UNCHANGED <<pc, call>>
  <2>1. UNCHANGED pc /\ call[w] # "none" /\ AfterRead[f] \in Fields \cup {"request"}
    BY <1>1 DEF Read, AfterRead, Fields, poolVars, threadVars
  <2>2. call' = [call EXCEPT ![w] = AfterRead[f]] \/ UNCHANGED call
    BY <1>1 DEF Read
  <2>3. QED
    BY <2>1, <2>2
<1>2. QED
  BY <1>1 DEF Calling, BeginCall, Answered, Failed, Fields, poolVars, threadVars, callVars

LEMMA CallsStep ==
    ASSUME PoolInvariant, CallType, CallsWhileRunning,
           NEW w \in Pool!Workers, Calling(w) \/ Answered(w) \/ Failed(w)
    PROVE  /\ call' \in [Pool!Workers -> Place]
           /\ CallsWhileRunning'
<1> USE PoolFacts DEF CallType, CallsWhileRunning, Place, Fields
<1>1. CASE Worker(w)
  <2>1. call' = [call EXCEPT ![w] = IF pc'[w] = "run" THEN "begin" ELSE @]
    BY <1>1 DEF Worker
  <2>2. /\ \A v \in Pool!Workers : v # w => pc'[v] = pc[v]
        /\ pc[w] \in {"loop", "take"}
    BY <1>1 DEF Worker, Pool!Check, Pool!Take
  <2>3. QED
    BY <2>1, <2>2
<1>2. CASE /\ UNCHANGED pc /\ call[w] # "none"
           /\ \E x \in Fields \cup {"request"} : call' = [call EXCEPT ![w] = x]
  BY <1>2
<1>3. CASE Return(w)
  BY <1>3 DEF Return, Pool!Run
<1>4. CASE UNCHANGED <<pc, call>>
  BY <1>4
<1>5. QED
  BY <1>1, <1>2, <1>3, <1>4, CallSteps

LEMMA CallTypeStep ==
    ASSUME LoopType, PoolInvariant, CallType, CallsWhileRunning,
           NEW w \in Pool!Workers, Calling(w) \/ Answered(w) \/ Failed(w)
    PROVE  CallType'
<1>1. /\ read \in [Pool!Workers -> Record] /\ finished \in Seq(Messages)
      /\ reqmsg \in Record /\ Empty \in Record
  BY DEF CallType, LoopType, Record, Empty
<1>2. read' \in [Pool!Workers -> Record]
  <2>1. ASSUME NEW f \in Fields, Read(w, f)
        PROVE  read' \in [Pool!Workers -> Record]
    <3>1. CASE UNCHANGED read
      BY <1>1, <3>1
    <3>2. CASE read' = [read EXCEPT ![w][f] = reqmsg[f]]
      <4>1. [read[w] EXCEPT ![f] = reqmsg[f]] \in Record
        BY <1>1 DEF Record
      <4>2. QED
        BY <1>1, <3>2, <4>1
    <3>3. QED
      BY <2>1, <3>1, <3>2 DEF Read
  <2>2. CASE read' = read \/ read' = [read EXCEPT ![w] = Empty]
    BY <1>1, <2>2
  <2>3. QED
    BY <2>1, <2>2 DEF Calling, Worker, BeginCall, Answered, Failed, Return, callVars
<1>4. finished' \in Seq(Messages)
  <2>1. CASE UNCHANGED finished
    BY <1>1, <2>1
  <2>2. CASE Answered(w)
    <3>1. w \in Running
      BY <2>2 DEF Answered, CallsWhileRunning, Running
    <3>2. todo[w] \in Messages
      BY <3>1, PoolFacts
    <3>3. QED
      BY <1>1, <2>2, <3>2 DEF Answered
  <2>3. QED
    BY <2>1, <2>2 DEF Calling, Worker, BeginCall, Read, Failed, callVars
<1>5. QED
  BY <1>2, <1>4, CallsStep DEF CallType

\* The steps of the other threads.
Others == \/ MainThread \/ Consume \/ ConsumeLoop
          \/ Pool!SpuriousWakeup /\ UNCHANGED <<threadVars, loopVars, callVars, crashed>>
          \/ UNCHANGED vars

LEMMA OtherSteps ==
    ASSUME PoolInvariant, Others
    PROVE  /\ UNCHANGED callVars /\ UNCHANGED taken /\ UNCHANGED todo
           /\ \A w \in Pool!Workers : pc'[w] = "run" <=> pc[w] = "run"
<1>1. CASE StartPool
  <2>1. UNCHANGED <<callVars, taken, todo>>
    BY <1>1 DEF StartPool, Pool!Starting, Pool!StartReturn, Pool!Spawn
  <2>2. CASE Pool!StartReturn
    BY <2>1, <2>2 DEF Pool!StartReturn
  <2>3. ASSUME NEW v \in Pool!Workers, Pool!Spawn(v)
        PROVE  \A w \in Pool!Workers : pc'[w] = "run" <=> pc[w] = "run"
    BY <2>3, PoolFacts DEF Pool!Spawn
  <2>4. QED
    BY <1>1, <2>1, <2>2, <2>3 DEF StartPool, Pool!Starting
<1>2. CASE MainThread /\ ~StartPool
  <2>1. UNCHANGED <<callVars, taken, todo, pc>>
    BY <1>2 DEF MainThread, Start, StartLoop, StopConsuming, StopPool, Stopping, Pool!Start,
                Pool!Stop, Pool!Stopping, Pool!StopPut, Pool!StopJoin, Pool!StopReturn,
                poolVars, threadVars
  <2>2. QED
    BY <2>1
<1>3. CASE LoopCheck \/ Consume \/ \E f \in Fields : Parse(f)
  <2>1. UNCHANGED <<callVars, taken, todo, pc>>
    BY <1>3 DEF LoopCheck, Consume, Parse, poolVars, threadVars
  <2>2. QED
    BY <2>1
<1>4. CASE AsyncCall \/ Submit
  <2>1. UNCHANGED <<callVars, taken, todo, pc>>
    BY <1>4 DEF AsyncCall, Submit, Pool!PutTask, Pool!Submit
  <2>2. QED
    BY <2>1
<1>5. CASE UNCHANGED <<threadVars, callVars>> \/ UNCHANGED vars
  <2>1. UNCHANGED <<callVars, taken, todo, pc>>
    BY <1>5 DEF vars, poolVars, threadVars
  <2>2. QED
    BY <2>1
<1>6. QED
  BY <1>1, <1>2, <1>3, <1>4, <1>5 DEF Others, ConsumeLoop

LEMMA StepCases ==
    ASSUME [Next]_vars
    PROVE  \/ Others
           \/ \E w \in Pool!Workers : Calling(w) \/ Answered(w) \/ Failed(w)
  BY DEF Next, Step, Others

CallInvariant == CallType /\ CallsWhileRunning

LEMMA CallInit == Init => CallInvariant
  BY DeliveryAssumption
     DEF Init, AsyncClient, Pool!Init, CallInvariant, CallType, CallsWhileRunning, Place,
         Record, Empty

LEMMA CallInvStep ==
    LoopType /\ PoolInvariant /\ CallInvariant /\ [Next]_vars => CallInvariant'
<1> SUFFICES ASSUME LoopType, PoolInvariant, CallInvariant, [Next]_vars
             PROVE  CallInvariant'
  OBVIOUS
<1>1. CASE Others
  <2>1. UNCHANGED callVars /\ \A w \in Pool!Workers : pc'[w] = "run" <=> pc[w] = "run"
    BY <1>1, OtherSteps
  <2>2. QED
    BY <2>1 DEF callVars, CallInvariant, CallType, CallsWhileRunning
<1>2. ASSUME NEW w \in Pool!Workers, Calling(w) \/ Answered(w) \/ Failed(w)
      PROVE  CallInvariant'
  BY <1>2, CallsStep, CallTypeStep DEF CallInvariant
<1>3. QED
  BY <1>1, <1>2, StepCases

LEMMA CallInv == Spec => []CallInvariant
  BY CallInit, CallInvStep, PoolInv, PTL DEF Spec

\* The submitter of the pool is ConsumeLoop, in the call that it makes.
LEMMA PutsStep ==
    LoopType /\ PoolInvariant /\ LoopInside /\ PutsInLoop /\ [Next]_vars => PutsInLoop'
<1> SUFFICES ASSUME LoopType, PoolInvariant, LoopInside, PutsInLoop, [Next]_vars
             PROVE  PutsInLoop'
  OBVIOUS
<1> USE DeliveryAssumption DEF PutsInLoop
<1>1. CASE UNCHANGED <<putting, loop>>
  BY <1>1
<1>2. CASE StartLoop
  BY <1>2 DEF StartLoop, poolVars, threadVars
<1>3. CASE LoopCheck \/ Consume \/ \E f \in Fields : Parse(f)
  BY <1>3 DEF LoopCheck, Consume, Parse, AfterParse, Fields, poolVars, threadVars
<1>4. CASE AsyncCall
  BY <1>4 DEF AsyncCall, Pool!PutTask, LoopType
<1>5. CASE Submit
  BY <1>5 DEF Submit, Pool!Submit
<1>6. CASE MainThread /\ ~StartLoop
  <2>1. UNCHANGED <<putting, loop>>
    BY <1>6 DEF MainThread, Start, StartPool, StopConsuming, StopPool, Stopping, Pool!Start,
                Pool!Starting, Pool!StartReturn, Pool!Spawn, Pool!Stop, Pool!Stopping,
                Pool!StopPut, Pool!StopJoin, Pool!StopReturn, loopVars, poolVars, threadVars
  <2>2. QED
    BY <1>1, <2>1
<1>7. CASE \E w \in Pool!Workers : Calling(w) \/ Answered(w) \/ Failed(w)
  <2>1. UNCHANGED <<putting, loop>>
    BY <1>7 DEF Calling, Worker, BeginCall, Read, Answered, Failed, Return,
                Pool!Check, Pool!Take, Pool!Run, loopVars, poolVars, threadVars
  <2>2. QED
    BY <1>1, <2>1
<1>8. CASE UNCHANGED <<threadVars, loopVars>> \/ UNCHANGED vars
  <2>1. UNCHANGED <<putting, loop>>
    BY <1>8 DEF vars, poolVars, threadVars, loopVars
  <2>2. QED
    BY <1>1, <2>1
<1>9. QED
  BY <1>1, <1>2, <1>3, <1>4, <1>5, <1>6, <1>7, <1>8, StepCases DEF Others, ConsumeLoop

\* The flags, and the configured number of retries.
LEMMA FlagsStep == Flags /\ RetriesType /\ [Next]_vars => Flags' /\ RetriesType'
<1> SUFFICES ASSUME Flags, RetriesType, [Next]_vars PROVE Flags' /\ RetriesType'
  OBVIOUS
<1>1. UNCHANGED <<retries, rateLimit>>
  BY DEF Next, vars
<1>2. crashed' = crashed \/ crashed' = TRUE
  BY DEF Next, Step, MainThread, Start, StartPool, StartLoop, StopConsuming, StopPool,
         Stopping, Consume, ConsumeLoop, LoopCheck, Parse, AsyncCall, Submit, Calling,
         Worker, BeginCall, Read, Answered, Failed, vars
<1>3. consuming' = consuming \/ consuming' = TRUE \/ consuming' = FALSE
  BY DEF Next, Step, MainThread, Start, StartPool, StartLoop, StopConsuming, StopPool,
         Stopping, Consume, ConsumeLoop, LoopCheck, Parse, AsyncCall, Submit, Calling,
         Worker, BeginCall, Read, Answered, Failed, vars, loopVars
<1>4. alive' = alive \/ alive' = TRUE \/ alive' = FALSE
  BY DEF Next, Step, MainThread, Start, StartPool, StartLoop, StopConsuming, StopPool,
         Stopping, Consume, ConsumeLoop, LoopCheck, Parse, AsyncCall, Submit, Calling,
         Worker, BeginCall, Read, Answered, Failed, vars, loopVars
<1>5. QED
  BY <1>1, <1>2, <1>3, <1>4 DEF Flags, RetriesType

\* Every variable has its type, the queue holds no more than its capacity, and a
\* worker is in a call exactly while it runs one.
THEOREM TypeCorrect == Spec => []TypeOK
<1>1. Init => LoopInside /\ PutsInLoop /\ Flags /\ RetriesType
  <2> SUFFICES ASSUME Init
               PROVE  LoopInside /\ PutsInLoop /\ Flags /\ RetriesType
    OBVIOUS
  <2>1. LoopInside /\ PutsInLoop /\ RetriesType
    BY DEF Init, AsyncClient, Pool!Init, LoopInside, PutsInLoop, RetriesType
  <2>2. Flags
    BY DEF Init, SetTokenBucket, Flags
  <2>3. QED
    BY <2>1, <2>2
<1>2. PoolProofs!Spec => []PoolProofs!TypeOK
  BY Assumptions, PoolProofs!TypeCorrect
<1>3. CallInvariant /\ PoolInvariant
          => Running = {w \in Pool!Workers : call[w] # "none"}
  BY DEF CallInvariant, CallsWhileRunning, Running
<1>4. LoopType /\ PoolInvariant /\ CallInvariant /\ PutsInLoop /\ Flags
      /\ RetriesType /\ PoolProofs!TypeOK => TypeOK
  BY <1>3, SamePool DEF TypeOK, LoopType, CallInvariant, CallType, PutsInLoop, Flags,
             RetriesType, Place, Record
<1>5. QED
  BY <1>1, <1>2, <1>4, ImplementsPool, PoolInv, CallInv, InsideStep, PutsStep, FlagsStep,
     PTL DEF Spec

-----------------------------------------------------------------------------
(* Tasks that have finished.                                               *)

\* A task that has finished was taken once, and no worker has it any more.
Done == /\ \A i, j \in DOMAIN finished : finished[i] = finished[j] => i = j
        /\ \A i \in DOMAIN finished : \E k \in DOMAIN taken : taken[k] = finished[i]
        /\ \A i \in DOMAIN finished : \A w \in Running : finished[i] # todo[w]

LEMMA DoneSame ==
    ASSUME Done, UNCHANGED <<finished, taken, todo>>,
           \A v \in Pool!Workers : pc'[v] = "run" => pc[v] = "run"
    PROVE  Done'
  BY DEF Done, Running, Pool!Workers

\* A task that is taken was not taken before, and so has not finished.
LEMMA DoneTake ==
    ASSUME PoolInvariant, Done, NEW w \in Pool!Workers, Pool!Take(w), UNCHANGED finished
    PROVE  Done'
<1>1. CASE Pool!TakeWait(w) /\ UNCHANGED <<pc, todo, taken>>
  BY <1>1, DoneSame
<1>2. CASE /\ Pool!TakeDone /\ todo' = [todo EXCEPT ![w] = Pool!front]
           /\ taken' = Append(taken, Pool!front)
           /\ pc' = [pc EXCEPT ![w] = IF Pool!front = Exit THEN "loop" ELSE "run"]
  <2>1. \A k \in DOMAIN taken : Pool!front = Exit \/ taken[k] # Pool!front
    <3>1. PoolProofs!TakeDone /\ Pool!front = PoolProofs!front
      BY <1>2 DEF Pool!TakeDone, PoolProofs!TakeDone, Pool!empty, PoolProofs!empty,
                  Pool!front, PoolProofs!front, Pool!NotifyOne, PoolProofs!NotifyOne
    <3>2. QED
      BY <3>1, Assumptions, PoolProofs!FreshFront DEF PoolInvariant
  <2>2. \A k \in DOMAIN taken : k \in DOMAIN taken' /\ taken'[k] = taken[k]
    BY <1>2, PoolFacts
  <2>3. \A i \in DOMAIN finished' : \E k \in DOMAIN taken' : taken'[k] = finished'[i]
    BY <2>2 DEF Done
  <2>4. \A i \in DOMAIN finished' : \A v \in Running' : finished'[i] # todo'[v]
    <3> SUFFICES ASSUME NEW i \in DOMAIN finished, NEW v \in Pool!Workers,
                        pc'[v] = "run"
                 PROVE  finished[i] # todo'[v]
      BY DEF Running, Pool!Workers
    <3>1. CASE v = w
      <4>1. Pool!front # Exit /\ todo'[w] = Pool!front
        BY <1>2, <3>1, PoolFacts
      <4>2. QED
        BY <2>1, <3>1, <4>1 DEF Done
    <3>2. CASE v # w
      <4>1. v \in Running /\ todo'[v] = todo[v]
        BY <1>2, <3>2, PoolFacts DEF Running
      <4>2. QED
        BY <4>1 DEF Done
    <3>3. QED
      BY <3>1, <3>2
  <2>5. QED
    BY <2>3, <2>4 DEF Done
<1>3. QED
  BY <1>1, <1>2 DEF Pool!Take

\* A task that finishes has not finished before, and its worker is done with it.
LEMMA DoneAnswer ==
    ASSUME PoolInvariant, CallInvariant, Done, NEW w \in Pool!Workers, Answered(w)
    PROVE  Done'
<1>1. /\ finished' = Append(finished, todo[w]) /\ UNCHANGED <<taken, todo>>
      /\ pc' = [pc EXCEPT ![w] = "loop"] /\ w \in Running
  BY DEF Answered, Return, Pool!Run, Running
<1>2. finished \in Seq(Messages)
  BY DEF CallInvariant, CallType
<1>3. /\ DOMAIN finished' = DOMAIN finished \cup {Len(finished) + 1}
      /\ \A i \in DOMAIN finished : finished'[i] = finished[i]
      /\ Len(finished) + 1 \notin DOMAIN finished
      /\ finished'[Len(finished) + 1] = todo[w]
  BY <1>1, <1>2
<1>4. \A v \in Running' : v \in Running /\ v # w
  BY <1>1, PoolFacts DEF Running, Pool!Workers
<1>5. \A i, j \in DOMAIN finished' : finished'[i] = finished'[j] => i = j
  BY <1>1, <1>3 DEF Done
<1>6. \A i \in DOMAIN finished' : \E k \in DOMAIN taken' : taken'[k] = finished'[i]
  BY <1>1, <1>3, PoolFacts DEF Done
<1>7. \A i \in DOMAIN finished' : \A v \in Running' : finished'[i] # todo'[v]
  BY <1>1, <1>3, <1>4, PoolFacts DEF Done
<1>8. QED
  BY <1>5, <1>6, <1>7 DEF Done

LEMMA DoneStep == PoolInvariant /\ CallInvariant /\ Done /\ [Next]_vars => Done'
<1> SUFFICES ASSUME PoolInvariant, CallInvariant, Done, [Next]_vars PROVE Done'
  OBVIOUS
<1>1. CASE Others
  BY <1>1, OtherSteps, DoneSame DEF callVars
<1>2. ASSUME NEW w \in Pool!Workers, Calling(w) \/ Answered(w) \/ Failed(w)
      PROVE  Done'
  <2>1. CASE Worker(w)
    <3>1. CASE Pool!Check(w)
      <4>1. UNCHANGED <<finished, taken, todo>>
        BY <2>1, <3>1 DEF Worker, Pool!Check
      <4>2. pc' = [pc EXCEPT ![w] = "take"] \/ pc' = [pc EXCEPT ![w] = "exited"]
        BY <3>1 DEF Pool!Check
      <4>3. QED
        BY <4>1, <4>2, DoneSame, PoolFacts
    <3>2. CASE Pool!Take(w)
      BY <2>1, <3>2, DoneTake DEF Worker
    <3>3. QED
      BY <2>1, <3>1, <3>2 DEF Worker
  <2>2. CASE Answered(w)
    BY <2>2, DoneAnswer
  <2>3. CASE Return(w) /\ UNCHANGED finished
    <3>1. UNCHANGED <<finished, taken, todo>> /\ pc' = [pc EXCEPT ![w] = "loop"]
      BY <2>3 DEF Return, Pool!Run
    <3>2. QED
      BY <3>1, DoneSame, PoolFacts
  <2>4. CASE UNCHANGED <<poolVars, finished>>
    BY <2>4, DoneSame DEF poolVars, threadVars
  <2>5. QED
    BY <1>2, <2>1, <2>2, <2>3, <2>4
       DEF Calling, BeginCall, Read, Failed, callVars
<1>3. QED
  BY <1>1, <1>2, StepCases

\* A task has at most one request answered 200, of all the workers and retries.
THEOREM OneSuccessPerTaskCorrect == Spec => []OneSuccessPerTask
<1>1. Init => Done
  BY DEF Init, Done
<1>2. Done => OneSuccessPerTask
  BY DEF Done, OneSuccessPerTask
<1>3. QED
  BY <1>1, <1>2, DoneStep, PoolInv, CallInv, PTL DEF Spec

-----------------------------------------------------------------------------
(* What a call reads through the reference that its task captured.         *)

\* The loop's variable is empty, or holds the last message that was consumed.
Current == \A f \in Fields : reqmsg[f] \in {None, offset}

\* Every task was made for a message that was consumed before.
Past == /\ putting # None => putting \in Messages /\ putting <= offset
        /\ \A i \in DOMAIN accepted : accepted[i] \in Messages => accepted[i] <= offset

\* What a call has read is between the message of its task and the last one
\* consumed, and what it read later is later.
Reads(w) ==
    /\ call[w] \in {"headers", "data", "request"} =>
           read[w]["url"] \in Messages /\ todo[w] <= read[w]["url"]
    /\ \A f \in Fields : read[w][f] # None =>
           /\ read[w]["url"] # None /\ read[w]["url"] <= read[w][f]
           /\ read[w][f] <= offset
    /\ call[w] \in {"none", "begin", "url"} => read[w] = Empty
    /\ call[w] = "headers" => read[w]["headers"] = None
    /\ call[w] # "request" => read[w]["data"] = None
    /\ None \notin {read[w]["headers"], read[w]["data"]}
           => read[w]["headers"] <= read[w]["data"]
ReadsForward == \A w \in Pool!Workers : Reads(w)

Forward == Current /\ Past /\ ReadsForward

LEMMA ForwardInit == Init => Forward
  BY DEF Init, AsyncClient, Pool!Init, Forward, Current, Past, ReadsForward, Reads, Empty,
         Fields

\* A task that a worker runs was made for a message that was consumed before.
LEMMA RunsPast ==
    ASSUME PoolInvariant, Past, NEW w \in Running
    PROVE  todo[w] \in Messages /\ todo[w] <= offset
<1>1. PICK i \in DOMAIN taken : taken[i] = todo[w]
  BY PoolFacts
<1>2. i \in DOMAIN accepted /\ accepted[i] = todo[w] /\ todo[w] \in Messages
  BY <1>1, PoolFacts
<1>3. QED
  BY <1>2 DEF Past

\* What is put is the message that is at hand.
LEMMA PastStep ==
    ASSUME LoopType, PoolInvariant, Past, [Next]_vars
    PROVE  Past' /\ offset <= offset'
<1> USE DeliveryAssumption DEF LoopType, Messages, Past
<1>1. accepted \in Seq(Messages \cup {Exit})
  BY PoolFacts
<1>2. CASE UNCHANGED <<offset, putting, accepted>>
  BY <1>2
<1>3. CASE Consume
  BY <1>3, <1>1 DEF Consume, poolVars, threadVars
<1>4. CASE AsyncCall
  BY <1>4 DEF AsyncCall, Pool!PutTask
<1>5. CASE Submit
  <2>1. CASE accepted' = Append(accepted, putting) /\ putting' = None
    <3>1. \A i \in DOMAIN accepted' : \/ i \in DOMAIN accepted /\ accepted'[i] = accepted[i]
                                      \/ accepted'[i] = putting
      BY <1>1, <2>1
    <3>2. UNCHANGED offset /\ putting # None
      BY <1>5 DEF Submit, Pool!Submit
    <3>3. QED
      BY <2>1, <3>1, <3>2
  <2>2. QED
    BY <1>2, <1>5, <2>1 DEF Submit, Pool!Submit
<1>6. CASE Stopping
  <2>1. UNCHANGED <<offset, putting>>
    BY <1>6 DEF Stopping, loopVars, Pool!Stopping, Pool!StopPut, Pool!StopJoin,
                Pool!StopReturn
  <2>2. CASE accepted' = Append(accepted, Exit)
    <3>1. \A i \in DOMAIN accepted' : \/ i \in DOMAIN accepted /\ accepted'[i] = accepted[i]
                                      \/ accepted'[i] = Exit
      BY <1>1, <2>2
    <3>2. QED
      BY <2>1, <3>1
  <2>3. UNCHANGED accepted \/ accepted' = Append(accepted, Exit)
    BY <1>6 DEF Stopping, Pool!Stopping, Pool!StopPut, Pool!StopJoin, Pool!StopReturn
  <2>4. QED
    BY <1>2, <2>1, <2>2, <2>3
<1>7. CASE (MainThread /\ ~Stopping) \/ LoopCheck \/ \E f \in Fields : Parse(f)
  <2>1. UNCHANGED <<offset, putting, accepted>>
    BY <1>7 DEF MainThread, Start, StartPool, StartLoop, StopConsuming, StopPool, LoopCheck,
                Parse, Pool!Start, Pool!Starting, Pool!StartReturn, Pool!Spawn, Pool!Stop,
                loopVars, poolVars, threadVars
  <2>2. QED
    BY <1>2, <2>1
<1>8. CASE \E w \in Pool!Workers : Calling(w) \/ Answered(w) \/ Failed(w)
  <2>1. UNCHANGED <<offset, putting, accepted>>
    BY <1>8 DEF Calling, Worker, BeginCall, Read, Answered, Failed, Return,
                Pool!Check, Pool!Take, Pool!Run, loopVars, poolVars, threadVars
  <2>2. QED
    BY <1>2, <2>1
<1>9. CASE UNCHANGED <<threadVars, loopVars>> \/ UNCHANGED vars
  <2>1. UNCHANGED <<offset, putting, accepted>>
    BY <1>9 DEF vars, poolVars, threadVars, loopVars
  <2>2. QED
    BY <1>2, <2>1
<1>10. QED
  BY <1>3, <1>4, <1>5, <1>6, <1>7, <1>8, <1>9, StepCases DEF Others, ConsumeLoop

LEMMA CurrentStep == ASSUME LoopType, Current, [Next]_vars PROVE Current'
<1> USE DEF Current
<1>1. CASE UNCHANGED <<offset, reqmsg>>
  BY <1>1
<1>2. CASE Consume
  BY <1>1, <1>2 DEF Consume, Empty
<1>3. ASSUME NEW f \in Fields, Parse(f) PROVE Current'
  BY <1>3 DEF Parse, LoopType
<1>4. CASE Others /\ ~Consume /\ ~\E f \in Fields : Parse(f)
  BY <1>1, <1>4
     DEF Others, MainThread, Start, StartPool, StartLoop, StopConsuming, StopPool, Stopping,
         ConsumeLoop, LoopCheck, AsyncCall, Submit, vars, loopVars
<1>5. CASE \E w \in Pool!Workers : Calling(w) \/ Answered(w) \/ Failed(w)
  BY <1>1, <1>5
     DEF Calling, Worker, BeginCall, Read, Answered, Failed, loopVars
<1>6. QED
  BY <1>2, <1>3, <1>4, <1>5, StepCases

\* A step of a worker.  Its task does not change while it is in a call.
LEMMA ReadsWorker ==
    ASSUME LoopType, PoolInvariant, CallInvariant, Forward,
           NEW w \in Pool!Workers, Calling(w) \/ Answered(w) \/ Failed(w)
    PROVE  ReadsForward'
<1>1. UNCHANGED offset
  BY DEF Calling, Worker, BeginCall, Read, Answered, Failed, loopVars
<1>2. /\ call \in [Pool!Workers -> Place] /\ read \in [Pool!Workers -> Record]
      /\ todo \in [Pool!Workers -> Messages \cup {Exit, None}]
  BY PoolFacts DEF CallInvariant, CallType
<1>3. Reads(w) /\ \A v \in Pool!Workers : Reads(v)
  BY DEF Forward, ReadsForward
<1>4. ASSUME \A v \in Pool!Workers \ {w} : /\ call'[v] = call[v] /\ read'[v] = read[v]
                                            /\ todo'[v] = todo[v],
             Reads(w)'
      PROVE  ReadsForward'
  <2> SUFFICES ASSUME NEW v \in Pool!Workers, v # w PROVE Reads(v)'
    BY <1>4 DEF ReadsForward
  <2>1. QED
    BY <1>1, <1>3, <1>4 DEF Reads
<1>5. CASE Worker(w)
  <2>1. UNCHANGED read
    BY <1>5 DEF Worker
  <2>2. \A v \in Pool!Workers \ {w} : call'[v] = call[v] /\ todo'[v] = todo[v]
    BY <1>2, <1>5 DEF Worker, Pool!Check, Pool!Take
  <2>3. call[w] = "none" /\ call'[w] \in {"none", "begin"}
    <3>1. pc[w] # "run"
      BY <1>5 DEF Worker, Pool!Check, Pool!Take
    <3>2. call[w] = "none"
      BY <3>1 DEF CallInvariant, CallsWhileRunning
    <3>3. QED
      BY <1>2, <1>5, <3>2 DEF Worker
  <2>4. Reads(w)'
    BY <1>1, <1>3, <2>1, <2>3 DEF Reads
  <2>5. QED
    BY <1>4, <2>1, <2>2, <2>4
<1>6. ASSUME UNCHANGED todo, read' = [read EXCEPT ![w] = Empty],
             NEW x \in {"none", "url"}, call' = [call EXCEPT ![w] = x]
      PROVE  ReadsForward'
  <2>1. read'[w] = Empty /\ call'[w] = x
    BY <1>2, <1>6
  <2>2. Reads(w)'
    BY <2>1 DEF Reads, Empty, Fields
  <2>3. QED
    BY <1>2, <1>4, <1>6, <2>2
<1>7. CASE Return(w)
  BY <1>6, <1>7 DEF Return, Pool!Run
<1>8. CASE UNCHANGED <<todo, read, call>>
  BY <1>1, <1>3, <1>8 DEF ReadsForward, Reads
<1>9. CASE BeginCall(w)
  <2>1. CASE /\ UNCHANGED <<todo, read>> /\ call[w] = "begin"
             /\ call' = [call EXCEPT ![w] = "url"]
    <3>1. call'[w] = "url"
      BY <1>2, <2>1
    <3>2. Reads(w)'
      BY <1>1, <1>3, <2>1, <3>1 DEF Reads
    <3>3. QED
      BY <1>2, <1>4, <2>1, <3>2
  <2>2. QED
    BY <1>7, <1>8, <1>9, <2>1 DEF BeginCall, poolVars, threadVars, callVars
<1>10. CASE Failed(w)
  BY <1>6, <1>8, <1>10 DEF Failed, poolVars, threadVars
<1>11. ASSUME NEW f \in Fields, Read(w, f) PROVE ReadsForward'
  <2>1. CASE UNCHANGED <<call, read>>
    BY <1>8, <1>11, <2>1 DEF Read, poolVars, threadVars
  <2>2. CASE /\ read' = [read EXCEPT ![w][f] = reqmsg[f]]
             /\ call' = [call EXCEPT ![w] = AfterRead[f]]
             /\ f = "url" => reqmsg[f] # None
    <3>1. call[w] = f /\ UNCHANGED todo
      BY <1>11 DEF Read, poolVars, threadVars
    <3>2. todo[w] \in Messages /\ todo[w] <= offset
      <4>1. w \in Running
        BY <3>1 DEF CallInvariant, CallsWhileRunning, Running, Fields
      <4>2. QED
        BY <4>1, RunsPast DEF Forward
    <3>3. /\ reqmsg[f] # None => reqmsg[f] = offset /\ offset \in Messages
          /\ offset \in Nat /\ offset <= offset
      BY DeliveryAssumption DEF Forward, Current, LoopType
    <3>4. /\ read'[w][f] = reqmsg[f]
          /\ \A g \in Fields \ {f} : read'[w][g] = read[w][g]
          /\ call'[w] = AfterRead[f]
      BY <1>2, <2>2 DEF Record
    <3>5. read[w]["url"] # None => read[w]["url"] <= offset
      BY <1>3 DEF Reads, Fields
    <3>6. Reads(w)'
      <4>1. CASE f = "url"
        <5>1. read[w] = Empty /\ read'[w]["headers"] = None /\ read'[w]["data"] = None
          BY <1>3, <3>1, <3>4, <4>1 DEF Reads, Empty, Fields
        <5>2. read'[w]["url"] = offset /\ call'[w] = "headers" /\ offset \in Messages
          BY <2>2, <3>3, <3>4, <4>1 DEF AfterRead
        <5>3. offset # None
          BY <5>2, DeliveryAssumption
        <5>4. QED
          BY <1>1, <3>1, <3>2, <3>3, <5>1, <5>2, <5>3 DEF Reads, Fields
      <4>2. CASE f = "headers"
        <5>1. /\ read'[w]["url"] = read[w]["url"] /\ read'[w]["data"] = None
              /\ read'[w]["headers"] = reqmsg[f] /\ call'[w] = "data"
              /\ read[w]["url"] \in Messages /\ todo[w] <= read[w]["url"]
          BY <1>3, <3>1, <3>4, <4>2 DEF Reads, AfterRead, Fields
        <5>2. read[w]["url"] # None /\ read[w]["url"] <= read[w]["url"]
          BY <5>1, DeliveryAssumption DEF Messages
        <5>3. QED
          BY <1>1, <3>1, <3>3, <3>5, <5>1, <5>2 DEF Reads, Fields
      <4>3. CASE f = "data"
        <5>1. /\ read'[w]["url"] = read[w]["url"] /\ read'[w]["data"] = reqmsg[f]
              /\ read'[w]["headers"] = read[w]["headers"] /\ call'[w] = "request"
              /\ read[w]["url"] \in Messages /\ todo[w] <= read[w]["url"]
          BY <1>3, <3>1, <3>4, <4>3 DEF Reads, AfterRead, Fields
        <5>2. read[w]["url"] # None /\ read[w]["url"] <= read[w]["url"]
          BY <5>1, DeliveryAssumption DEF Messages
        <5>3. read[w]["headers"] # None => /\ read[w]["headers"] <= offset
                                           /\ read[w]["url"] <= read[w]["headers"]
          BY <1>3 DEF Reads, Fields
        <5>4. QED
          BY <1>1, <3>1, <3>3, <3>5, <5>1, <5>2, <5>3 DEF Reads, Fields
      <4>4. QED
        BY <4>1, <4>2, <4>3 DEF Fields
    <3>7. QED
      BY <1>2, <1>4, <2>2, <3>1, <3>6
  <2>3. QED
    BY <1>11, <2>1, <2>2 DEF Read
<1>12. QED
  BY <1>5, <1>7, <1>9, <1>10, <1>11 DEF Calling, Answered

LEMMA ForwardStep ==
    LoopType /\ PoolInvariant /\ CallInvariant /\ Forward /\ [Next]_vars => Forward'
<1> SUFFICES ASSUME LoopType, PoolInvariant, CallInvariant, Forward, [Next]_vars
             PROVE  Forward'
  OBVIOUS
<1>1. Current' /\ Past' /\ offset <= offset'
  BY CurrentStep, PastStep DEF Forward
<1>2. CASE Others
  <2>1. UNCHANGED <<call, read, todo>>
    BY <1>2, OtherSteps DEF callVars
  <2>2. offset' \in Nat /\ offset \in Nat
    BY LoopStep, DeliveryAssumption DEF LoopType
  <2>3. \A m \in Messages : m <= offset => m <= offset'
    BY <1>1, <2>2, DeliveryAssumption DEF Messages
  <2>4. \A w \in Pool!Workers, f \in Fields : read[w][f] \in Messages \cup {None}
    BY DEF CallInvariant, CallType, Record
  <2>5. QED
    BY <1>1, <2>1, <2>3, <2>4 DEF Forward, ReadsForward, Reads
<1>3. CASE \E w \in Pool!Workers : Calling(w) \/ Answered(w) \/ Failed(w)
  BY <1>1, <1>3, ReadsWorker DEF Forward
<1>4. QED
  BY <1>2, <1>3, StepCases

\* A request has the URL of its task's message or of a later one, and the headers
\* of that message or of a later one, or none.
THEOREM OwnOrLaterCorrect == Spec => []OwnOrLater
<1>1. Forward => OwnOrLater
  BY DEF Forward, ReadsForward, Reads, OwnOrLater, Running, Fields
<1>2. QED
  BY <1>1, ForwardInit, ForwardStep, PoolInv, CallInv, PTL DEF Spec

-----------------------------------------------------------------------------
(* How many messages are under way.                                        *)

InHand == IF loop \in Fields \cup {"call", "put"} THEN 1 ELSE 0

\* Until Stop, what was consumed is in hand, on the queue, running or finished.
Counted ==
    RetriesType /\ retries + 1 # 0 /\ main \in {"new", "starting", "up"} =>
        /\ \A i \in DOMAIN accepted : accepted[i] # Exit
        /\ offset = Len(accepted) + InHand
        /\ Len(taken) = Len(finished) + Cardinality(Running)

LEMMA RunningSize == /\ IsFiniteSet(Running) /\ Cardinality(Running) \in Nat
                     /\ Cardinality(Running) <= maxThreads
<1>1. IsFiniteSet(1..maxThreads) /\ Cardinality(1..maxThreads) = maxThreads
  BY FS_Interval, DeliveryAssumption
<1>2. Running \subseteq 1..maxThreads
  BY DEF Running, Pool!Workers
<1>3. QED
  BY <1>1, <1>2, FS_Subset, FS_CardinalityType

\* What is on the queue and what was taken is what was put.
LEMMA PoolSizes ==
    ASSUME PoolInvariant
    PROVE  /\ Len(accepted) = Len(taken) + Len(ringbuffer)
           /\ Len(accepted) \in Nat /\ Len(taken) \in Nat /\ Len(ringbuffer) \in Nat
           /\ Len(ringbuffer) <= Capacity
           /\ ringbuffer # <<>> => /\ Len(taken) + 1 \in DOMAIN accepted
                                   /\ accepted[Len(taken) + 1] = ringbuffer[1]
<1>1. ringbuffer \in Seq(Messages \cup {Exit}) /\ Len(ringbuffer) <= Capacity
  BY DEF PoolInvariant, PoolProofs!Data, PoolProofs!QueueType, PoolProofs!Element
<1>2. accepted \in Seq(Messages \cup {Exit})
  BY PoolFacts
<1>3. /\ DOMAIN accepted = 1..(Len(taken) + Len(ringbuffer))
      /\ Len(taken) \in Nat /\ Len(ringbuffer) \in Nat
      /\ \A i \in DOMAIN ringbuffer : accepted[Len(taken) + i] = ringbuffer[i]
  BY Assumptions, PoolProofs!Places DEF PoolInvariant, PoolProofs!Place
<1>4. DOMAIN accepted = 1..Len(accepted) /\ Len(accepted) \in Nat
  BY <1>2
<1>5. ringbuffer # <<>> => 1 \in DOMAIN ringbuffer /\ Len(ringbuffer) >= 1
  BY <1>1
<1>6. QED
  BY <1>1, <1>3, <1>4, <1>5

\* The bound follows from the count, as long as the pool runs.
LEMMA CountBounds ==
    ASSUME LoopType, PoolInvariant, CallInvariant, RetriesType, Counted,
           main \in {"new", "starting", "up"}
    PROVE  FewTasksUnderWay
<1> SUFFICES ASSUME retries + 1 # 0
             PROVE  offset - Len(finished) <= Capacity + maxThreads
                       + (IF loop \in Fields \cup {"call", "put", "exited"} THEN 1 ELSE 0)
  BY DEF FewTasksUnderWay
<1>1. Len(finished) \in Nat /\ offset \in Nat
  BY DeliveryAssumption DEF CallInvariant, CallType, LoopType
<1>2. offset = Len(accepted) + InHand /\ Len(taken) = Len(finished) + Cardinality(Running)
  BY DEF Counted
<1>3. QED
  BY <1>1, <1>2, RunningSize, PoolSizes, DeliveryAssumption DEF InHand

\* A step that is no worker's.
LEMMA CountOthers ==
    ASSUME LoopType, PoolInvariant, RetriesType, LoopInside, Counted, Others,
           retries' = retries
    PROVE  Counted'
<1> SUFFICES ASSUME retries + 1 # 0, main' \in {"new", "starting", "up"}
             PROVE  /\ \A i \in DOMAIN accepted' : accepted'[i] # Exit
                    /\ offset' = Len(accepted') + InHand'
                    /\ Len(taken') = Len(finished') + Cardinality(Running')
  BY DEF Counted
<1>1. UNCHANGED <<finished, taken>> /\ Running' = Running
  BY OtherSteps DEF callVars, Running, Pool!Workers
<1>2. main \in {"new", "starting", "up"}
  BY DEF Others, MainThread, Start, StartPool, StartLoop, StopConsuming, StopPool, Stopping,
         Consume, ConsumeLoop, LoopCheck, Parse, AsyncCall, Submit, Pool!Start,
         Pool!Starting, Pool!StartReturn, Pool!Spawn, Pool!Stop, Pool!Stopping,
         Pool!StopPut, Pool!StopJoin, Pool!StopReturn, Pool!PutTask, Pool!Submit, vars,
         poolVars, threadVars
<1>3. /\ \A i \in DOMAIN accepted : accepted[i] # Exit
      /\ offset = Len(accepted) + InHand
      /\ Len(taken) = Len(finished) + Cardinality(Running)
  BY <1>2 DEF Counted
<1>4. accepted \in Seq(Messages \cup {Exit}) /\ offset \in Nat /\ Len(accepted) \in Nat
  BY PoolFacts, DeliveryAssumption DEF LoopType
<1>5. CASE UNCHANGED <<accepted, offset, InHand>>
  BY <1>1, <1>3, <1>5
<1>6. CASE Consume
  <2>1. UNCHANGED accepted /\ loop = "consume"
    BY <1>6 DEF Consume, poolVars, threadVars
  <2>2. CASE offset' = offset + 1 /\ loop' = "url"
    BY <1>1, <1>3, <1>4, <2>1, <2>2 DEF InHand, Fields
  <2>3. CASE UNCHANGED offset /\ loop' \in {"consume", "exited"}
    BY <1>5, <2>1, <2>3 DEF InHand, Fields
  <2>4. QED
    BY <1>6, <2>2, <2>3, <2>1 DEF Consume
<1>7. CASE Submit
  <2>1. UNCHANGED offset /\ loop = "put"
    BY <1>7 DEF Submit
  <2>2. CASE putting' = putting /\ UNCHANGED accepted
    BY <1>5, <1>7, <2>1, <2>2 DEF Submit, Pool!Submit, InHand
  <2>3. CASE accepted' = Append(accepted, putting) /\ putting' = None
    <3>1. putting # Exit /\ loop' = "check"
      BY <1>7, <2>3, PoolFacts, DeliveryAssumption DEF Submit, Pool!Submit
    <3>2. /\ Len(accepted') = Len(accepted) + 1
          /\ \A i \in DOMAIN accepted' : \/ i \in DOMAIN accepted
                                            /\ accepted'[i] = accepted[i]
                                         \/ accepted'[i] = putting
      BY <1>4, <2>3
    <3>3. QED
      BY <1>1, <1>3, <1>4, <2>1, <3>1, <3>2 DEF InHand, Fields
  <2>4. QED
    BY <1>7, <2>2, <2>3 DEF Submit, Pool!Submit
<1>8. CASE MainThread
  <2>1. CASE Start \/ StartPool
    BY <1>5, <2>1 DEF Start, StartPool, Pool!Start, Pool!Starting, Pool!StartReturn,
                      Pool!Spawn, InHand, loopVars
  <2>2. CASE StartLoop
    BY <1>5, <2>2 DEF StartLoop, InHand, Fields, poolVars, threadVars
  <2>3. CASE StopConsuming
    BY <1>5, <2>3 DEF StopConsuming, InHand, poolVars, threadVars
  <2>4. ~StopPool /\ ~Stopping
    BY <1>2 DEF StopPool, Stopping, Pool!Stop, Pool!Stopping, Pool!StopPut, Pool!StopJoin,
                Pool!StopReturn
  <2>5. QED
    BY <1>8, <2>1, <2>2, <2>3, <2>4 DEF MainThread
<1>9. CASE LoopCheck \/ AsyncCall \/ \E f \in Fields : Parse(f)
  BY <1>5, <1>9 DEF LoopCheck, Parse, AfterParse, AsyncCall, Pool!PutTask, poolVars,
                    threadVars, InHand, Fields
<1>10. CASE UNCHANGED <<threadVars, loopVars>> \/ UNCHANGED vars
  BY <1>5, <1>10 DEF vars, poolVars, threadVars, loopVars, InHand
<1>11. QED
  BY <1>6, <1>7, <1>8, <1>9, <1>10 DEF Others, ConsumeLoop

\* A worker that takes a task runs it, and is done with it when it has finished.
LEMMA CountWorker ==
    ASSUME PoolInvariant, CallInvariant, RetriesType, retries + 1 # 0,
           main \in {"new", "starting", "up"}, Counted,
           NEW w \in Pool!Workers, Calling(w) \/ Answered(w) \/ Failed(w)
    PROVE  Len(taken') = Len(finished') + Cardinality(Running')
<1>1. /\ \A i \in DOMAIN accepted : accepted[i] # Exit
      /\ Len(taken) = Len(finished) + Cardinality(Running)
  BY DEF Counted
<1>2. /\ taken \in Seq(Messages \cup {Exit}) /\ finished \in Seq(Messages)
      /\ pc \in [Pool!Workers -> {"unborn", "loop", "take", "run", "exited"}]
  BY PoolFacts DEF CallInvariant, CallType
<1>3. /\ Len(taken) \in Nat /\ Len(finished) \in Nat /\ IsFiniteSet(Running)
      /\ Cardinality(Running) \in Nat
  BY <1>2, RunningSize
<1>4. CASE UNCHANGED <<taken, finished>> /\ Running' = Running
  BY <1>1, <1>4
<1>5. CASE Worker(w)
  <2>1. UNCHANGED finished /\ w \notin Running
    BY <1>5 DEF Worker, Pool!Check, Pool!Take, Running
  <2>2. CASE Pool!Check(w)
    <3>1. UNCHANGED taken
      BY <2>2 DEF Pool!Check
    <3>2. Running' = Running
      BY <1>2, <2>2 DEF Pool!Check, Running, Pool!Workers
    <3>3. QED
      BY <1>4, <2>1, <3>1, <3>2
  <2>3. CASE Pool!Take(w) /\ UNCHANGED <<pc, taken>>
    BY <1>4, <2>1, <2>3 DEF Running, Pool!Workers
  <2>4. CASE /\ Pool!TakeDone /\ taken' = Append(taken, Pool!front)
             /\ pc' = [pc EXCEPT ![w] = IF Pool!front = Exit THEN "loop" ELSE "run"]
    <3>1. Pool!front # Exit
      <4>1. ringbuffer # <<>> /\ Pool!front = ringbuffer[1]
        BY <2>4 DEF Pool!TakeDone, Pool!empty, Pool!front
      <4>2. QED
        BY <1>1, <4>1, PoolSizes
    <3>2. Running' = Running \cup {w}
      BY <1>2, <2>4, <3>1 DEF Running, Pool!Workers
    <3>3. Cardinality(Running') = Cardinality(Running) + 1
      BY <1>3, <2>1, <3>2, FS_AddElement
    <3>4. Len(taken') = Len(taken) + 1
      BY <1>2, <2>4
    <3>5. QED
      BY <1>1, <1>3, <2>1, <3>3, <3>4
  <2>5. QED
    BY <1>5, <2>2, <2>3, <2>4 DEF Worker, Pool!Take
<1>6. CASE Answered(w)
  <2>1. /\ finished' = Append(finished, todo[w]) /\ UNCHANGED taken /\ w \in Running
        /\ pc' = [pc EXCEPT ![w] = "loop"]
    BY <1>6 DEF Answered, Return, Pool!Run, Running
  <2>2. Running' = Running \ {w}
    BY <1>2, <2>1 DEF Running, Pool!Workers
  <2>3. Cardinality(Running') = Cardinality(Running) - 1
    BY <1>3, <2>1, <2>2, FS_RemoveElement
  <2>4. Len(finished') = Len(finished) + 1
    BY <2>1, <1>2
  <2>5. QED
    BY <1>1, <1>3, <2>1, <2>3, <2>4
<1>7. CASE UNCHANGED <<poolVars, finished>>
  BY <1>4, <1>7 DEF poolVars, threadVars, Running, Pool!Workers
<1>8. QED
  BY <1>5, <1>6, <1>7
     DEF Calling, BeginCall, Read, Failed, callVars

LEMMA CountStep ==
    ASSUME LoopType, PoolInvariant, CallInvariant, RetriesType, LoopInside, Counted,
           [Next]_vars
    PROVE  Counted'
<1>1. UNCHANGED retries
  BY DEF Next, vars
<1>2. CASE Others
  BY <1>1, <1>2, CountOthers
<1>3. ASSUME NEW w \in Pool!Workers, Calling(w) \/ Answered(w) \/ Failed(w)
      PROVE  Counted'
  <2>1. UNCHANGED <<accepted, offset, loop, main>>
    BY <1>3 DEF Calling, Worker, BeginCall, Read, Answered, Failed, Return,
                Pool!Check, Pool!Take, Pool!Run, loopVars, poolVars, threadVars
  <2>2. QED
    BY <1>1, <1>3, <2>1, CountWorker DEF Counted, InHand, RetriesType
<1>4. QED
  BY <1>2, <1>3, StepCases

\* Once Stop has begun nothing is consumed, and more tasks may finish.
StoppedFew == main \notin {"new", "starting", "up"} => FewTasksUnderWay

LEMMA StoppedStep ==
    ASSUME LoopType, PoolInvariant, CallInvariant, LoopInside, FewTasksUnderWay, [Next]_vars
    PROVE  StoppedFew'
<1> SUFFICES ASSUME main' \notin {"new", "starting", "up"} PROVE FewTasksUnderWay'
  BY DEF StoppedFew
<1>1. loop = "exited"
  <2>1. CASE main \notin {"new", "starting", "up"}
    BY <2>1 DEF LoopInside
  <2>2. CASE StopPool
    BY <2>2 DEF StopPool
  <2>3. CASE main \in {"new", "starting", "up"} /\ ~StopPool
    <3>1. CASE Others
      BY <2>3, <3>1
         DEF Others, MainThread, Start, StartPool, StartLoop, StopConsuming, Stopping,
             Consume, ConsumeLoop, LoopCheck, Parse, AsyncCall, Submit, Pool!Start,
             Pool!Starting, Pool!StartReturn, Pool!Spawn, Pool!Stopping, Pool!StopPut,
             Pool!StopJoin, Pool!StopReturn, Pool!PutTask, Pool!Submit, vars, poolVars,
             threadVars
    <3>2. CASE \E w \in Pool!Workers : Calling(w) \/ Answered(w) \/ Failed(w)
      BY <2>3, <3>2
         DEF Calling, Worker, BeginCall, Read, Answered, Failed, Return,
             Pool!Check, Pool!Take, Pool!Run, poolVars, threadVars
    <3>3. QED
      BY <3>1, <3>2, StepCases
  <2>4. QED
    BY <2>1, <2>2, <2>3
<1>2. loop' = "exited"
  BY InsideStep DEF LoopInside
<1>3. UNCHANGED <<offset, retries>>
  <2>1. UNCHANGED retries
    BY DEF Next, vars
  <2>2. CASE Others
    BY <1>1, <2>1, <2>2
       DEF Others, MainThread, Start, StartPool, StartLoop, StopConsuming, StopPool,
           Stopping, Consume, ConsumeLoop, LoopCheck, Parse, AsyncCall, Submit, Fields,
           vars, loopVars
  <2>3. CASE \E w \in Pool!Workers : Calling(w) \/ Answered(w) \/ Failed(w)
    BY <2>1, <2>3
       DEF Calling, Worker, BeginCall, Read, Answered, Failed, loopVars
  <2>4. QED
    BY <2>2, <2>3, StepCases
<1>4. finished \in Seq(Messages) /\ offset \in Nat
  BY DeliveryAssumption DEF CallInvariant, CallType, LoopType
<1>5. Len(finished) <= Len(finished') /\ Len(finished') \in Nat
  <2>1. CASE UNCHANGED finished
    BY <1>4, <2>1
  <2>2. ASSUME NEW w \in Pool!Workers, Answered(w)
        PROVE  Len(finished') = Len(finished) + 1
    <3>1. w \in Running /\ finished' = Append(finished, todo[w])
      BY <2>2 DEF Answered, Return, Pool!Run, Running
    <3>2. todo[w] \in Messages
      BY <3>1, PoolFacts
    <3>3. QED
      BY <1>4, <3>1, <3>2
  <2>3. CASE Others
    BY <2>1, <2>3, OtherSteps DEF callVars
  <2>4. CASE \E w \in Pool!Workers : Calling(w) \/ Failed(w)
    BY <2>1, <2>4 DEF Calling, Worker, BeginCall, Read, Failed, callVars
  <2>5. QED
    BY <1>4, <2>2, <2>3, <2>4, <2>1, StepCases
<1>6. QED
  BY <1>1, <1>2, <1>3, <1>4, <1>5, DeliveryAssumption DEF FewTasksUnderWay

\* ConsumeLoop is ahead of the tasks that have finished, if calls are made at all, by
\* what the queue, the workers and one iteration of the loop hold.
THEOREM FewTasksUnderWayCorrect == Spec => []FewTasksUnderWay
<1>1. Init => LoopInside /\ RetriesType /\ Counted /\ StoppedFew
  <2> SUFFICES ASSUME Init PROVE LoopInside /\ RetriesType /\ Counted /\ StoppedFew
    OBVIOUS
  <2>1. LoopInside /\ RetriesType /\ StoppedFew
    BY DEF Init, AsyncClient, Pool!Init, LoopInside, RetriesType, StoppedFew
  <2>2. Running = {}
    BY DEF Init, AsyncClient, Pool!Init, Running
  <2>3. Counted
    BY <2>2, FS_EmptySet DEF Init, AsyncClient, Pool!Init, Counted, InHand, Fields
  <2>4. QED
    BY <2>1, <2>3
<1>2. RetriesType /\ [Next]_vars => RetriesType'
  BY DEF RetriesType, Next, vars
<1>3. LoopType /\ PoolInvariant /\ CallInvariant /\ RetriesType /\ Counted /\ StoppedFew
          => FewTasksUnderWay
  BY CountBounds DEF StoppedFew
<1>4. LoopType /\ PoolInvariant /\ CallInvariant /\ RetriesType /\ LoopInside /\ Counted
      /\ FewTasksUnderWay /\ [Next]_vars => Counted' /\ StoppedFew'
  BY CountStep, StoppedStep
<1>5. QED
  BY <1>1, <1>2, <1>3, <1>4, InsideStep, PoolInv, CallInv, PTL DEF Spec

-----------------------------------------------------------------------------
\* Backpressure ends where it has to: ConsumeLoop sleeps in AsyncCall only while the
\* queue is full, and the workers do not all sleep while a message waits there.
THEOREM LoopAwake ==
    ASSUME maxThreads # 0
    PROVE  Spec => [](/\ "submitter" \in notFull => Len(ringbuffer) >= Capacity
                      /\ ringbuffer # <<>> => notEmpty # Pool!Workers)
<1>1. PoolProofs!IsFiniteSet(Messages)
  <2>1. IsFiniteSet(Messages)
    BY DeliveryAssumption, FS_Interval DEF Messages
  <2>2. QED
    BY <2>1 DEF IsFiniteSet, PoolProofs!IsFiniteSet
<1>2. PoolProofs!Spec => [](notFull # {} => PoolProofs!full)
  BY <1>1, Assumptions, PoolProofs!PutterAwake
<1>3. PoolProofs!Spec => [](ringbuffer # <<>> => notEmpty # PoolProofs!Workers)
  BY <1>1, Assumptions, PoolProofs!WorkerAwake
<1>4. /\ notFull # {} => PoolProofs!full
      /\ ringbuffer # <<>> => notEmpty # PoolProofs!Workers
      => /\ "submitter" \in notFull => Len(ringbuffer) >= Capacity
         /\ ringbuffer # <<>> => notEmpty # Pool!Workers
  BY SamePool DEF PoolProofs!full
<1>5. QED
  BY <1>2, <1>3, <1>4, ImplementsPool, PTL
=============================================================================

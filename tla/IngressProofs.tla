--------------------------- MODULE IngressProofs ---------------------------
(***************************************************************************)
(* What the way from a request to Kafka keeps for every capacity, any      *)
(* requests and any limit of the library's out queue.                      *)
(***************************************************************************)
EXTENDS Ingress, SequenceTheorems, FiniteSetTheorems, TLAPS

Message == Requests \cup {Exit}

-----------------------------------------------------------------------------
(* Types.  The queue and who sleeps in it; main; RpcCallback; Pushing.     *)

QueueType ==
    /\ ringbuffer \in Seq(Message) /\ Len(ringbuffer) <= Capacity
    /\ accepted \in Seq(Message) /\ taken \in Seq(Message)
Sleepers ==
    /\ notEmpty \subseteq (IF pushing = "take" THEN {"pushing"} ELSE {})
    /\ notFull \subseteq {"main", "http"}
    /\ "main" \in notFull => main = "notifying"
    /\ "http" \in notFull => http = "put"
MainType ==
    /\ main \in {"new", "spawned", "producing", "serving", "waiting",
                 "interrupted"} \/ Stopping
    /\ sigints \in 0..MaxSignals
Flags == IsRunning \in BOOLEAN /\ crashed \in BOOLEAN
HttpType ==
    /\ http \in {"down", "idle", "check", "put", "answer"}
    /\ handling \in Requests \cup {None}
    /\ http \in {"check", "put", "answer"} <=> handling \in Requests
    /\ answers \in [Requests -> Seq({0, -1})]
PushType ==
    /\ pushing \in {"unborn", "loop", "take", "push", "exited"}
    /\ hand \in Requests \cup {None}
    /\ pushing = "push" => hand \in Requests
    /\ produced \in Seq(Requests) /\ Len(produced) <= OutQueueLimit

\* How far the threads can be, given where main is.
Phases == /\ main = "new" <=> pushing = "unborn"
          /\ main \in {"new", "spawned", "producing"} <=> http = "down"
          /\ main \in {"flushing", "stopped"} => pushing = "exited"

Types == QueueType /\ Sleepers /\ MainType /\ Flags /\ HttpType /\ PushType /\ Phases

LEMMA TypesImply == Types => TypeOK
  BY DEF Types, QueueType, Sleepers, MainType, Flags, HttpType, PushType, Message, TypeOK

\* put and take keep the types, whoever calls them.
LEMMA PutDoneType ==
    ASSUME QueueType, NEW x \in Message, PutDone(x),
           accepted' = Append(accepted, x), UNCHANGED taken
    PROVE  /\ QueueType'
           /\ notEmpty' \subseteq notEmpty /\ UNCHANGED notFull
<1>1. Len(ringbuffer) \in Nat /\ Len(ringbuffer) < Capacity
  BY CapacityAssumption DEF QueueType, PutDone, full
<1>2. ringbuffer' \in Seq(Message) /\ Len(ringbuffer') = Len(ringbuffer) + 1
  BY DEF QueueType, PutDone
<1>3. accepted' \in Seq(Message) /\ taken' \in Seq(Message)
  BY DEF QueueType
<1>4. notEmpty' \subseteq notEmpty /\ UNCHANGED notFull
  BY DEF PutDone, NotifyOne
<1>5. QED
  BY <1>1, <1>2, <1>3, <1>4, CapacityAssumption DEF QueueType

LEMMA TakeDoneType ==
    ASSUME QueueType, TakeDone, taken' = Append(taken, front), UNCHANGED accepted
    PROVE  /\ QueueType' /\ front \in Message
           /\ UNCHANGED notEmpty /\ notFull' \subseteq notFull
<1>1. ringbuffer \in Seq(Message) /\ ringbuffer # <<>>
  BY DEF QueueType, TakeDone, empty
<1>2. /\ front \in Message /\ Tail(ringbuffer) \in Seq(Message)
      /\ Len(Tail(ringbuffer)) = Len(ringbuffer) - 1 /\ Len(ringbuffer) \in Nat
  BY <1>1, HeadTailProperties DEF front
<1>3. ASSUME NEW x \in Message PROVE Append(taken, x) \in Seq(Message)
  BY DEF QueueType
<1>4. UNCHANGED notEmpty /\ notFull' \subseteq notFull
  BY DEF TakeDone, NotifyOne
<1>5. QED
  BY <1>2, <1>3, <1>4, CapacityAssumption DEF QueueType, TakeDone

LEMMA TypesInit == Init => Types
<1> SUFFICES ASSUME Init PROVE Types
  OBVIOUS
<1> USE IngressAssumption, CapacityAssumption
<1>1. QueueType /\ Sleepers
  BY DEF Init, QueueInit, QueueType, Sleepers
<1>2. MainType /\ PushType
  BY DEF Init, MainType, PushType
<1>3. HttpType
  BY DEF Init, HttpType
<1>4. Flags
  BY DEF Init, Flags
<1>5. Phases
  BY DEF Init, Phases
<1>6. QED
  BY <1>1, <1>2, <1>3, <1>4, <1>5 DEF Types

-----------------------------------------------------------------------------
(* The parts of Next, by what they leave alone.                            *)

\* The steps of main that do not put.
MainStep == \/ SpawnPushing \/ SetRunning \/ AcceptorStart \/ WaitForUserInterrupt
            \/ AcceptorStop \/ StopRunning \/ StopJoin \/ StopReturn
            \/ Interrupt \/ SpuriousInterrupt

LEMMA TypesMain == ASSUME Types, MainStep PROVE Types'
<1> USE DEF Types
<1>1. QueueType' /\ PushType'
  BY DEF MainStep, SpawnPushing, SetRunning, AcceptorStart, WaitForUserInterrupt,
         AcceptorStop, StopRunning, StopJoin, StopReturn, Interrupt,
         SpuriousInterrupt, queueVars, pushVars, QueueType, PushType
<1>2. Sleepers'
  <2>1. UNCHANGED <<notEmpty, notFull>>
    BY DEF MainStep, SpawnPushing, SetRunning, AcceptorStart, WaitForUserInterrupt,
           AcceptorStop, StopRunning, StopJoin, StopReturn, Interrupt,
           SpuriousInterrupt, queueVars
  <2>2. pushing = "take" => pushing' = "take"
    BY DEF MainStep, SpawnPushing, SetRunning, AcceptorStart, WaitForUserInterrupt,
           AcceptorStop, StopRunning, StopJoin, StopReturn, Interrupt,
           SpuriousInterrupt, pushVars, Step, At, Phases
  <2>3. http = "put" => http' = "put"
    BY DEF MainStep, SpawnPushing, SetRunning, AcceptorStart, WaitForUserInterrupt,
           AcceptorStop, StopRunning, StopJoin, StopReturn, Interrupt,
           SpuriousInterrupt, httpVars, Step, At, Phases
  <2>4. main = "notifying" => main' = "notifying"
    BY DEF MainStep, SpawnPushing, SetRunning, AcceptorStart, WaitForUserInterrupt,
           AcceptorStop, StopRunning, StopJoin, StopReturn, Interrupt,
           SpuriousInterrupt, Step, At
  <2>5. QED
    BY <2>1, <2>2, <2>3, <2>4 DEF Sleepers
<1>3. MainType'
  BY IngressAssumption
     DEF MainStep, SpawnPushing, SetRunning, AcceptorStart, WaitForUserInterrupt,
         AcceptorStop, StopRunning, StopJoin, StopReturn, Interrupt,
         SpuriousInterrupt, Step, At, MainType, Stopping
<1>4. HttpType'
  BY DEF MainStep, SpawnPushing, SetRunning, AcceptorStart, WaitForUserInterrupt,
         AcceptorStop, StopRunning, StopJoin, StopReturn, Interrupt,
         SpuriousInterrupt, Step, At, httpVars, HttpType, Phases
<1>5. Phases'
  BY DEF MainStep, SpawnPushing, SetRunning, AcceptorStart, WaitForUserInterrupt,
         AcceptorStop, StopRunning, StopJoin, StopReturn, Interrupt,
         SpuriousInterrupt, Step, At, httpVars, pushVars, Phases
<1>6. Flags'
  BY DEF MainStep, SpawnPushing, SetRunning, AcceptorStart, WaitForUserInterrupt,
         AcceptorStop, StopRunning, StopJoin, StopReturn, Interrupt,
         SpuriousInterrupt, pushVars, Flags
<1>7. QED
  BY <1>1, <1>2, <1>3, <1>4, <1>5, <1>6

\* put of the exit notification.
LEMMA TypesStopPut == ASSUME Types, StopPut PROVE Types'
<1> USE DEF Types
<1>1. /\ main = "notifying" /\ "main" \notin notFull
      /\ UNCHANGED <<IsRunning, sigints, http, handling, answers, pushing, hand,
                     crashed, taken, produced>>
  BY DEF StopPut, At, httpVars, pushVars
<1>2. HttpType' /\ PushType' /\ Flags'
  BY <1>1 DEF HttpType, PushType, Flags
<1>3. CASE PutDone(Exit) /\ accepted' = Append(accepted, Exit) /\ main' = "joining"
  <2>1. QueueType' /\ notEmpty' \subseteq notEmpty /\ UNCHANGED notFull
    BY <1>1, <1>3, PutDoneType DEF Message
  <2>2. Sleepers' /\ MainType' /\ Phases'
    BY <1>1, <1>3, <2>1 DEF Sleepers, MainType, Phases, Stopping
  <2>3. QED
    BY <1>2, <2>1, <2>2
<1>4. CASE PutWait("main") /\ UNCHANGED <<accepted, main>>
  BY <1>1, <1>2, <1>4 DEF PutWait, QueueType, Sleepers, MainType, Phases, Stopping
<1>5. QED
  BY <1>3, <1>4 DEF StopPut

-----------------------------------------------------------------------------
(* RpcCallback.                                                            *)

LEMMA TypesReceive == ASSUME Types, NEW r \in Requests, Receive(r) PROVE Types'
<1> USE DEF Types
<1>1. /\ UNCHANGED <<queueVars, mainVars, pushVars, accepted>>
      /\ http = "idle" /\ http' = "check" /\ handling' = r
  BY DEF Receive, At
<1>2. HttpType'
  <2>1. PICK first \in Seq({0, -1}) : answers' = [answers EXCEPT ![r] = first]
    <3>1. <<-1>> \in Seq({0, -1}) /\ <<>> \in Seq({0, -1})
      OBVIOUS
    <3>2. QED
      BY <3>1 DEF Receive
  <2>2. answers' \in [Requests -> Seq({0, -1})]
    BY <2>1 DEF HttpType
  <2>3. QED
    BY <1>1, <2>2 DEF HttpType
<1>3. Flags' /\ QueueType' /\ PushType'
  BY <1>1 DEF queueVars, mainVars, pushVars, Flags, QueueType, PushType
<1>4. Sleepers' /\ MainType' /\ Phases'
  BY <1>1 DEF queueVars, mainVars, pushVars, Sleepers, MainType, Phases, Stopping
<1>5. QED
  BY <1>2, <1>3, <1>4

LEMMA TypesCallback == ASSUME Types, RpcCallback PROVE Types'
<1> USE DEF Types
<1>1. /\ UNCHANGED <<mainVars, pushVars>> /\ http \in {"check", "put", "answer"}
      /\ handling \in Requests
  BY DEF RpcCallback, CheckFull, HandlerPut, Answer, At, HttpType
<1>2. Flags' /\ PushType' /\ MainType'
  BY <1>1 DEF mainVars, pushVars, Flags, PushType, MainType, Stopping
<1>3. CASE CheckFull \/ Answer
  <2>1. /\ UNCHANGED <<queueVars, accepted>> /\ http # "put"
        /\ \/ http' = "put" /\ UNCHANGED handling
           \/ http' = "idle" /\ handling' = None
        /\ \/ UNCHANGED answers
           \/ \E errcode \in {0, -1} :
                  answers' = [answers EXCEPT ![handling] = Append(@, errcode)]
    BY <1>3 DEF CheckFull, PutOrRefuse, Answer, At
  <2>2. HttpType'
    <3>1. answers[handling] \in Seq({0, -1})
      BY <1>1 DEF HttpType
    <3>2. \A errcode \in {0, -1} : Append(answers[handling], errcode) \in Seq({0, -1})
      BY <3>1
    <3>3. answers' \in [Requests -> Seq({0, -1})]
      BY <2>1, <3>2 DEF HttpType
    <3>4. QED
      BY <1>1, <2>1, <3>3, IngressAssumption DEF HttpType
  <2>3. QueueType' /\ Sleepers' /\ Phases'
    BY <1>1, <2>1 DEF queueVars, mainVars, pushVars, QueueType, Sleepers, Phases
  <2>4. QED
    BY <1>2, <2>2, <2>3
<1>4. CASE HandlerPut
  <2>1. /\ http = "put" /\ "http" \notin notFull /\ UNCHANGED <<handling, answers>>
        /\ UNCHANGED taken
    BY <1>4 DEF HandlerPut, At, pushVars
  <2>2. CASE PutDone(handling) /\ accepted' = Append(accepted, handling)
               /\ http' = "answer"
    <3>1. QueueType' /\ notEmpty' \subseteq notEmpty /\ UNCHANGED notFull
      BY <1>1, <2>1, <2>2, PutDoneType DEF Message
    <3>2. HttpType' /\ Sleepers' /\ Phases'
      BY <1>1, <2>1, <2>2, <3>1 DEF mainVars, pushVars, HttpType, Sleepers, Phases
    <3>3. QED
      BY <1>2, <3>1, <3>2
  <2>3. CASE PutWait("http") /\ UNCHANGED <<accepted, http>>
    <3>1. HttpType' /\ QueueType'
      BY <2>1, <2>3 DEF PutWait, HttpType, QueueType
    <3>2. Sleepers' /\ Phases'
      BY <1>1, <2>1, <2>3 DEF PutWait, mainVars, pushVars, Sleepers, Phases
    <3>3. QED
      BY <1>2, <3>1, <3>2
  <2>4. QED
    BY <1>4, <2>2, <2>3 DEF HandlerPut
<1>5. QED
  BY <1>3, <1>4 DEF RpcCallback

-----------------------------------------------------------------------------
(* Pushing.                                                                *)

LEMMA TypesPushing == ASSUME Types, Pushing PROVE Types'
<1> USE DEF Types
<1>1. UNCHANGED <<mainVars, httpVars, accepted>> /\ pushing \notin {"unborn", "exited"}
  BY DEF Pushing, PushCheck, PushTake, Produce, At
<1>2. MainType' /\ HttpType'
  BY <1>1 DEF mainVars, httpVars, MainType, HttpType, Stopping
<1>3. CASE PushCheck
  <2>1. UNCHANGED <<queueVars, mainVars, httpVars, hand, crashed,
                    accepted, taken, produced>>
    BY <1>3 DEF PushCheck
  <2>2. pushing = "loop" /\ pushing' \in {"take", "exited"}
    BY <1>3 DEF PushCheck, At
  <2>3. PushType' /\ QueueType' /\ Flags'
    BY <2>1, <2>2 DEF PushType, QueueType, queueVars, mainVars, Flags
  <2>4. Sleepers' /\ Phases'
    BY <2>1, <2>2 DEF queueVars, mainVars, httpVars, Sleepers, Phases
  <2>5. QED
    BY <1>2, <2>3, <2>4
<1>4. CASE PushTake
  <2>1. /\ pushing = "take" /\ "pushing" \notin notEmpty
        /\ UNCHANGED <<mainVars, httpVars, crashed, accepted, produced>>
    BY <1>4 DEF PushTake, At
  <2>2. Flags'
    BY <2>1 DEF mainVars, Flags
  <2>3. CASE /\ TakeDone /\ taken' = Append(taken, front)
             /\ IF HasTopic(front) THEN pushing' = "push" /\ hand' = front
                                   ELSE pushing' = "loop" /\ hand' = None
    <3>1. QueueType' /\ front \in Message /\ UNCHANGED notEmpty /\ notFull' \subseteq notFull
      BY <2>1, <2>3, TakeDoneType
    <3>2. PushType'
      BY <2>1, <2>3, <3>1 DEF PushType, HasTopic, Message
    <3>3. notEmpty = {}
      BY <2>1 DEF Sleepers
    <3>4. Sleepers' /\ Phases'
      BY <2>1, <2>3, <3>1, <3>3 DEF mainVars, httpVars, Sleepers, Phases
    <3>5. QED
      BY <1>2, <2>2, <3>1, <3>2, <3>4
  <2>4. CASE TakeWait("pushing") /\ UNCHANGED <<pushing, hand, taken>>
    <3>1. QueueType' /\ PushType'
      BY <2>1, <2>4 DEF TakeWait, QueueType, PushType
    <3>2. Sleepers' /\ Phases'
      BY <2>1, <2>4 DEF TakeWait, mainVars, httpVars, Sleepers, Phases
    <3>3. QED
      BY <1>2, <2>2, <3>1, <3>2
  <2>5. QED
    BY <1>4, <2>3, <2>4 DEF PushTake
<1>5. CASE Produce
  <2>1. /\ pushing = "push" /\ hand \in Requests
        /\ UNCHANGED <<queueVars, mainVars, httpVars, accepted, taken>>
    BY <1>5 DEF Produce, At, PushType
  <2>2. \/ UNCHANGED <<pushing, hand, produced>>
        \/ /\ Len(produced) < OutQueueLimit /\ produced' = Append(produced, hand)
           /\ pushing' = "loop" /\ hand' = None
    BY <1>5 DEF Produce
  <2>3. crashed' \in BOOLEAN
    <3>1. crashed' = TRUE \/ crashed' = crashed
      BY <1>5 DEF Produce
    <3>2. QED
      BY <3>1 DEF Flags
  <2>4. Flags'
    BY <2>1, <2>3 DEF mainVars, Flags
  <2>5. PushType' /\ QueueType'
    <3>1. /\ Append(produced, hand) \in Seq(Requests) /\ Len(produced) \in Nat
          /\ Len(Append(produced, hand)) = Len(produced) + 1
      BY <2>1 DEF PushType
    <3>2. PushType'
      BY <2>1, <2>2, <3>1, IngressAssumption DEF PushType
    <3>3. QED
      BY <2>1, <3>2 DEF queueVars, QueueType
  <2>6. Sleepers' /\ Phases'
    BY <2>1, <2>2 DEF queueVars, mainVars, httpVars, Sleepers, Phases
  <2>7. QED
    BY <1>2, <2>4, <2>5, <2>6
<1>6. QED
  BY <1>3, <1>4, <1>5 DEF Pushing

LEMMA TypesStep == Types /\ [Next]_vars => Types'
<1> SUFFICES ASSUME Types, [Next]_vars PROVE Types'
  OBVIOUS
<1>1. CASE UNCHANGED vars
  BY <1>1 DEF vars, queueVars, mainVars, httpVars, pushVars, Types, QueueType,
              Sleepers, MainType, Flags, HttpType, PushType, Phases, Stopping
<1>2. CASE SpuriousWakeup /\ UNCHANGED <<mainVars, httpVars, pushVars, accepted>>
  <2>1. /\ UNCHANGED <<ringbuffer, main, IsRunning, sigints, http, handling, answers,
                       pushing, hand, crashed, accepted, taken, produced>>
        /\ notEmpty' \subseteq notEmpty /\ notFull' \subseteq notFull
    BY <1>2 DEF SpuriousWakeup, mainVars, httpVars, pushVars
  <2>2. QueueType' /\ PushType' /\ HttpType'
    BY <2>1 DEF Types, QueueType, PushType, HttpType
  <2>3. Sleepers' /\ MainType' /\ Phases'
    BY <2>1 DEF Types, Sleepers, MainType, Phases, Stopping
  <2>4. Flags'
    BY <2>1 DEF Types, Flags
  <2>5. QED
    BY <2>2, <2>3, <2>4 DEF Types
<1>3. QED
  BY <1>1, <1>2, TypesMain, TypesStopPut, TypesReceive, TypesCallback, TypesPushing
     DEF Next, Startup, Shutdown, MainStep

\* Every variable keeps its type, a thread sleeps only inside taskchan, and the
\* queue never holds more than Capacity.
THEOREM TypeCorrect == Spec => []TypeOK
  BY TypesInit, TypesStep, TypesImply, PTL DEF Spec

LEMMA TypesInv == Spec => []Types
  BY TypesInit, TypesStep, PTL DEF Spec

-----------------------------------------------------------------------------
\* A message that is put is on taskchan from then on, and no other comes with it.
LEMMA ContainsAppend ==
    ASSUME NEW S, NEW s \in Seq(S), NEW x \in S, NEW y
    PROVE  Contains(Append(s, x), y) <=> Contains(s, y) \/ x = y
<1>1. /\ Len(Append(s, x)) = Len(s) + 1 /\ Len(s) \in Nat
      /\ \A i \in 1..Len(s) : Append(s, x)[i] = s[i]
      /\ Append(s, x)[Len(s) + 1] = x
  BY AppendProperties
<1>2. \A i : i \in 1..(Len(s) + 1) <=> i \in 1..Len(s) \/ i = Len(s) + 1
  BY <1>1
<1>3. QED
  BY <1>1, <1>2 DEF Contains

\* Once Stop has joined the thread, nothing more is given to Kafka.
THEOREM NothingProducedAfterJoinCorrect == Spec => NothingProducedAfterJoin
<1>1. Types /\ [Next]_vars
        => [(main \in {"flushing", "stopped"}) => produced' = produced]_vars
  <2> SUFFICES ASSUME Types, [Next]_vars, main \in {"flushing", "stopped"}
               PROVE  produced' = produced
    OBVIOUS
  <2>1. pushing = "exited"
    BY DEF Types, Phases
  <2>2. QED
    BY <2>1 DEF Next, Startup, Shutdown, SpawnPushing, SetRunning, AcceptorStart,
                WaitForUserInterrupt, AcceptorStop, StopRunning, StopPut, StopJoin,
                StopReturn, Interrupt, SpuriousInterrupt, RpcCallback, CheckFull,
                HandlerPut, Answer, Receive, Pushing, PushCheck, PushTake, Produce,
                At, pushVars, vars
<1>2. QED
  BY <1>1, TypesInv, PTL DEF Spec, NothingProducedAfterJoin

-----------------------------------------------------------------------------
(* The handler and the room it has found.                                  *)

\* Until Stop has put its Exit, the room that full() has found is there for put:
\* only the Pushing thread changes the queue meanwhile, and it makes room.
RoomAhead == http = "put" /\ ~Contains(accepted, Exit)
                => ~full /\ "http" \notin notFull

LEMMA RoomStep == Types /\ RoomAhead /\ [Next]_vars => RoomAhead'
<1> SUFFICES ASSUME Types, RoomAhead, [Next]_vars PROVE RoomAhead'
  OBVIOUS
<1>1. /\ ringbuffer \in Seq(Message) /\ accepted \in Seq(Message) /\ Capacity \in Nat
      /\ "http" \in notFull => http = "put"
  BY CapacityAssumption DEF Types, QueueType, Sleepers
<1>2. CASE UNCHANGED <<ringbuffer, notEmpty, notFull, accepted>> /\ http' # "put"
  BY <1>2 DEF RoomAhead
<1>3. CASE UNCHANGED <<ringbuffer, notEmpty, notFull, accepted, http>>
  BY <1>3 DEF RoomAhead, full
<1>4. CASE StopPut
  <2>1. CASE PutDone(Exit) /\ accepted' = Append(accepted, Exit)
    BY <1>1, <2>1, ContainsAppend DEF RoomAhead, Message
  <2>2. CASE PutWait("main") /\ UNCHANGED accepted
    BY <1>4, <2>2 DEF StopPut, httpVars, PutWait, RoomAhead, full
  <2>3. QED
    BY <1>4, <2>1, <2>2 DEF StopPut
<1>5. CASE CheckFull
  BY <1>1, <1>5 DEF CheckFull, PutOrRefuse, At, queueVars, RoomAhead, full
<1>6. CASE HandlerPut
  BY <1>6 DEF HandlerPut, PutWait, At, RoomAhead
<1>7. CASE PushTake
  <2>1. UNCHANGED <<http, accepted>>
    BY <1>7 DEF PushTake, httpVars
  <2>2. CASE TakeDone
    <3>1. Len(ringbuffer') = Len(ringbuffer) - 1 /\ Len(ringbuffer) \in Nat
      BY <1>1, <2>2, HeadTailProperties DEF TakeDone, empty
    <3>2. notFull' \subseteq notFull
      BY <2>2 DEF TakeDone, NotifyOne
    <3>3. QED
      BY <1>1, <2>1, <3>1, <3>2 DEF RoomAhead, full
  <2>3. CASE TakeWait("pushing")
    BY <2>1, <2>3 DEF TakeWait, RoomAhead, full
  <2>4. QED
    BY <1>7, <2>2, <2>3 DEF PushTake
<1>8. CASE SpuriousWakeup /\ UNCHANGED <<mainVars, httpVars, pushVars, accepted>>
  BY <1>8 DEF SpuriousWakeup, httpVars, RoomAhead, full
<1>9. QED
  <2>1. CASE MainStep
    BY <1>2, <1>3, <2>1
       DEF MainStep, SpawnPushing, SetRunning, AcceptorStart, WaitForUserInterrupt,
           AcceptorStop, StopRunning, StopJoin, StopReturn, Interrupt,
           SpuriousInterrupt, queueVars, httpVars
  <2>2. CASE Answer \/ \E r \in Requests : Receive(r)
    BY <1>2, <2>2 DEF Answer, Receive, queueVars
  <2>3. CASE PushCheck \/ Produce \/ UNCHANGED vars
    BY <1>3, <2>3 DEF PushCheck, Produce, vars, queueVars, httpVars
  <2>4. QED
    BY <1>4, <1>5, <1>6, <1>7, <1>8, <2>1, <2>2, <2>3
       DEF Next, Startup, Shutdown, MainStep, RpcCallback, Pushing

\* Until a Stop, the server thread does not sleep in put, though full() and put()
\* are two critical sections.
THEOREM HandlerSleepsOnlyAtStopCorrect == Spec => []HandlerSleepsOnlyAtStop
<1>1. Init => RoomAhead
  BY DEF Init, RoomAhead
<1>2. Types /\ RoomAhead => HandlerSleepsOnlyAtStop
  BY DEF Types, Sleepers, RoomAhead, HandlerSleepsOnlyAtStop
<1>3. QED
  BY <1>1, <1>2, RoomStep, TypesInv, PTL DEF Spec

-----------------------------------------------------------------------------
(* What Pushing gives to Kafka, in the order it was accepted.              *)

\* An element of an appended sequence is an old one, or the new one.
LEMMA AppendElements ==
    ASSUME NEW S, NEW s \in Seq(S), NEW x \in S
    PROVE  /\ Append(s, x) \in Seq(S) /\ Len(s) \in Nat
           /\ DOMAIN s = 1..Len(s) /\ DOMAIN Append(s, x) = 1..(Len(s) + 1)
           /\ \A i \in DOMAIN s : Append(s, x)[i] = s[i]
           /\ Append(s, x)[Len(s) + 1] = x
  BY AppendProperties

\* What is behind a sequence stays there when its first element is moved over.
LEMMA MoveFront ==
    ASSUME NEW S, NEW s \in Seq(S), NEW t \in Seq(S), t # <<>>
    PROVE  s \o t = Append(s, Head(t)) \o Tail(t)
<1> DEFINE h == Head(t)
           one == <<h>>
           rest == Tail(t)
<1>1. h \in S /\ one \in Seq(S) /\ rest \in Seq(S)
  BY HeadTailProperties
<1>2. t = one \o rest
  OBVIOUS
<1>3. Append(s, h) = s \o one
  BY <1>1, AppendIsConcat
<1> HIDE DEF h, one, rest
<1>4. (s \o one) \o rest = s \o (one \o rest)
  BY <1>1, ConcatAssociative
<1>5. s \o t = Append(s, h) \o rest
  BY <1>2, <1>3, <1>4
<1>6. QED
  BY <1>5 DEF h, rest

\* A message without a topic is passed over.
LEMMA PassOver ==
    ASSUME NEW S, NEW p \in Seq(S), NEW s \in Seq(S), NEW x \in S,
           PicksTopical(p, s), ~HasTopic(x)
    PROVE  PicksTopical(p, Append(s, x))
<1>1. Topical(Append(s, x)) = Topical(s)
  BY AppendElements DEF Topical
<1>2. \A k \in Topical(s) : Append(s, x)[k] = s[k]
  BY AppendElements DEF Topical
<1>3. PICK place \in [DOMAIN p -> Topical(s)] :
          /\ Range(place) = Topical(s)
          /\ \A i, j \in DOMAIN p : i < j => place[i] < place[j]
          /\ \A i \in DOMAIN p : p[i] = s[place[i]]
  BY DEF PicksTopical
<1>4. \A i \in DOMAIN p : p[i] = Append(s, x)[place[i]]
  BY <1>2, <1>3
<1>5. \E q \in [DOMAIN p -> Topical(s)] :
          /\ Range(q) = Topical(s)
          /\ \A i, j \in DOMAIN p : i < j => q[i] < q[j]
          /\ \A i \in DOMAIN p : p[i] = Append(s, x)[q[i]]
  <2> WITNESS place \in [DOMAIN p -> Topical(s)]
  <2>1. QED
    BY <1>3, <1>4
<1>6. QED
  BY <1>1, <1>5 DEF PicksTopical

\* One with a topic comes after all that have been picked.
LEMMA PickNext ==
    ASSUME NEW S, NEW p \in Seq(S), NEW s \in Seq(S), NEW x \in S,
           PicksTopical(p, s), HasTopic(x)
    PROVE  PicksTopical(Append(p, x), Append(s, x))
<1> DEFINE m == Len(p) + 1
           n == Len(s) + 1
<1>1. PICK place \in [DOMAIN p -> Topical(s)] :
          /\ Range(place) = Topical(s)
          /\ \A i, j \in DOMAIN p : i < j => place[i] < place[j]
          /\ \A i \in DOMAIN p : p[i] = s[place[i]]
  BY DEF PicksTopical
<1>2. /\ DOMAIN Append(p, x) = DOMAIN p \cup {m} /\ m \notin DOMAIN p
      /\ \A i \in DOMAIN p : i \in Int /\ i < m
      /\ \A i \in DOMAIN p : Append(p, x)[i] = p[i]
      /\ Append(p, x)[m] = x
  BY AppendElements
<1>3. /\ Topical(s) \subseteq DOMAIN s
      /\ \A k \in DOMAIN s : k \in Int /\ k < n /\ Append(s, x)[k] = s[k]
      /\ Append(s, x)[n] = x /\ m \in Int /\ n \in Int
  BY AppendElements DEF Topical
<1>4. Topical(Append(s, x)) = Topical(s) \cup {n}
  <2>1. DOMAIN Append(s, x) = DOMAIN s \cup {n}
    BY AppendElements
  <2>2. QED
    BY <1>3, <2>1 DEF Topical
<1> DEFINE next == [i \in DOMAIN p \cup {m} |-> IF i = m THEN n ELSE place[i]]
<1>5. next \in [DOMAIN Append(p, x) -> Topical(Append(s, x))]
  BY <1>2, <1>4
<1>6. Range(next) = Topical(Append(s, x))
  <2>1. /\ DOMAIN next = DOMAIN p \cup {m} /\ next[m] = n
        /\ \A i \in DOMAIN p : next[i] = place[i]
    BY <1>2
  <2>2. DOMAIN place = DOMAIN p
    OBVIOUS
  <2> HIDE DEF next
  <2>3. Range(next) = Range(place) \cup {n}
    BY <2>1, <2>2 DEF Range
  <2>4. QED
    BY <1>1, <1>4, <2>3
<1>7. \A i, j \in DOMAIN Append(p, x) : i < j => next[i] < next[j]
  <2> SUFFICES ASSUME NEW i \in DOMAIN p \cup {m}, NEW j \in DOMAIN p \cup {m}, i < j
               PROVE  next[i] < next[j]
    BY <1>2
  <2>1. i \in DOMAIN p
    BY <1>2, <1>3
  <2>2. CASE j = m
    BY <1>2, <1>3, <2>1, <2>2
  <2>3. CASE j \in DOMAIN p
    BY <1>1, <1>2, <2>1, <2>3
  <2>4. QED
    BY <2>2, <2>3
<1>8. \A i \in DOMAIN Append(p, x) : Append(p, x)[i] = Append(s, x)[next[i]]
  BY <1>1, <1>2, <1>3
<1> HIDE DEF next
<1>9. QED
  BY <1>5, <1>6, <1>7, <1>8 DEF PicksTopical

Chosen == IF pushing = "push" THEN Append(produced, hand) ELSE produced

LEMMA OrderStep == Types /\ ProducedInOrder /\ [Next]_vars => ProducedInOrder'
<1> SUFFICES ASSUME Types, ProducedInOrder, [Next]_vars PROVE ProducedInOrder'
  OBVIOUS
<1>1. /\ accepted = taken \o ringbuffer /\ PicksTopical(Chosen, taken)
      /\ accepted \in Seq(Message) /\ taken \in Seq(Message)
      /\ ringbuffer \in Seq(Message) /\ produced \in Seq(Message)
  BY DEF ProducedInOrder, Chosen, Types, QueueType, PushType, Message
<1>2. ASSUME UNCHANGED <<accepted, ringbuffer, taken>>, Chosen' = Chosen
      PROVE  ProducedInOrder'
  BY <1>1, <1>2 DEF ProducedInOrder, Chosen
<1>3. ASSUME NEW x \in Message, PutDone(x), accepted' = Append(accepted, x),
             UNCHANGED pushVars
      PROVE  ProducedInOrder'
  <2>1. ringbuffer' = Append(ringbuffer, x)
    BY <1>3 DEF PutDone
  <2>2. Append(taken \o ringbuffer, x) = taken \o Append(ringbuffer, x)
    <3>1. taken \in Seq(Message) /\ ringbuffer \in Seq(Message) /\ x \in Message
      BY <1>1, <1>3
    <3>2. QED
      BY <3>1
  <2>3. UNCHANGED <<taken, produced, pushing, hand>>
    BY <1>3 DEF pushVars
  <2>4. QED
    BY <1>1, <1>3, <2>1, <2>2, <2>3 DEF ProducedInOrder, Chosen
<1>4. CASE HandlerPut
  <2>1. handling \in Message /\ UNCHANGED pushVars
    BY <1>4 DEF HandlerPut, At, Types, HttpType, Message
  <2>2. CASE PutDone(handling) /\ accepted' = Append(accepted, handling)
    BY <1>3, <2>1, <2>2
  <2>3. CASE PutWait("http") /\ UNCHANGED accepted
    BY <1>2, <2>1, <2>3 DEF PutWait, pushVars, Chosen
  <2>4. QED
    BY <1>4, <2>2, <2>3 DEF HandlerPut
<1>5. CASE StopPut
  <2>1. Exit \in Message /\ UNCHANGED pushVars
    BY <1>5 DEF StopPut, Message
  <2>2. CASE PutDone(Exit) /\ accepted' = Append(accepted, Exit)
    BY <1>3, <2>1, <2>2
  <2>3. CASE PutWait("main") /\ UNCHANGED accepted
    BY <1>2, <2>1, <2>3 DEF PutWait, pushVars, Chosen
  <2>4. QED
    BY <1>5, <2>2, <2>3 DEF StopPut
<1>6. CASE PushTake
  <2>1. CASE TakeWait("pushing") /\ UNCHANGED <<pushing, hand, taken>>
    BY <1>2, <1>6, <2>1 DEF PushTake, TakeWait, Chosen
  <2>2. CASE /\ TakeDone /\ taken' = Append(taken, front)
             /\ IF HasTopic(front) THEN pushing' = "push" /\ hand' = front
                                   ELSE pushing' = "loop" /\ hand' = None
    <3>1. /\ UNCHANGED <<accepted, produced>> /\ pushing = "take"
          /\ ringbuffer # <<>> /\ ringbuffer' = Tail(ringbuffer)
          /\ front = Head(ringbuffer)
      BY <1>6, <2>2 DEF PushTake, At, TakeDone, empty, front
    <3>2. front \in Message /\ taken \o ringbuffer = Append(taken, front) \o Tail(ringbuffer)
      <4>1. front \in Message /\ Tail(ringbuffer) \in Seq(Message)
        BY <1>1, <3>1, HeadTailProperties
      <4>2. taken \o ringbuffer = Append(taken, Head(ringbuffer)) \o Tail(ringbuffer)
        BY <1>1, <3>1, MoveFront
      <4>3. QED
        BY <3>1, <4>1, <4>2
    <3>3. CASE HasTopic(front)
      <4>1. PicksTopical(Append(produced, front), Append(taken, front))
        BY <1>1, <3>1, <3>2, <3>3, PickNext DEF Chosen
      <4>2. QED
        BY <1>1, <2>2, <3>1, <3>2, <3>3, <4>1 DEF ProducedInOrder
    <3>4. CASE ~HasTopic(front)
      <4>1. PicksTopical(produced, Append(taken, front))
        BY <1>1, <3>1, <3>2, <3>4, PassOver DEF Chosen
      <4>2. QED
        BY <1>1, <2>2, <3>1, <3>2, <3>4, <4>1 DEF ProducedInOrder
    <3>5. QED
      BY <3>3, <3>4
  <2>3. QED
    BY <1>6, <2>1, <2>2 DEF PushTake
<1>7. CASE PushCheck \/ Produce
  BY <1>2, <1>7 DEF PushCheck, Produce, At, queueVars, Chosen
<1>8. CASE MainStep
  <2>1. UNCHANGED <<accepted, taken, ringbuffer, produced, hand>>
    BY <1>8 DEF MainStep, SpawnPushing, SetRunning, AcceptorStart,
                WaitForUserInterrupt, AcceptorStop, StopRunning, StopJoin, StopReturn,
                Interrupt, SpuriousInterrupt, queueVars, pushVars
  <2>2. UNCHANGED pushing \/ (pushing = "unborn" /\ pushing' = "loop")
    BY <1>8 DEF MainStep, SpawnPushing, SetRunning, AcceptorStart,
                WaitForUserInterrupt, AcceptorStop, StopRunning, StopJoin, StopReturn,
                Interrupt, SpuriousInterrupt, pushVars, Step, At, Types, Phases
  <2>3. QED
    BY <1>2, <2>1, <2>2 DEF Chosen
<1>9. CASE CheckFull \/ Answer \/ \E r \in Requests : Receive(r)
  BY <1>2, <1>9 DEF CheckFull, Answer, Receive, queueVars, pushVars, Chosen
<1>10. CASE SpuriousWakeup /\ UNCHANGED <<mainVars, httpVars, pushVars, accepted>>
  BY <1>2, <1>10 DEF SpuriousWakeup, pushVars, Chosen
<1>11. CASE UNCHANGED vars
  BY <1>2, <1>11 DEF vars, queueVars, pushVars, Chosen
<1>12. QED
  BY <1>4, <1>5, <1>6, <1>7, <1>8, <1>9, <1>10, <1>11
     DEF Next, Startup, Shutdown, MainStep, RpcCallback, Pushing

\* Kafka is given exactly what was accepted and has a topic, once each and in
\* order, for any number of requests and any capacity.
THEOREM ProducedInOrderCorrect == Spec => []ProducedInOrder
<1>1. Init => ProducedInOrder
  <2> SUFFICES ASSUME Init PROVE ProducedInOrder
    OBVIOUS
  <2>1. accepted = taken \o ringbuffer /\ taken = <<>> /\ produced = <<>>
        /\ pushing # "push"
    BY DEF Init, QueueInit
  <2>2. PicksTopical(<<>>, <<>>)
    <3>1. Topical(<<>>) = {} /\ DOMAIN <<>> = {}
      BY DEF Topical
    <3> DEFINE none == [i \in {} |-> i]
    <3>2. none \in [DOMAIN <<>> -> Topical(<<>>)] /\ Range(none) = Topical(<<>>)
      BY <3>1 DEF Range
    <3>3. QED
      BY <3>1, <3>2 DEF PicksTopical
  <2>3. QED
    BY <2>1, <2>2 DEF ProducedInOrder
<1>2. QED
  BY <1>1, OrderStep, TypesInv, PTL DEF Spec

-----------------------------------------------------------------------------
(* taskchan is the queue of QueueClients, with the server thread and main  *)
(* as its putters and Pushing as its taker.                                *)

Putting == [p \in {"http", "main"} |->
               IF p = "http" THEN IF http = "put" THEN handling ELSE None
               ELSE IF main = "notifying" THEN Exit ELSE None]
Taking == IF pushing = "take" THEN {"pushing"} ELSE {}

Taskchan == INSTANCE QueueClientsProofs
    WITH Putters <- {"http", "main"}, Takers <- {"pushing"}, Values <- Message,
         MaxPuts <- Cardinality(Message), putting <- Putting, taking <- Taking,
         delivered <- taken

LEMMA TaskchanAssumptions ==
    ASSUME IsFiniteSet(Requests)
    PROVE  /\ IsFiniteSet(Message) /\ Cardinality(Message) \in Nat
           /\ Taskchan!ClientAssumption /\ Taskchan!CapacityAssumption
<1>1. IsFiniteSet(Message) /\ Cardinality(Message) \in Nat
  BY FS_AddElement, FS_CardinalityType DEF Message
<1>2. IsFiniteSet({"http", "main"})
  <2>1. IsFiniteSet({"http"})
    BY FS_Singleton
  <2>2. IsFiniteSet({"http"} \cup {"main"})
    BY <2>1, FS_AddElement
  <2>3. {"http", "main"} = {"http"} \cup {"main"}
    OBVIOUS
  <2>4. QED
    BY <2>2, <2>3
<1>3. None \notin Message
  BY IngressAssumption DEF Message
<1>4. Taskchan!ClientAssumption
  <2>1. {"pushing"} # {}
    OBVIOUS
  <2>2. Taskchan!IsFiniteSet({"http", "main"})
    BY <1>2 DEF IsFiniteSet, Taskchan!IsFiniteSet
  <2>3. QED
    BY <1>1, <1>3, <2>1, <2>2 DEF Taskchan!ClientAssumption
<1>5. Taskchan!CapacityAssumption
  BY CapacityAssumption DEF Taskchan!CapacityAssumption
<1>6. QED
  BY <1>1, <1>4, <1>5

\* Every message is put once: a request by the one handler that has it, the exit
\* notification by the one Stop.
PutOnce ==
    /\ \A i, j \in DOMAIN accepted : accepted[i] = accepted[j] => i = j
    /\ Contains(accepted, Exit) => main \in {"joining", "flushing", "stopped"}
    /\ http \in {"check", "put"} => ~Contains(accepted, handling)
    /\ \A r \in Requests : Contains(accepted, r) => answers[r] # <<>> \/ handling = r

\* Hence no call of put can find more accepted than there are other messages.
LEMMA FewAccepted ==
    ASSUME Types, PutOnce, IsFiniteSet(Requests), NEW x \in Message, ~Contains(accepted, x)
    PROVE  Len(accepted) < Cardinality(Message)
<1> DEFINE n == Len(accepted)
           Others == Message \ {x}
<1>1. accepted \in Seq(Message) /\ n \in Nat /\ DOMAIN accepted = 1..n
  BY DEF Types, QueueType
<1>2. \A i \in 1..n : accepted[i] # x
  BY <1>1 DEF Contains
<1>3. accepted \in Injection(1..n, Others)
  <2>1. accepted \in [1..n -> Others]
    BY <1>1, <1>2
  <2>2. QED
    BY <1>1, <2>1 DEF PutOnce, Injection, IsInjective
<1>4. IsFiniteSet(Others) /\ Cardinality(Others) = Cardinality(Message) - 1
  BY TaskchanAssumptions, FS_RemoveElement
<1>5. Cardinality(1..n) <= Cardinality(Others)
  BY <1>3, <1>4, FS_Injection
<1>6. Cardinality(1..n) = n
  BY <1>1, FS_Interval
<1>7. QED
  BY <1>1, <1>4, <1>5, <1>6, TaskchanAssumptions

\* A message put for the first time.
LEMMA PutNew ==
    ASSUME accepted \in Seq(Message), PutOnce, NEW x \in Message, ~Contains(accepted, x),
           accepted' = Append(accepted, x)
    PROVE  /\ \A i, j \in DOMAIN accepted' : accepted'[i] = accepted'[j] => i = j
           /\ \A m \in Message : Contains(accepted', m) <=> Contains(accepted, m) \/ m = x
<1>1. /\ Len(accepted) \in Nat /\ DOMAIN accepted = 1..Len(accepted)
      /\ DOMAIN accepted' = DOMAIN accepted \cup {Len(accepted) + 1}
      /\ \A i \in DOMAIN accepted : accepted'[i] = accepted[i]
      /\ accepted'[Len(accepted) + 1] = x
  BY AppendElements
<1>2. \A i \in DOMAIN accepted : accepted[i] # x
  BY <1>1 DEF Contains
<1>3. QED
  BY <1>1, <1>2, ContainsAppend DEF PutOnce

LEMMA PutOnceStep == Types /\ PutOnce /\ [Next]_vars => PutOnce'
<1> SUFFICES ASSUME Types, PutOnce, [Next]_vars PROVE PutOnce'
  OBVIOUS
<1> USE IngressAssumption
<1>1. /\ accepted \in Seq(Message) /\ answers \in [Requests -> Seq({0, -1})]
      /\ handling \in Requests \cup {None} /\ Requests \subseteq Message /\ Exit \in Message
      /\ http \in {"check", "put", "answer"} <=> handling \in Requests
      /\ http = "down" <=> main \in {"new", "spawned", "producing"}
  BY DEF Types, QueueType, HttpType, Phases, Message
<1>2. ASSUME NEW q \in Requests, Receive(q) PROVE PutOnce'
  <2>1. /\ http = "idle" /\ http' = "check" /\ handling' = q /\ answers[q] = <<>>
        /\ UNCHANGED <<accepted, main>>
        /\ \A r \in Requests : r # q => answers'[r] = answers[r]
    BY <1>1, <1>2 DEF Receive, At, mainVars
  <2>2. ~Contains(accepted, q)
    BY <1>1, <2>1 DEF PutOnce
  <2>3. \A r \in Requests : Contains(accepted, r) => answers'[r] # <<>>
    BY <1>1, <2>1, <2>2 DEF PutOnce
  <2>4. QED
    BY <2>1, <2>2, <2>3 DEF PutOnce
<1>3. CASE CheckFull
  <2>1. /\ http = "check" /\ handling \in Requests /\ UNCHANGED <<accepted, main>>
        /\ ~Contains(accepted, handling)
    BY <1>1, <1>3 DEF CheckFull, At, mainVars, PutOnce
  <2>2. CASE http' = "put" /\ UNCHANGED <<handling, answers>>
    BY <2>1, <2>2 DEF PutOnce
  <2>3. CASE /\ http' = "idle" /\ handling' = None
             /\ answers' = [answers EXCEPT ![handling] = Append(@, -1)]
    <3>1. \A r \in Requests : r # handling => answers'[r] = answers[r]
      BY <1>1, <2>1, <2>3
    <3>2. QED
      BY <2>1, <2>3, <3>1 DEF PutOnce
  <2>4. QED
    BY <1>3, <2>2, <2>3 DEF CheckFull, PutOrRefuse
<1>4. CASE HandlerPut
  <2>1. /\ http = "put" /\ handling \in Requests /\ UNCHANGED <<handling, answers, main>>
        /\ ~Contains(accepted, handling)
    BY <1>1, <1>4 DEF HandlerPut, At, mainVars, PutOnce
  <2>2. CASE accepted' = Append(accepted, handling) /\ http' = "answer"
    <3>1. /\ \A i, j \in DOMAIN accepted' : accepted'[i] = accepted'[j] => i = j
          /\ \A m \in Message : Contains(accepted', m)
                                    <=> Contains(accepted, m) \/ m = handling
      BY <1>1, <2>1, <2>2, PutNew
    <3>2. QED
      BY <1>1, <2>1, <2>2, <3>1 DEF PutOnce
  <2>3. CASE UNCHANGED <<accepted, http>>
    BY <2>1, <2>3 DEF PutOnce
  <2>4. QED
    BY <1>4, <2>2, <2>3 DEF HandlerPut
<1>5. CASE Answer
  <2>1. /\ http = "answer" /\ http' = "idle" /\ handling \in Requests
        /\ answers' = [answers EXCEPT ![handling] = Append(@, 0)]
        /\ UNCHANGED <<accepted, main>>
    BY <1>1, <1>5 DEF Answer, At, mainVars
  <2>2. \A r \in Requests : IF r = handling THEN answers'[r] # <<>>
                                            ELSE answers'[r] = answers[r]
    <3>1. answers'[handling] = Append(answers[handling], 0)
      BY <1>1, <2>1
    <3>2. answers'[handling] # <<>>
      BY <1>1, <2>1, <3>1
    <3>3. QED
      BY <1>1, <2>1, <3>2
  <2>3. QED
    BY <2>1, <2>2 DEF PutOnce
<1>6. CASE StopPut
  <2>1. main = "notifying" /\ UNCHANGED <<http, handling, answers>>
        /\ ~Contains(accepted, Exit)
    BY <1>6 DEF StopPut, At, httpVars, PutOnce
  <2>2. CASE accepted' = Append(accepted, Exit) /\ main' = "joining"
    <3>1. /\ \A i, j \in DOMAIN accepted' : accepted'[i] = accepted'[j] => i = j
          /\ \A m \in Message : Contains(accepted', m) <=> Contains(accepted, m) \/ m = Exit
      BY <1>1, <2>1, <2>2, PutNew
    <3>2. QED
      BY <1>1, <2>1, <2>2, <3>1 DEF PutOnce
  <2>3. CASE UNCHANGED <<accepted, main>>
    BY <2>1, <2>3 DEF PutOnce
  <2>4. QED
    BY <1>6, <2>2, <2>3 DEF StopPut
<1>7. CASE MainStep
  <2>1. UNCHANGED <<handling, answers, accepted>>
    BY <1>7 DEF MainStep, SpawnPushing, SetRunning, AcceptorStart,
                WaitForUserInterrupt, AcceptorStop, StopRunning, StopJoin,
                StopReturn, Interrupt, SpuriousInterrupt, httpVars
  <2>2. http' = http \/ http' = "idle"
    BY <1>7 DEF MainStep, SpawnPushing, SetRunning, AcceptorStart,
                WaitForUserInterrupt, AcceptorStop, StopRunning, StopJoin,
                StopReturn, Interrupt, SpuriousInterrupt, httpVars, Step, At
  <2>3. main \in {"joining", "flushing", "stopped"}
            => main' \in {"joining", "flushing", "stopped"}
    BY <1>7 DEF MainStep, SpawnPushing, SetRunning, AcceptorStart,
                WaitForUserInterrupt, AcceptorStop, StopRunning, StopJoin,
                StopReturn, Interrupt, SpuriousInterrupt, Step, At
  <2>4. QED
    BY <2>1, <2>2, <2>3 DEF PutOnce
<1>8. CASE PushCheck \/ PushTake \/ Produce
  BY <1>8 DEF PushCheck, PushTake, Produce, httpVars, mainVars, PutOnce
<1>9. CASE SpuriousWakeup /\ UNCHANGED <<mainVars, httpVars, pushVars, accepted>>
  BY <1>9 DEF httpVars, mainVars, PutOnce
<1>10. CASE UNCHANGED vars
  BY <1>10 DEF vars, httpVars, mainVars, PutOnce
<1>11. QED
  BY <1>2, <1>3, <1>4, <1>5, <1>6, <1>7, <1>8, <1>9, <1>10
     DEF Next, Startup, Shutdown, MainStep, RpcCallback, Pushing

\* A step of Ingress is a step of the queue's clients, or leaves them alone.
LEMMA TaskchanStep ==
    IsFiniteSet(Requests) /\ Types /\ PutOnce /\ [Next]_vars
        => [Taskchan!Next]_(Taskchan!vars)
<1> SUFFICES ASSUME IsFiniteSet(Requests), Types, PutOnce, [Next]_vars
             PROVE  Taskchan!Next \/ UNCHANGED Taskchan!vars
  OBVIOUS
<1> USE IngressAssumption
<1>1. /\ handling \in Requests \cup {None} /\ Requests \subseteq Message /\ Exit \in Message
      /\ http \in {"check", "put", "answer"} <=> handling \in Requests
      /\ None \notin Message
  BY DEF Types, HttpType, Message
<1>2. ASSUME UNCHANGED <<queueVars, accepted, taken>>, Putting' = Putting, Taking' = Taking
      PROVE  UNCHANGED Taskchan!vars
  BY <1>2 DEF queueVars, Taskchan!vars, Taskchan!queueVars, Taskchan!callVars
<1>3. ASSUME NEW q \in Requests, Receive(q) PROVE UNCHANGED Taskchan!vars
  <2>1. http = "idle" /\ http' = "check" /\ UNCHANGED <<main, pushing>>
        /\ UNCHANGED <<queueVars, accepted, taken>>
    BY <1>3 DEF Receive, At, mainVars, pushVars
  <2>2. QED
    BY <1>2, <2>1 DEF Putting, Taking
<1>4. CASE CheckFull
  <2>1. http = "check" /\ UNCHANGED <<queueVars, accepted, taken, main, pushing>>
    BY <1>4 DEF CheckFull, At, mainVars, pushVars
  <2>2. CASE http' = "put" /\ UNCHANGED handling
    <3>1. Len(accepted) < Cardinality(Message)
      BY <1>1, <2>1, FewAccepted DEF PutOnce
    <3>2. /\ Putting["http"] = None
          /\ Putting' = [Putting EXCEPT !["http"] = handling] /\ Taking' = Taking
      BY <2>1, <2>2 DEF Putting, Taking
    <3>3. Taskchan!CallPut("http", handling)
      BY <2>1, <3>1, <3>2 DEF Taskchan!CallPut, Taskchan!queueVars, queueVars
    <3>4. QED
      BY <1>1, <2>1, <3>3 DEF Taskchan!Next
  <2>3. CASE http' = "idle"
    BY <1>2, <2>1, <2>3 DEF Putting, Taking
  <2>4. QED
    BY <1>4, <2>2, <2>3 DEF CheckFull, PutOrRefuse
<1>5. CASE HandlerPut
  <2>1. /\ http = "put" /\ "http" \notin notFull
        /\ UNCHANGED <<main, pushing, handling, taken>>
    BY <1>5 DEF HandlerPut, At, mainVars, pushVars
  <2>2. Putting["http"] = handling /\ handling # None /\ Taking' = Taking
    BY <1>1, <2>1 DEF Putting, Taking
  <2>3. CASE PutDone(handling) /\ accepted' = Append(accepted, handling) /\ http' = "answer"
    <3>1. Putting' = [Putting EXCEPT !["http"] = None]
      BY <2>1, <2>3 DEF Putting
    <3>2. Taskchan!PutDone(handling)
      BY <2>3 DEF PutDone, full, NotifyOne, Taskchan!PutDone, Taskchan!full,
                  Taskchan!NotifyOne
    <3>3. Taskchan!Put("http")
      BY <2>1, <2>2, <2>3, <3>1, <3>2 DEF Taskchan!Put
    <3>4. QED
      BY <3>3 DEF Taskchan!Next
  <2>4. CASE PutWait("http") /\ UNCHANGED <<accepted, http>>
    <3>1. Putting' = Putting
      BY <2>1, <2>4 DEF Putting
    <3>2. Taskchan!PutWait("http")
      BY <2>4 DEF PutWait, full, Taskchan!PutWait, Taskchan!full
    <3>3. Taskchan!Put("http")
      BY <2>1, <2>2, <2>4, <3>1, <3>2 DEF Taskchan!Put
    <3>4. QED
      BY <3>3 DEF Taskchan!Next
  <2>5. QED
    BY <1>5, <2>3, <2>4 DEF HandlerPut
<1>6. CASE Answer
  <2>1. http = "answer" /\ http' = "idle" /\ UNCHANGED <<main, pushing>>
        /\ UNCHANGED <<queueVars, accepted, taken>>
    BY <1>6 DEF Answer, At, mainVars, pushVars
  <2>2. QED
    BY <1>2, <2>1 DEF Putting, Taking
<1>7. CASE StopRunning
  <2>1. /\ main = "stopping" /\ main' = "notifying" /\ UNCHANGED <<http, handling, pushing>>
        /\ UNCHANGED <<queueVars, accepted, taken>>
    BY <1>7 DEF StopRunning, Step, At, httpVars, pushVars
  <2>2. Len(accepted) < Cardinality(Message)
    BY <1>1, <2>1, FewAccepted DEF PutOnce
  <2>3. /\ Putting["main"] = None
        /\ Putting' = [Putting EXCEPT !["main"] = Exit] /\ Taking' = Taking
    BY <2>1 DEF Putting, Taking
  <2>4. Taskchan!CallPut("main", Exit)
    BY <2>1, <2>2, <2>3 DEF Taskchan!CallPut, Taskchan!queueVars, queueVars
  <2>5. QED
    BY <1>1, <2>4 DEF Taskchan!Next
<1>8. CASE StopPut
  <2>1. /\ main = "notifying" /\ "main" \notin notFull
        /\ UNCHANGED <<http, handling, pushing, taken>>
    BY <1>8 DEF StopPut, At, httpVars, pushVars
  <2>2. Putting["main"] = Exit /\ Exit # None /\ Taking' = Taking
    BY <2>1 DEF Putting, Taking
  <2>3. CASE PutDone(Exit) /\ accepted' = Append(accepted, Exit) /\ main' = "joining"
    <3>1. Putting' = [Putting EXCEPT !["main"] = None]
      BY <2>1, <2>3 DEF Putting
    <3>2. Taskchan!PutDone(Exit)
      BY <2>3 DEF PutDone, full, NotifyOne, Taskchan!PutDone, Taskchan!full,
                  Taskchan!NotifyOne
    <3>3. Taskchan!Put("main")
      BY <2>1, <2>2, <2>3, <3>1, <3>2 DEF Taskchan!Put
    <3>4. QED
      BY <3>3 DEF Taskchan!Next
  <2>4. CASE PutWait("main") /\ UNCHANGED <<accepted, main>>
    <3>1. Putting' = Putting
      BY <2>1, <2>4 DEF Putting
    <3>2. Taskchan!PutWait("main")
      BY <2>4 DEF PutWait, full, Taskchan!PutWait, Taskchan!full
    <3>3. Taskchan!Put("main")
      BY <2>1, <2>2, <2>4, <3>1, <3>2 DEF Taskchan!Put
    <3>4. QED
      BY <3>3 DEF Taskchan!Next
  <2>5. QED
    BY <1>8, <2>3, <2>4 DEF StopPut
<1>9. CASE PushCheck
  <2>1. pushing = "loop" /\ UNCHANGED <<queueVars, accepted, taken, main, http, handling>>
    BY <1>9 DEF PushCheck, At, mainVars, httpVars
  <2>2. Putting' = Putting
    BY <2>1 DEF Putting
  <2>3. CASE pushing' = "take"
    <3>1. Taking = {} /\ Taking' = {"pushing"}
      BY <2>1, <2>3 DEF Taking
    <3>2. Taskchan!CallTake("pushing")
      BY <2>1, <2>2, <3>1 DEF Taskchan!CallTake, Taskchan!queueVars, queueVars
    <3>3. QED
      BY <3>2 DEF Taskchan!Next
  <2>4. CASE pushing' = "exited"
    BY <1>2, <2>1, <2>2, <2>4 DEF Taking
  <2>5. QED
    BY <1>9, <2>3, <2>4 DEF PushCheck
<1>10. CASE PushTake
  <2>1. /\ pushing = "take" /\ "pushing" \notin notEmpty
        /\ UNCHANGED <<accepted, main, http, handling>>
    BY <1>10 DEF PushTake, At, mainVars, httpVars
  <2>2. Putting' = Putting /\ Taking = {"pushing"}
    BY <2>1 DEF Putting, Taking
  <2>3. CASE TakeDone /\ taken' = Append(taken, front) /\ pushing' \in {"push", "loop"}
    <3>1. Taking' = Taking \ {"pushing"}
      BY <2>1, <2>3 DEF Taking
    <3>2. Taskchan!TakeDone /\ Taskchan!front = front
      BY <2>3 DEF TakeDone, empty, front, NotifyOne, Taskchan!TakeDone, Taskchan!empty,
                  Taskchan!front, Taskchan!NotifyOne
    <3>3. Taskchan!Take("pushing")
      BY <2>1, <2>2, <2>3, <3>1, <3>2 DEF Taskchan!Take
    <3>4. QED
      BY <3>3 DEF Taskchan!Next
  <2>4. CASE TakeWait("pushing") /\ UNCHANGED <<pushing, taken>>
    <3>1. Taking' = Taking
      BY <2>4 DEF Taking
    <3>2. Taskchan!TakeWait("pushing")
      BY <2>4 DEF TakeWait, empty, Taskchan!TakeWait, Taskchan!empty
    <3>3. Taskchan!Take("pushing")
      BY <2>1, <2>2, <2>4, <3>1, <3>2 DEF Taskchan!Take
    <3>4. QED
      BY <3>3 DEF Taskchan!Next
  <2>5. QED
    BY <1>10, <2>3, <2>4 DEF PushTake
<1>11. CASE Produce
  <2>1. UNCHANGED <<queueVars, accepted, taken, main, http, handling>>
        /\ (pushing' = pushing \/ (pushing = "push" /\ pushing' = "loop"))
    BY <1>11 DEF Produce, At, mainVars, httpVars
  <2>2. QED
    BY <1>2, <2>1 DEF Putting, Taking
<1>12. CASE MainStep /\ ~StopRunning
  <2>1. UNCHANGED <<queueVars, accepted, taken, handling>>
    BY <1>12 DEF MainStep, SpawnPushing, SetRunning, AcceptorStart,
                 WaitForUserInterrupt, AcceptorStop, StopJoin, StopReturn,
                 Interrupt, SpuriousInterrupt, httpVars, pushVars
  <2>2. pushing' = pushing \/ (pushing = "unborn" /\ pushing' = "loop")
    BY <1>12 DEF MainStep, SpawnPushing, SetRunning, AcceptorStart,
                 WaitForUserInterrupt, AcceptorStop, StopJoin, StopReturn,
                 Interrupt, SpuriousInterrupt, pushVars, Step, At, Types, Phases
  <2>3. http' = http \/ (http = "down" /\ http' = "idle")
    BY <1>12 DEF MainStep, SpawnPushing, SetRunning, AcceptorStart,
                 WaitForUserInterrupt, AcceptorStop, StopJoin, StopReturn,
                 Interrupt, SpuriousInterrupt, httpVars, Step, At, Types, Phases
  <2>4. main' = main \/ (main # "notifying" /\ main' # "notifying")
    BY <1>12 DEF MainStep, SpawnPushing, SetRunning, AcceptorStart,
                 WaitForUserInterrupt, AcceptorStop, StopJoin, StopReturn,
                 Interrupt, SpuriousInterrupt, Step, At
  <2>5. QED
    BY <1>2, <2>1, <2>2, <2>3, <2>4 DEF Putting, Taking
<1>13. CASE SpuriousWakeup /\ UNCHANGED <<mainVars, httpVars, pushVars, accepted>>
  <2>1. Putting' = Putting /\ Taking' = Taking /\ UNCHANGED <<accepted, taken>>
    BY <1>13 DEF Putting, Taking, mainVars, httpVars, pushVars
  <2>2. Taskchan!SpuriousWakeup
    BY <1>13 DEF SpuriousWakeup, Taskchan!SpuriousWakeup
  <2>3. QED
    BY <2>1, <2>2 DEF Taskchan!Next, Taskchan!callVars
<1>14. CASE UNCHANGED vars
  BY <1>2, <1>14 DEF vars, mainVars, httpVars, pushVars, Putting, Taking
<1>15. QED
  BY <1>3, <1>4, <1>5, <1>6, <1>7, <1>8, <1>9, <1>10, <1>11, <1>12, <1>13, <1>14
     DEF Next, Startup, Shutdown, MainStep, RpcCallback, Pushing

\* RpcCallback, Pushing and KafkaProducer::Stop use taskchan as QueueClients lets
\* its threads do: what is proved of the queue holds of taskchan, for every finite
\* set of requests, and through it the promise of the abstract FIFO.
THEOREM ImplementsQueue ==
    ASSUME IsFiniteSet(Requests)
    PROVE  Spec => Taskchan!Spec
<1>1. Init => PutOnce /\ Taskchan!Init
  <2> SUFFICES ASSUME Init PROVE PutOnce /\ Taskchan!Init
    OBVIOUS
  <2>1. PutOnce
    BY DEF Init, PutOnce, Contains
  <2>2. Putting = [p \in {"http", "main"} |-> None] /\ Taking = {}
    BY DEF Init, Putting, Taking
  <2>3. Taskchan!Init
    BY <2>2 DEF Init, QueueInit, Taskchan!Init, Taskchan!QueueInit
  <2>4. QED
    BY <2>1, <2>3
<1>2. Types /\ PutOnce /\ [Next]_vars => [Taskchan!Next]_(Taskchan!vars)
  BY TaskchanStep
<1>3. QED
  BY <1>1, <1>2, PutOnceStep, TypesInv, PTL DEF Spec, Taskchan!Spec

\* Pushing never sleeps while a message is on taskchan, though put notifies for
\* the first message only: nothing acknowledged waits for the next request.
THEOREM PushingAwake ==
    ASSUME IsFiniteSet(Requests)
    PROVE  Spec => [](ringbuffer # <<>> => "pushing" \notin notEmpty)
<1>1. Taskchan!Spec => []Taskchan!SomeTakerAwake
  BY TaskchanAssumptions, Taskchan!TakerAwake
<1>2. Types /\ Taskchan!SomeTakerAwake => (ringbuffer # <<>> => "pushing" \notin notEmpty)
  BY DEF Types, Sleepers, Taskchan!SomeTakerAwake
<1>3. QED
  BY <1>1, <1>2, ImplementsQueue, TypesInv, PTL

-----------------------------------------------------------------------------
(* What becomes of a request.                                              *)

\* A request waits for put, or is on taskchan and waits for its answer, or was
\* refused, or was accepted.
Waits(r) == /\ ~Contains(accepted, r)
            /\ IF handling = r THEN answers[r] = Before(r) /\ http \in {"check", "put"}
                               ELSE answers[r] = <<>>
IsPut(r) == /\ answers[r] = Before(r) /\ handling = r /\ http = "answer"
            /\ Contains(accepted, r)
IsRefused(r) == /\ answers[r] = Before(r) \o <<-1>> /\ handling # r
                /\ ~Contains(accepted, r)
IsAccepted(r) == answers[r] = Before(r) \o <<0>> /\ handling # r /\ Contains(accepted, r)
Fate(r) == Waits(r) \/ IsPut(r) \/ IsRefused(r) \/ IsAccepted(r)
Fates == \A r \in Requests : Fate(r)

\* What the handler adds to the answer of the parsing.
LEMMA BeforeAppend ==
    ASSUME NEW r, NEW x \in {0, -1}
    PROVE  /\ Before(r) \in Seq({0, -1})
           /\ Append(Before(r), x) = Before(r) \o <<x>> /\ Before(r) \o <<x>> # <<>>
<1>1. Before(r) = <<-1>> \/ Before(r) = <<>>
  BY DEF Before
<1>2. <<-1>> \in Seq({0, -1}) /\ <<>> \in Seq({0, -1}) /\ <<x>> \in Seq({0, -1})
  OBVIOUS
<1>3. Before(r) \in Seq({0, -1})
  BY <1>1, <1>2
<1>4. Append(Before(r), x) = Before(r) \o <<x>>
  BY <1>3, AppendIsConcat
<1>5. Append(Before(r), x) # <<>>
  BY <1>3
<1>6. QED
  BY <1>3, <1>4, <1>5

\* Nothing happens to a request that is not in hand.
LEMMA OthersKept ==
    ASSUME Types, [Next]_vars, NEW r \in Requests, handling # r, handling' # r
    PROVE  answers'[r] = answers[r] /\ (Contains(accepted', r) <=> Contains(accepted, r))
<1> USE IngressAssumption
<1>1. /\ accepted \in Seq(Message) /\ answers \in [Requests -> Seq({0, -1})]
      /\ http \in {"check", "put", "answer"} <=> handling \in Requests
  BY DEF Types, QueueType, HttpType
<1>2. ASSUME NEW q \in Requests, Receive(q)
      PROVE  answers'[r] = answers[r] /\ UNCHANGED accepted
  BY <1>1, <1>2 DEF Receive
<1>3. CASE CheckFull \/ Answer
  BY <1>1, <1>3 DEF CheckFull, PutOrRefuse, Answer
<1>4. ASSUME NEW x \in Message, x # r, accepted' = Append(accepted, x)
      PROVE  Contains(accepted', r) <=> Contains(accepted, r)
  <2>1. Contains(Append(accepted, x), r) <=> Contains(accepted, r) \/ x = r
    BY <1>1, ContainsAppend
  <2>2. QED
    BY <1>4, <2>1
<1>5. CASE HandlerPut
  <2>1. handling \in Message /\ UNCHANGED answers
    BY <1>1, <1>5 DEF HandlerPut, At, Message
  <2>2. accepted' = Append(accepted, handling) \/ UNCHANGED accepted
    BY <1>5 DEF HandlerPut
  <2>3. QED
    BY <1>4, <2>1, <2>2
<1>6. CASE StopPut
  <2>1. accepted' = Append(accepted, Exit) \/ UNCHANGED accepted
    BY <1>6 DEF StopPut
  <2>2. UNCHANGED answers /\ Exit \in Message /\ Exit # r
    BY <1>6 DEF StopPut, httpVars, Message
  <2>3. QED
    BY <1>4, <2>1, <2>2
<1>7. CASE MainStep
  BY <1>7 DEF MainStep, SpawnPushing, SetRunning, AcceptorStart, WaitForUserInterrupt,
              AcceptorStop, StopRunning, StopJoin, StopReturn, Interrupt,
              SpuriousInterrupt, httpVars
<1>8. CASE PushCheck \/ PushTake \/ Produce
  BY <1>8 DEF PushCheck, PushTake, Produce, httpVars
<1>9. QED
  BY <1>2, <1>3, <1>5, <1>6, <1>7, <1>8
     DEF Next, Startup, Shutdown, MainStep, RpcCallback, Pushing, vars, httpVars

\* The handler takes a request only by receiving it, and lets go of it only with
\* an answer.
LEMMA HandlingChanges ==
    ASSUME Types, [Next]_vars, handling' # handling
    PROVE  \/ \E q \in Requests : Receive(q)
           \/ CheckFull /\ full
           \/ Answer
<1>1. CASE MainStep
  BY <1>1 DEF MainStep, SpawnPushing, SetRunning, AcceptorStart, WaitForUserInterrupt,
              AcceptorStop, StopRunning, StopJoin, StopReturn, Interrupt,
              SpuriousInterrupt, httpVars
<1>2. QED
  BY <1>1 DEF Next, Startup, Shutdown, MainStep, StopPut, RpcCallback, HandlerPut,
              CheckFull, PutOrRefuse, Pushing, PushCheck, PushTake, Produce, httpVars,
              vars

LEMMA FatesStep == Types /\ Fates /\ [Next]_vars => Fates'
<1> SUFFICES ASSUME Types, Fates, [Next]_vars, NEW r \in Requests
             PROVE  Fate(r)'
  BY DEF Fates
<1> USE IngressAssumption
<1>1. /\ Fate(r) /\ accepted \in Seq(Message) /\ answers \in [Requests -> Seq({0, -1})]
      /\ handling \in Requests \cup {None}
      /\ http \in {"check", "put", "answer"} <=> handling \in Requests
      /\ http = "down" <=> main \in {"new", "spawned", "producing"}
  BY DEF Fates, Types, QueueType, HttpType, Phases
<1>2. CASE handling # r /\ handling' # r
  BY <1>1, <1>2, OthersKept DEF Fate, Waits, IsPut, IsRefused, IsAccepted
<1>3. ASSUME NEW q \in Requests, Receive(q), handling' = r PROVE Fate(r)'
  <2>1. /\ q = r /\ http = "idle" /\ http' = "check" /\ answers[r] = <<>>
        /\ UNCHANGED accepted
    BY <1>3 DEF Receive, At
  <2>2. answers'[r] = Before(r)
    BY <1>1, <1>3, <2>1 DEF Receive, Before
  <2>3. ~Contains(accepted, r)
    BY <1>1, <2>1, BeforeAppend DEF Fate, Waits, IsPut, IsRefused, IsAccepted
  <2>4. QED
    BY <1>3, <2>1, <2>2, <2>3 DEF Fate, Waits
<1>4. CASE handling = r /\ CheckFull
  <2>1. http = "check" /\ UNCHANGED accepted /\ Waits(r)
    BY <1>1, <1>4 DEF CheckFull, At, Fate, IsPut, IsRefused, IsAccepted
  <2>2. CASE http' = "put" /\ UNCHANGED <<handling, answers>>
    BY <1>4, <2>1, <2>2 DEF Fate, Waits
  <2>3. CASE handling' = None /\ answers' = [answers EXCEPT ![handling] = Append(@, -1)]
    <3>1. answers'[r] = Before(r) \o <<-1>>
      BY <1>1, <1>4, <2>1, <2>3, BeforeAppend DEF Waits
    <3>2. QED
      BY <2>1, <2>3, <3>1 DEF Waits, Fate, IsRefused
  <2>4. QED
    BY <1>4, <2>2, <2>3 DEF CheckFull, PutOrRefuse
<1>5. CASE handling = r /\ HandlerPut
  <2>1. http = "put" /\ UNCHANGED <<handling, answers>> /\ Waits(r)
    BY <1>1, <1>5 DEF HandlerPut, At, Fate, IsPut, IsRefused, IsAccepted
  <2>2. CASE accepted' = Append(accepted, handling) /\ http' = "answer"
    <3>1. Contains(accepted', r)
      BY <1>1, <1>5, <2>2, ContainsAppend DEF Message
    <3>2. QED
      BY <1>5, <2>1, <2>2, <3>1 DEF Waits, Fate, IsPut
  <2>3. CASE UNCHANGED <<accepted, http>>
    BY <2>1, <2>3 DEF Fate, Waits
  <2>4. QED
    BY <1>5, <2>2, <2>3 DEF HandlerPut
<1>6. CASE handling = r /\ Answer
  <2>1. /\ http = "answer" /\ handling' = None /\ UNCHANGED accepted
        /\ answers' = [answers EXCEPT ![handling] = Append(@, 0)]
    BY <1>6 DEF Answer, At
  <2>2. IsPut(r)
    BY <1>1, <1>6, <2>1 DEF Fate, Waits, IsRefused, IsAccepted
  <2>3. answers'[r] = Before(r) \o <<0>>
    BY <1>1, <1>6, <2>1, <2>2, BeforeAppend DEF IsPut
  <2>4. QED
    BY <2>1, <2>2, <2>3 DEF IsPut, Fate, IsAccepted
<1>7. ASSUME UNCHANGED <<handling, answers, http>>,
             Contains(accepted', r) <=> Contains(accepted, r)
      PROVE  Fate(r)'
  BY <1>1, <1>7 DEF Fate, Waits, IsPut, IsRefused, IsAccepted
<1>8. CASE StopPut
  <2>1. accepted' = Append(accepted, Exit) \/ UNCHANGED accepted
    BY <1>8 DEF StopPut
  <2>2. Exit \in Message /\ Exit # r
    BY DEF Message
  <2>3. Contains(Append(accepted, Exit), r) <=> Contains(accepted, r)
    BY <1>1, <2>2, ContainsAppend
  <2>4. QED
    BY <1>7, <1>8, <2>1, <2>3 DEF StopPut, httpVars
<1>9. CASE handling = r /\ MainStep
  <2>1. UNCHANGED <<handling, answers, accepted>> /\ (http' = http \/ main = "producing")
    BY <1>9 DEF MainStep, SpawnPushing, SetRunning, AcceptorStart,
                WaitForUserInterrupt, AcceptorStop, StopRunning, StopJoin,
                StopReturn, Interrupt, SpuriousInterrupt, httpVars, Step, At
  <2>2. QED
    BY <1>1, <1>7, <1>9, <2>1
<1>10. CASE PushCheck \/ PushTake \/ Produce
  BY <1>7, <1>10 DEF PushCheck, PushTake, Produce, httpVars
<1>11. CASE SpuriousWakeup /\ UNCHANGED <<mainVars, httpVars, pushVars, accepted>>
  BY <1>7, <1>11 DEF httpVars
<1>12. CASE UNCHANGED vars
  BY <1>7, <1>12 DEF vars, httpVars
<1>13. CASE handling = r /\ \E q \in Requests : Receive(q)
  BY <1>1, <1>13 DEF Receive, At
<1>14. CASE handling = r
  BY <1>4, <1>5, <1>6, <1>8, <1>9, <1>10, <1>11, <1>12, <1>13, <1>14
     DEF Next, Startup, Shutdown, MainStep, RpcCallback, Pushing
<1>15. CASE handling # r /\ handling' = r
  <2>1. \/ \E q \in Requests : Receive(q)
        \/ handling' = None
    BY <1>15, HandlingChanges DEF CheckFull, PutOrRefuse, Answer
  <2>2. QED
    BY <1>3, <1>15, <2>1
<1>16. QED
  BY <1>2, <1>14, <1>15

\* How often an accepted request was put, and one that was not.
LEMMA PutsCounted ==
    ASSUME NEW s \in Seq(Message), \A i, j \in DOMAIN s : s[i] = s[j] => i = j, NEW r
    PROVE  Cardinality({i \in DOMAIN s : s[i] = r}) = IF Contains(s, r) THEN 1 ELSE 0
<1> DEFINE places == {i \in DOMAIN s : s[i] = r}
<1>1. DOMAIN s = 1..Len(s)
  OBVIOUS
<1>2. CASE Contains(s, r)
  <2>1. PICK i \in DOMAIN s : s[i] = r
    BY <1>1, <1>2 DEF Contains
  <2>2. places = {i}
    BY <2>1
  <2>3. Cardinality(places) = 1
    BY <2>2, FS_Singleton
  <2>4. QED
    BY <1>2, <2>3
<1>3. CASE ~Contains(s, r)
  <2>1. places = {}
    BY <1>1, <1>3 DEF Contains
  <2>2. Cardinality(places) = 0
    BY <2>1, FS_EmptySet
  <2>3. QED
    BY <1>3, <2>2
<1>4. QED
  BY <1>2, <1>3

LEMMA InitFates == Init => Fates /\ PutOnce
  BY IngressAssumption DEF Init, Fates, Fate, Waits, PutOnce, Contains

LEMMA AnsweredStep ==
    ASSUME Types, PutOnce, PutOnce', Types', Fates', [Next]_vars, NEW r \in Requests,
           handling' # r
    PROVE  IF handling = r
           THEN \/ Puts(r)' = 1 /\ answers'[r] = Before(r) \o <<0>>
                \/ Puts(r)' = 0 /\ answers'[r] = Before(r) \o <<-1>>
           ELSE Puts(r)' = Puts(r) /\ answers'[r] = answers[r]
<1>1. /\ accepted \in Seq(Message) /\ accepted' \in Seq(Message)
      /\ answers \in [Requests -> Seq({0, -1})]
      /\ http \in {"check", "put", "answer"} <=> handling \in Requests
  BY DEF Types, QueueType, HttpType
<1>2. Puts(r)' = IF Contains(accepted', r) THEN 1 ELSE 0
  <2>1. \A i, j \in DOMAIN accepted' : accepted'[i] = accepted'[j] => i = j
    BY DEF PutOnce
  <2>2. QED
    BY <1>1, <2>1, PutsCounted DEF Puts
<1>3. CASE handling # r
  <2>1. Puts(r) = IF Contains(accepted, r) THEN 1 ELSE 0
    BY <1>1, PutsCounted DEF Puts, PutOnce
  <2>2. QED
    BY <1>2, <1>3, <2>1, OthersKept
<1>4. CASE handling = r
  <2>1. answers'[r] # <<>>
    <3>1. \E x \in {0, -1} : answers' = [answers EXCEPT ![r] = Append(@, x)]
      <4>1. CASE \E q \in Requests : Receive(q)
        BY <1>1, <1>4, <4>1 DEF Receive, At
      <4>2. CASE CheckFull /\ full
        BY <1>4, <4>2 DEF CheckFull, PutOrRefuse
      <4>3. CASE Answer
        BY <1>4, <4>3 DEF Answer
      <4>4. QED
        BY <1>4, <4>1, <4>2, <4>3, HandlingChanges
    <3>2. PICK x \in {0, -1} : answers'[r] = Append(answers[r], x)
      BY <1>1, <3>1
    <3>3. answers[r] \in Seq({0, -1})
      BY <1>1
    <3>4. QED
      BY <3>2, <3>3
  <2>2. IsRefused(r)' \/ IsAccepted(r)'
    BY <2>1 DEF Fates, Fate, Waits, IsPut
  <2>3. Before(r)' = Before(r)
    BY DEF Before
  <2>4. QED
    BY <1>2, <1>4, <2>2, <2>3 DEF IsRefused, IsAccepted
<1>5. QED
  BY <1>3, <1>4

\* A request the handler is done with was either put on taskchan, once, and answered
\* 0 at last, or never put and answered -1, malformed or not; and no other request
\* is put or answered meanwhile.
THEOREM AnsweredByFateCorrect == Spec => AnsweredByFate
<1>1. Types /\ PutOnce /\ PutOnce' /\ Types' /\ Fates' /\ [Next]_vars
        => [\A r \in Requests : handling' # r =>
               IF handling = r
               THEN \/ Puts(r)' = 1 /\ answers'[r] = Before(r) \o <<0>>
                    \/ Puts(r)' = 0 /\ answers'[r] = Before(r) \o <<-1>>
               ELSE Puts(r)' = Puts(r) /\ answers'[r] = answers[r]]_vars
  BY AnsweredStep
<1>2. QED
  BY <1>1, InitFates, FatesStep, PutOnceStep, TypesInv, PTL DEF Spec, AnsweredByFate

-----------------------------------------------------------------------------
(* What becomes of a request that was acknowledged.                        *)

\* Whoever is answered 0 was put before.
AckedPut == \A r \in Requests : Acked(r) => Contains(accepted, r)

LEMMA FatesAcked == Fates => AckedPut
<1> SUFFICES ASSUME Fates, NEW r \in Requests, Acked(r) PROVE Contains(accepted, r)
  BY DEF AckedPut
<1>1. /\ answers[r] # <<>> /\ answers[r] # <<-1>> /\ answers[r] # <<>> \o <<-1>>
      /\ answers[r] # <<-1>> \o <<-1>>
  BY DEF Acked
<1>2. QED
  BY <1>1 DEF Fates, Fate, Waits, IsPut, IsRefused, IsAccepted, Before

\* The front of accepted was taken, the rest is on taskchan.
LEMMA TakenOrQueued ==
    ASSUME Types, ProducedInOrder
    PROVE  /\ \A k \in DOMAIN taken : k \in DOMAIN accepted /\ accepted[k] = taken[k]
           /\ \A m : Contains(accepted, m)
                         => Contains(ringbuffer, m) \/ \E k \in DOMAIN taken : taken[k] = m
<1>1. taken \in Seq(Message) /\ ringbuffer \in Seq(Message) /\ accepted \in Seq(Message)
  BY DEF Types, QueueType
<1>2. /\ Len(accepted) = Len(taken) + Len(ringbuffer)
      /\ \A i \in 1..(Len(taken) + Len(ringbuffer)) : accepted[i] =
             IF i <= Len(taken) THEN taken[i] ELSE ringbuffer[i - Len(taken)]
  BY <1>1, ConcatProperties DEF ProducedInOrder
<1>3. /\ DOMAIN accepted = 1..Len(accepted) /\ DOMAIN taken = 1..Len(taken)
      /\ Len(taken) \in Nat /\ Len(ringbuffer) \in Nat
  BY <1>1, LenProperties
<1>4. ASSUME NEW k \in DOMAIN taken PROVE k \in DOMAIN accepted /\ accepted[k] = taken[k]
  BY <1>2, <1>3
<1>5. ASSUME NEW m, NEW i \in 1..Len(accepted), accepted[i] = m
      PROVE  Contains(ringbuffer, m) \/ \E k \in DOMAIN taken : taken[k] = m
  <2>1. CASE i <= Len(taken)
    BY <1>2, <1>3, <1>5, <2>1
  <2>2. CASE ~(i <= Len(taken))
    <3>1. i - Len(taken) \in 1..Len(ringbuffer) /\ ringbuffer[i - Len(taken)] = m
      BY <1>2, <1>3, <1>5, <2>2
    <3>2. QED
      BY <3>1 DEF Contains
  <2>3. QED
    BY <2>1, <2>2
<1>6. QED
  BY <1>4, <1>5 DEF Contains

\* Whoever was told "sent" is on taskchan, in the hand of Pushing, or with the library.
AckedIsOnItsWay ==
    \A r \in Requests : Acked(r) /\ HasTopic(r) =>
        \/ Contains(ringbuffer, r)
        \/ pushing = "push" /\ hand = r
        \/ Contains(produced, r)

\* The server answers before anything is sent; but between the put and produce() no
\* acknowledged request disappears, whatever Stop or the library do meanwhile.
THEOREM AckedIsOnItsWayCorrect == Spec => []AckedIsOnItsWay
<1>1. Types /\ ProducedInOrder /\ AckedPut => AckedIsOnItsWay
  <2> SUFFICES ASSUME Types, ProducedInOrder, AckedPut, NEW r \in Requests,
                      Acked(r), HasTopic(r), ~Contains(ringbuffer, r)
               PROVE  (pushing = "push" /\ hand = r) \/ Contains(produced, r)
    BY DEF AckedIsOnItsWay
  <2>1. PICK k \in DOMAIN taken : taken[k] = r
    BY TakenOrQueued DEF AckedPut
  <2>2. PICK place \in [DOMAIN Chosen -> Topical(taken)] :
            /\ Range(place) = Topical(taken)
            /\ \A i \in DOMAIN Chosen : Chosen[i] = taken[place[i]]
    BY DEF ProducedInOrder, PicksTopical, Chosen
  <2>3. k \in Topical(taken)
    BY <2>1 DEF Topical
  <2>4. PICK i \in DOMAIN Chosen : place[i] = k
    BY <2>2, <2>3 DEF Range
  <2>5. Chosen[i] = r
    BY <2>1, <2>2, <2>4
  <2>6. /\ produced \in Seq(Requests) /\ DOMAIN produced = 1..Len(produced)
        /\ pushing = "push" => hand \in Requests
    BY DEF Types, PushType
  <2>7. CASE pushing = "push"
    <3>1. Chosen = Append(produced, hand) /\ hand \in Requests
      BY <2>6, <2>7 DEF Chosen
    <3>2. \/ i \in 1..Len(produced) /\ produced[i] = r
          \/ hand = r
      BY <2>4, <2>5, <2>6, <3>1, AppendElements
    <3>3. QED
      BY <2>7, <3>2 DEF Contains
  <2>8. CASE pushing # "push"
    BY <2>4, <2>5, <2>6, <2>8 DEF Chosen, Contains
  <2>9. QED
    BY <2>7, <2>8
<1>2. QED
  BY <1>1, InitFates, FatesStep, FatesAcked, TypesInv, ProducedInOrderCorrect, PTL
     DEF Spec

\* No request is given to Kafka twice by one run of the program.
THEOREM ProducedOnce ==
    Spec => [](\A i, j \in DOMAIN produced : produced[i] = produced[j] => i = j)
<1>1. Types /\ ProducedInOrder /\ PutOnce
          => \A i, j \in DOMAIN produced : produced[i] = produced[j] => i = j
  <2> SUFFICES ASSUME Types, ProducedInOrder, PutOnce, NEW i \in DOMAIN produced,
                      NEW j \in DOMAIN produced, produced[i] = produced[j]
               PROVE  i = j
    OBVIOUS
  <2>1. /\ i \in Nat /\ j \in Nat /\ DOMAIN produced \subseteq DOMAIN Chosen
        /\ \A n \in DOMAIN produced : Chosen[n] = produced[n]
    <3>1. produced \in Seq(Requests) /\ (pushing = "push" => hand \in Requests)
      BY DEF Types, PushType
    <3>2. QED
      BY <3>1, AppendElements DEF Chosen
  <2>2. PICK place \in [DOMAIN Chosen -> Topical(taken)] :
            /\ \A m, n \in DOMAIN Chosen : m < n => place[m] < place[n]
            /\ \A n \in DOMAIN Chosen : Chosen[n] = taken[place[n]]
    BY DEF ProducedInOrder, PicksTopical, Chosen
  <2>3. place[i] \in DOMAIN taken /\ place[j] \in DOMAIN taken
    BY <2>1 DEF Topical
  <2>4. taken[place[i]] = taken[place[j]]
    BY <2>1, <2>2
  <2>5. place[i] = place[j]
    BY <2>3, <2>4, TakenOrQueued DEF PutOnce
  <2>6. place[i] \in Nat
    BY <2>3 DEF Types, QueueType
  <2>7. QED
    BY <2>1, <2>2, <2>5, <2>6
<1>2. Init => PutOnce
  BY DEF Init, PutOnce, Contains
<1>3. QED
  BY <1>1, <1>2, PutOnceStep, TypesInv, ProducedInOrderCorrect, PTL DEF Spec

\* The requests with a topic that were answered 0.  (One without a topic is answered
\* 0 as well, and is dropped by Pushing.)
Acknowledged == {r \in Requests : Acked(r) /\ HasTopic(r)}

\* The elements of a sequence are no more than its length.
LEMMA ElementsCounted ==
    ASSUME NEW S, NEW s \in Seq(S)
    PROVE  LET elements == {s[i] : i \in 1..Len(s)}
           IN  IsFiniteSet(elements) /\ Cardinality(elements) <= Len(s)
<1> DEFINE places == 1..Len(s)
           elements == {s[i] : i \in places}
<1>1. Len(s) \in Nat
  OBVIOUS
<1>2. IsFiniteSet(places) /\ Cardinality(places) = Len(s)
  BY <1>1, FS_Interval
<1>3. s \in Surjection(places, elements)
  <2>1. DOMAIN s = places /\ s = [i \in places |-> s[i]]
    OBVIOUS
  <2>2. QED
    BY <2>1 DEF Surjection
<1>4. IsFiniteSet(elements) /\ Cardinality(elements) <= Cardinality(places)
  BY <1>2, <1>3, FS_Surjection
<1>5. QED
  BY <1>2, <1>4

\* One run of the program acknowledges no more requests with a topic than the
\* library's out queue holds, which nothing ever empties, taskchan, and the hand of
\* Pushing: after that it refuses everything, or is gone.  This is also all that a
\* crash can take of what was acknowledged, whatever the library had delivered.
THEOREM FewAcknowledged ==
    Spec => [](/\ IsFiniteSet(Acknowledged)
               /\ Cardinality(Acknowledged) <= OutQueueLimit + Capacity + 1)
<1>1. Types /\ AckedIsOnItsWay
          => /\ IsFiniteSet(Acknowledged)
             /\ Cardinality(Acknowledged) <= OutQueueLimit + Capacity + 1
  <2> SUFFICES ASSUME Types, AckedIsOnItsWay
               PROVE  /\ IsFiniteSet(Acknowledged)
                      /\ Cardinality(Acknowledged) <= OutQueueLimit + Capacity + 1
    OBVIOUS
  <2> DEFINE queued == {ringbuffer[i] : i \in 1..Len(ringbuffer)}
             sent == {produced[i] : i \in 1..Len(produced)}
             both == queued \cup sent
             all == both \cup {hand}
  <2>1. /\ ringbuffer \in Seq(Message) /\ produced \in Seq(Requests)
        /\ Len(ringbuffer) \in Nat /\ Len(ringbuffer) <= Capacity /\ Capacity \in Nat
        /\ Len(produced) \in Nat /\ Len(produced) <= OutQueueLimit
        /\ OutQueueLimit \in Nat
    BY CapacityAssumption, IngressAssumption DEF Types, QueueType, PushType
  <2>2. /\ IsFiniteSet(queued) /\ Cardinality(queued) <= Len(ringbuffer)
        /\ IsFiniteSet(sent) /\ Cardinality(sent) <= Len(produced)
    BY <2>1, ElementsCounted
  <2>3. Acknowledged \subseteq all
    BY DEF Acknowledged, AckedIsOnItsWay, Contains
  <2> HIDE DEF queued, sent
  <2>4. /\ IsFiniteSet(both)
        /\ Cardinality(both) = Cardinality(queued) + Cardinality(sent)
                                   - Cardinality(queued \cap sent)
    BY <2>2, FS_Union
  <2>5. /\ Cardinality(queued) \in Nat /\ Cardinality(sent) \in Nat
        /\ Cardinality(queued \cap sent) \in Nat
    <3>1. IsFiniteSet(queued \cap sent)
      BY <2>2, FS_Intersection
    <3>2. QED
      BY <2>2, <3>1, FS_CardinalityType
  <2> HIDE DEF both
  <2>6. /\ IsFiniteSet(all)
        /\ \/ Cardinality(all) = Cardinality(both)
           \/ Cardinality(all) = Cardinality(both) + 1
    BY <2>4, FS_AddElement
  <2> HIDE DEF all
  <2>7. IsFiniteSet(Acknowledged) /\ Cardinality(Acknowledged) <= Cardinality(all)
    BY <2>3, <2>6, FS_Subset
  <2>8. Cardinality(Acknowledged) \in Nat /\ Cardinality(all) \in Nat
    BY <2>6, <2>7, FS_CardinalityType
  <2>9. QED
    BY <2>1, <2>2, <2>4, <2>5, <2>6, <2>7, <2>8
<1>2. QED
  BY <1>1, AckedIsOnItsWayCorrect, TypesInv, PTL
=============================================================================

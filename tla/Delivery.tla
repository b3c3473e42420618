------------------------------ MODULE Delivery ------------------------------
(***************************************************************************)
(* From Kafka to HTTP: KafkaConsumer::ConsumeLoop (NConsumers = 1) takes   *)
(* the messages of the topic and gives each to AsyncClient::AsyncCall,     *)
(* whose ThreadPool calls the URL of the message.                          *)
(*                                                                         *)
(* A task is a lambda that captured the loop's local variable reqmsg by    *)
(* reference: it names the message it was made for, but what it reads is   *)
(* whatever that variable holds by then, field by field.  A message is its *)
(* offset, and so is each of its fields.                                   *)
(***************************************************************************)
EXTENDS Integers, Sequences

CONSTANTS Capacity, maxThreads, Exit, None,
          NMessages,    \* bound: the messages of the topic
          Retries       \* the values the retries of the config can have

Messages == 1..NMessages

\* The fields of a RequestMessage that FromJSON fills and a call reads.
Fields == {"url", "data", "headers"}
Empty == [f \in Fields |-> None]

ASSUME DeliveryAssumption ==
    /\ Capacity \in Nat /\ maxThreads \in Nat /\ NMessages \in Nat
    /\ Exit \notin Messages /\ None \notin Messages \cup {Exit}
    /\ Retries \subseteq Int

VARIABLES ringbuffer, notEmpty, notFull, IsRunning, pc, todo, main, joining,
          putting, accepted, taken, late   \* of the ThreadPool

Pool == INSTANCE ThreadPool WITH Tasks <- Messages, Endless <- {}

VARIABLES consuming,  \* KafkaConsumer::IsRunning
          loop,       \* where ConsumeLoop is
          offset,     \* the last message it consumed
          reqmsg,     \* what its variable holds, or held last, field by field
          alive,      \* reqmsg is in scope
          retries,    \* AsyncClient::retries
          rateLimit,  \* SetTokenBucket was called, which main does not do
          call,       \* where each worker is in Call
          read,       \* the fields it has read, of the data the length only
          crashed,    \* the process was terminated
          finished    \* history: the tasks whose call ended with a 200, whatever
                      \* message it read its fields from

threadVars == <<IsRunning, pc, todo, main, joining, putting, accepted, taken, late>>
poolVars == <<ringbuffer, notEmpty, notFull, threadVars>>
loopVars == <<consuming, loop, offset, reqmsg, alive>>
callVars == <<call, read, finished>>
vars == <<poolVars, loopVars, callVars, retries, rateLimit, crashed>>

\* The constructor of AsyncClient; SetTokenBucket was called, or was not.
AsyncClient == Pool!Init /\ retries \in Retries
SetTokenBucket == rateLimit \in BOOLEAN

Init == /\ AsyncClient /\ SetTokenBucket
        /\ consuming = FALSE /\ loop = "unborn" /\ offset = 0
        /\ reqmsg = Empty /\ alive = FALSE
        /\ call = [w \in Pool!Workers |-> "none"]
        /\ read = [w \in Pool!Workers |-> Empty]
        /\ crashed = FALSE /\ finished = <<>>

-----------------------------------------------------------------------------
(* KafkaConsumer::Start and Stop.                                          *)

\* Start sets IsRunning, starts the pool, and then creates the thread of
\* ConsumeLoop.  Stop comes after it, from the same thread.
Start == /\ Pool!Start
         /\ consuming' = TRUE
         /\ UNCHANGED <<loop, offset, reqmsg, alive, callVars, crashed>>

StartPool == /\ Pool!Starting
             /\ UNCHANGED <<loopVars, callVars, crashed>>

StartLoop == /\ main = "up" /\ loop = "unborn" /\ loop' = "check"
             /\ UNCHANGED <<poolVars, consuming, offset, reqmsg, alive, callVars,
                            crashed>>

StopConsuming == /\ loop # "unborn" /\ consuming
                 /\ consuming' = FALSE
                 /\ UNCHANGED <<poolVars, loop, offset, reqmsg, alive, callVars,
                                crashed>>

StopUnjoined == /\ ~consuming /\ Pool!Stop                        \* a mutant
                /\ UNCHANGED <<loopVars, callVars, crashed>>
StopPool == /\ ~consuming /\ loop = "exited" /\ Pool!Stop
            /\ UNCHANGED <<loopVars, callVars, crashed>>

Stopping == /\ Pool!Stopping
            /\ UNCHANGED <<loopVars, callVars, crashed>>

-----------------------------------------------------------------------------
(* ConsumeLoop.                                                            *)

LoopCheck == /\ loop = "check"
             /\ loop' = IF consuming THEN "consume" ELSE "exited"
             /\ UNCHANGED <<poolVars, consuming, offset, reqmsg, alive, callVars,
                            crashed>>

\* queue.consume() returns a message, the end of the partition, or, after its
\* timeout, a null message, on which is_eof() dereferences null.
Consume == /\ loop = "consume"
           /\ \/ /\ offset < NMessages
                 /\ offset' = offset + 1 /\ reqmsg' = Empty /\ alive' = TRUE
                 /\ loop' = "url" /\ UNCHANGED crashed
              \/ loop' = "exited" /\ UNCHANGED <<offset, reqmsg, alive, crashed>>
              \/ crashed' = TRUE /\ UNCHANGED <<offset, reqmsg, alive, loop>>
           /\ UNCHANGED <<poolVars, consuming, callVars>>

\* FromJSON assigns the fields one after another, or throws, which nobody catches.
AfterParse == [url |-> "data", data |-> "headers", headers |-> "call"]

ParsePrevious(f) == /\ loop = f /\ loop' = AfterParse[f]          \* a mutant
                    /\ reqmsg' = [reqmsg EXCEPT ![f] = IF offset > 1
                                                      THEN offset - 1 ELSE None]
                    /\ UNCHANGED <<poolVars, consuming, offset, alive, callVars,
                                   crashed>>
Parse(f) == /\ loop = f
            /\ \/ /\ reqmsg' = [reqmsg EXCEPT ![f] = offset]
                  /\ loop' = AfterParse[f] /\ UNCHANGED crashed
               \/ crashed' = TRUE /\ UNCHANGED <<reqmsg, loop>>
            /\ UNCHANGED <<poolVars, consuming, offset, alive, callVars>>

AsyncCall == /\ loop = "call" /\ loop' = "put"
             /\ Pool!PutTask(offset)
             /\ UNCHANGED <<consuming, offset, reqmsg, alive, callVars, crashed>>

\* When put returns, the iteration ends, and with it the life of reqmsg.
Submit == /\ loop = "put"
          /\ Pool!Submit
          /\ IF putting' = None THEN loop' = "check" /\ alive' = FALSE
                                ELSE UNCHANGED <<loop, alive>>
          /\ UNCHANGED <<consuming, offset, reqmsg, callVars, crashed>>

-----------------------------------------------------------------------------
(* A worker, in the task AsyncCall made.  No circuit breaker is ever set.  *)

Worker(w) == /\ Pool!Check(w) \/ Pool!Take(w)
             /\ call' = [call EXCEPT ![w] = IF pc'[w] = "run" THEN "begin" ELSE @]
             /\ UNCHANGED <<loopVars, read, crashed, finished>>

Return(w) == /\ Pool!Run(w)
             /\ call' = [call EXCEPT ![w] = "none"]
             /\ read' = [read EXCEPT ![w] = Empty]

\* The assertion on rateLimit; then for (int i = 0; retries + 1; i++), which has
\* no bound, and no iteration at all when retries is -1.
BeginCall(w) ==
    /\ call[w] = "begin"
    /\ \/ ~rateLimit /\ crashed' = TRUE /\ UNCHANGED <<poolVars, callVars>>
       \/ /\ rateLimit /\ retries + 1 # 0
          /\ call' = [call EXCEPT ![w] = "url"]
          /\ UNCHANGED <<poolVars, read, finished, crashed>>
       \/ rateLimit /\ retries + 1 = 0 /\ Return(w) /\ UNCHANGED <<finished, crashed>>
    /\ UNCHANGED loopVars

\* An iteration makes the client of the URL, then adds the headers, then the length
\* of the data; the data itself is never sent.  No client can be made of an empty
\* URL.  Reading reqmsg when it is not in scope, or a field that ConsumeLoop is
\* assigning, is undefined: the read crashes, or finds what the field holds.
AfterRead == [url |-> "headers", headers |-> "data", data |-> "request"]

Read(w, f) ==
    /\ call[w] = f
    /\ \/ /\ f = "url" => reqmsg[f] # None
          /\ read' = [read EXCEPT ![w][f] = reqmsg[f]]
          /\ call' = [call EXCEPT ![w] = AfterRead[f]] /\ UNCHANGED crashed
       \/ /\ (f = "url" /\ reqmsg[f] = None) \/ ~alive \/ loop = f
          /\ crashed' = TRUE /\ UNCHANGED <<read, call>>
    /\ UNCHANGED <<poolVars, loopVars, finished>>

\* External: the server answers 200.
KeepCalling(w) == /\ call[w] = "request"                          \* a mutant
                  /\ call' = [call EXCEPT ![w] = "url"]
                  /\ read' = [read EXCEPT ![w] = Empty]
                  /\ finished' = Append(finished, todo[w])
                  /\ UNCHANGED <<poolVars, loopVars, crashed>>
Answered(w) == /\ call[w] = "request" /\ Return(w)
               /\ finished' = Append(finished, todo[w])
               /\ UNCHANGED <<loopVars, crashed>>

\* External: the server answers something else, and the loop goes on with another
\* client and request; or get() throws, and nobody catches.
Failed(w) ==
    /\ call[w] = "request"
    /\ \/ /\ call' = [call EXCEPT ![w] = "url"]
          /\ read' = [read EXCEPT ![w] = Empty] /\ UNCHANGED crashed
       \/ crashed' = TRUE /\ UNCHANGED <<call, read>>
    /\ UNCHANGED <<poolVars, loopVars, finished>>

-----------------------------------------------------------------------------
ConsumeLoop == LoopCheck \/ (\E f \in Fields : Parse(f)) \/ AsyncCall \/ Submit
Calling(w) == Worker(w) \/ BeginCall(w) \/ \E f \in Fields : Read(w, f)
MainThread == \/ Start \/ StartPool \/ StartLoop
              \/ StopConsuming \/ StopPool \/ Stopping

Step == \/ MainThread \/ Consume \/ ConsumeLoop
        \/ \E w \in Pool!Workers : Calling(w) \/ Answered(w) \/ Failed(w)
        \/ Pool!SpuriousWakeup /\ UNCHANGED <<threadVars, loopVars, callVars, crashed>>

Next == ~crashed /\ Step /\ UNCHANGED <<retries, rateLimit>>

Spec == Init /\ [][Next]_vars

\* Every thread runs on; a server that is asked again and again answers 200 at
\* last.  Messages need not come, and nobody has to stop.
Fair(A) == ~crashed /\ A /\ UNCHANGED <<retries, rateLimit>>
FairSpec == /\ Spec
            /\ WF_vars(Fair(ConsumeLoop))
            /\ WF_vars(Fair(StartPool \/ StartLoop \/ StopPool \/ Stopping))
            /\ \A w \in Pool!Workers : /\ WF_vars(Fair(Calling(w)))
                                       /\ SF_vars(Fair(Answered(w)))

-----------------------------------------------------------------------------
Running == {w \in Pool!Workers : pc[w] = "run"}

\* Every variable has its type; a worker is in a call exactly while it runs one.
TypeOK == /\ Pool!TypeOK
          /\ consuming \in BOOLEAN /\ alive \in BOOLEAN /\ crashed \in BOOLEAN
          /\ loop \in {"unborn", "check", "consume", "call", "put", "exited"} \cup Fields
          /\ putting # None <=> loop = "put"
          /\ offset \in 0..NMessages /\ reqmsg \in [Fields -> Messages \cup {None}]
          /\ retries \in Retries /\ rateLimit \in BOOLEAN
          /\ call \in [Pool!Workers -> {"none", "begin", "request"} \cup Fields]
          /\ Running = {w \in Pool!Workers : call[w] # "none"}
          /\ read \in [Pool!Workers -> [Fields -> Messages \cup {None}]]
          /\ finished \in Seq(Messages)

\* async_client.hpp:104, assert(workers->IsStarted()): ConsumeLoop never calls
\* AsyncCall on a pool that is not running, whatever moment Stop comes at.
AsyncCallAsserts == loop = "call" => Pool!IsStarted

\* The reference a task captured reads forward: a request has the URL of the
\* task's own message or of a later one, the headers of that message or of a later
\* one still, or none, and so on with the length of the data; none is of a message
\* before its own.
OwnOrLater ==
    \A w \in Running : call[w] = "request" =>
        /\ todo[w] <= read[w]["url"]
        /\ \A f \in {"headers", "data"} :
               read[w][f] # None => read[w]["url"] <= read[w][f]
        /\ None \notin {read[w]["headers"], read[w]["data"]}
               => read[w]["headers"] <= read[w]["data"]

\* A task has at most one request answered 200: the retry loop ends there, and
\* no two workers have the task.
OneSuccessPerTask ==
    \A i, j \in DOMAIN finished : finished[i] = finished[j] => i = j

\* The queue holds ConsumeLoop back: if calls are made at all, it is ahead of the
\* tasks that have finished by what the queue, the workers and one iteration of the
\* loop can hold.  This bounds the tasks, not the messages that no request was made
\* for: a task that reads a later message finishes, and its own is never called.
FewTasksUnderWay ==
    retries + 1 # 0 =>
        offset - Len(finished) <= Capacity + maxThreads
            + (IF loop \in Fields \cup {"call", "put", "exited"} THEN 1 ELSE 0)

\* Until a Stop, every message given to AsyncCall is taken up by a worker.
EveryMessageCalled ==
    \A m \in Messages : putting = m
        ~> ((\E i \in DOMAIN taken : taken[i] = m) \/ ~consuming \/ crashed)
=============================================================================

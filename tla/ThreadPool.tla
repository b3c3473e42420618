----------------------------- MODULE ThreadPool -----------------------------
(***************************************************************************)
(* The class ThreadPool of base/ThreadPool.hpp: maxThreads workers on a    *)
(* BoundedBlockingQueue of tasks, used as KafkaConsumer uses it through    *)
(* AsyncClient.  One thread ("submitter", ConsumeLoop) calls PutTask; the  *)
(* main thread calls Start, joins the submitter, and calls Stop.  The      *)
(* destructor finds IsRunning false after that, and does nothing.          *)
(***************************************************************************)
EXTENDS BoundedBlockingQueue

CONSTANTS maxThreads, \* the number of workers
          Tasks,      \* the tasks to submit, each at most once
          Endless,    \* the tasks that never return
          Exit,       \* the empty Task() that Stop puts
          None        \* no call of PutTask in progress

Workers == 1..maxThreads

ASSUME PoolAssumption == /\ maxThreads \in Nat
                         /\ Endless \subseteq Tasks
                         /\ Exit \notin Tasks
                         /\ None \notin Tasks \cup {Exit}

VARIABLES IsRunning,
          pc,         \* where each worker is in RunInLoop
          todo,       \* the element each worker last took, or None
          main,       \* where the main thread is
          joining,    \* the index of the thread Stop puts Exit for and joins
          putting,    \* the argument of the call of PutTask, or None
          accepted,   \* history: every element put on the queue, in order
          taken,      \* history: every element taken from it, in order
          late        \* history: how much each worker took after Stop began

poolVars == <<IsRunning, pc, todo, main, joining, putting, accepted, taken, late>>
vars == <<queueVars, poolVars>>

IsStarted == IsRunning

Init == /\ QueueInit
        /\ IsRunning = FALSE
        /\ pc = [w \in Workers |-> "unborn"]
        /\ todo = [w \in Workers |-> None]
        /\ main = "new" /\ joining = 0
        /\ putting = None
        /\ accepted = <<>> /\ taken = <<>>
        /\ late = [w \in Workers |-> 0]

-----------------------------------------------------------------------------
(* The main thread.                                                        *)

\* Start sets IsRunning and then creates the threads one by one; each runs at once.
Start == /\ main = "new"
         /\ IsRunning' = TRUE
         /\ main' = "starting"
         /\ UNCHANGED <<queueVars, pc, todo, joining, putting, accepted, taken, late>>

Spawn(w) == /\ main = "starting"
            /\ pc[w] = "unborn" /\ \A v \in 1..(w - 1) : pc[v] # "unborn"
            /\ pc' = [pc EXCEPT ![w] = "loop"]
            /\ UNCHANGED <<queueVars, IsRunning, todo, main, joining, putting,
                           accepted, taken, late>>

StartReturn == /\ main = "starting" /\ \A w \in Workers : pc[w] # "unborn"
               /\ main' = "up"
               /\ UNCHANGED <<queueVars, IsRunning, pc, todo, joining, putting,
                              accepted, taken, late>>

\* KafkaConsumer::Stop has joined ConsumeLoop: no PutTask is in progress.
Stop == /\ main = "up"
        /\ putting = None
        /\ IsRunning' = FALSE
        /\ main' = "stopping" /\ joining' = 1
        /\ UNCHANGED <<queueVars, pc, todo, putting, accepted, taken, late>>

\* queue_.put(Task()): one Exit for the thread about to be joined.
StopPut == /\ main = "stopping" /\ joining \in Workers
           /\ "main" \notin notFull
           /\ \/ /\ PutDone(Exit)
                 /\ accepted' = Append(accepted, Exit)
                 /\ main' = "joining"
              \/ PutWait("main") /\ UNCHANGED <<accepted, main>>
           /\ UNCHANGED <<IsRunning, pc, todo, joining, putting, taken, late>>

JoinFirstGone == /\ main = "joining"                              \* a mutant
                 /\ \E w \in Workers : pc[w] = "exited"
                 /\ main' = "stopping" /\ joining' = joining + 1
                 /\ UNCHANGED <<queueVars, IsRunning, pc, todo, putting,
                                accepted, taken, late>>
StopJoin == /\ main = "joining"
            /\ pc[joining] = "exited"
            /\ main' = "stopping" /\ joining' = joining + 1
            /\ UNCHANGED <<queueVars, IsRunning, pc, todo, putting,
                           accepted, taken, late>>

StopReturn == /\ main = "stopping" /\ joining \notin Workers
              /\ main' = "stopped"
              /\ UNCHANGED <<queueVars, IsRunning, pc, todo, joining, putting,
                             accepted, taken, late>>

-----------------------------------------------------------------------------
(* The submitter.                                                          *)

PutTask(task) == /\ main = "up" /\ putting = None
                 /\ task \notin {accepted[i] : i \in DOMAIN accepted}
                 /\ putting' = task
                 /\ UNCHANGED <<queueVars, IsRunning, pc, todo, main, joining,
                                accepted, taken, late>>

Submit == /\ putting # None
          /\ "submitter" \notin notFull
          /\ \/ /\ PutDone(putting)
                /\ accepted' = Append(accepted, putting)
                /\ putting' = None
             \/ PutWait("submitter") /\ UNCHANGED <<accepted, putting>>
          /\ UNCHANGED <<IsRunning, pc, todo, main, joining, taken, late>>

-----------------------------------------------------------------------------
(* A worker, in RunInLoop.                                                 *)

CheckNothing(w) == /\ pc[w] = "loop"                              \* a mutant
                   /\ pc' = [pc EXCEPT ![w] = "take"]
                   /\ UNCHANGED <<queueVars, IsRunning, todo, main, joining,
                                  putting, accepted, taken, late>>
Check(w) == /\ pc[w] = "loop"
            /\ pc' = [pc EXCEPT ![w] = IF IsRunning THEN "take" ELSE "exited"]
            /\ UNCHANGED <<queueVars, IsRunning, todo, main, joining, putting,
                           accepted, taken, late>>

\* queue_.take(): an empty Task is not run.
Take(w) == /\ pc[w] = "take"
           /\ w \notin notEmpty
           /\ \/ /\ TakeDone
                 /\ todo' = [todo EXCEPT ![w] = front]
                 /\ taken' = Append(taken, front)
                 /\ pc' = [pc EXCEPT ![w] =
                              IF front = Exit THEN "loop" ELSE "run"]
                 /\ late' = IF IsRunning THEN late ELSE [late EXCEPT ![w] = @ + 1]
              \/ TakeWait(w) /\ UNCHANGED <<pc, todo, taken, late>>
           /\ UNCHANGED <<IsRunning, main, joining, putting, accepted>>

\* todo() returns.
Run(w) == /\ pc[w] = "run"
          /\ todo[w] \notin Endless
          /\ pc' = [pc EXCEPT ![w] = "loop"]
          /\ UNCHANGED <<queueVars, IsRunning, todo, main, joining, putting,
                         accepted, taken, late>>

RunInLoop(w) == Check(w) \/ Take(w) \/ Run(w)

Starting == StartReturn \/ \E w \in Workers : Spawn(w)
Stopping == StopPut \/ StopJoin \/ StopReturn
MainThread == Start \/ Starting \/ Stop \/ Stopping

Next == \/ MainThread
        \/ Submit
        \/ \E task \in Tasks : PutTask(task)
        \/ \E w \in Workers : RunInLoop(w)
        \/ SpuriousWakeup /\ UNCHANGED poolVars

Spec == Init /\ [][Next]_vars

\* The scheduler runs every thread that is not asleep.  Nobody has to submit a
\* task or to stop the pool.
FairSpec == /\ Spec
            /\ WF_vars(Submit)
            /\ WF_vars(Starting)
            /\ WF_vars(Stopping)
            /\ \A w \in Workers : WF_vars(RunInLoop(w))

-----------------------------------------------------------------------------
TaskSet == {accepted[i] : i \in DOMAIN accepted} \ {Exit}
Running == {w \in Workers : pc[w] = "run"}

\* Every variable has its type; a thread is asleep only inside the queue.
TypeOK == /\ ringbuffer \in Seq(Tasks \cup {Exit}) /\ Len(ringbuffer) <= Capacity
          /\ notEmpty \subseteq {w \in Workers : pc[w] = "take"}
          /\ notFull \subseteq {"main", "submitter"}
          /\ IsRunning \in BOOLEAN
          /\ pc \in [Workers -> {"unborn", "loop", "take", "run", "exited"}]
          /\ todo \in [Workers -> Tasks \cup {Exit, None}]
          /\ main \in {"new", "starting", "up", "stopping", "joining", "stopped"}
          /\ joining \in 0..(maxThreads + 1)
          /\ putting \in Tasks \cup {None}
          /\ accepted \in Seq(Tasks \cup {Exit}) /\ taken \in Seq(Tasks \cup {Exit})
          /\ late \in [Workers -> Nat]

\* A task is in one place: on the queue, with one worker, or done.  No two
\* workers run the same task, and a running task is not queued again.
TaskInOnePlace ==
    /\ accepted = taken \o ringbuffer
    /\ \A v, w \in Running : v # w => todo[v] # todo[w]
    /\ \A w \in Running, i \in DOMAIN ringbuffer : ringbuffer[i] # todo[w]

\* A Stop cuts off: a worker that was past its IsRunning check takes one more
\* element, and none takes two.  What the queue holds beyond that is dropped.
OneMoreAtMost == \A w \in Workers : late[w] <= 1

\* When Stop has returned every worker has exited: no task is left running.
QuietAfterStop == main = "stopped" => \A w \in Workers : pc[w] = "exited"

\* Until a Stop, every accepted task is taken by a worker, unless a worker has a
\* task that never returns: put notified one worker for two elements, and the
\* second one sleeps on.
TasksStart ==
    \A task \in Tasks : task \in TaskSet
        ~> \/ task \in {taken[i] : i \in DOMAIN taken} \/ ~IsRunning
           \/ \E w \in Running : todo[w] \in Endless

\* A Stop returns.
StopReturns == main = "stopping" ~> main = "stopped"
=============================================================================

# bigpipe-cpp in TLA+

bigpipe accepts HTTP requests, answers at once, puts them on Kafka, and a
consumer later makes the call each of them asks for.  This directory holds
TLA+ models of that program, the TLC configurations that check them on small
instances, and TLAPS proofs.  Paths below are relative to `src/`.

## 1. The system

```
 HTTP client -> Acceptor::RpcCallback -> taskchan -> KafkaProducer::Pushing -> Kafka
                                        (BoundedBlockingQueue)
 Kafka -> KafkaConsumer::ConsumeLoop -> AsyncClient -> ThreadPool::queue_ -> workers -> HTTP server
                                                       (BoundedBlockingQueue)
```

| Component | State | Operations | Model |
|---|---|---|---|
| `BoundedBlockingQueue` | ring buffer, one mutex, `notEmpty_`, `notFull_` | `put`, `take`, `empty`, `full` | `BoundedBlockingQueue`, `QueueClients`, `BoundedFifo` |
| `ThreadPool` | `IsRunning`, threads, a queue of tasks | `Start`, `Stop`, `PutTask`, `RunInLoop` | `ThreadPool` |
| `Acceptor` | server, `taskchan` | `Init`, `Start`, `Stop`, `RpcCallback` | `Ingress`; the request's data in `DataPath`; `Init` in `Startup` |
| `KafkaProducer` | `IsRunning`, client, one thread | `Init`, `Start`, `Stop`, `Pushing`, `CalcPartition` | `Ingress`; `CalcPartition` and the message in `DataPath`; `Init` in `Startup` |
| `main`, `SignalHandler` | a condition variable | the order of starts and stops, SIGINT | `Startup`, then `Ingress` |
| `KafkaConsumer` | `IsRunning`, one thread, the local `reqmsg` | `Init`, `Start`, `ConsumeLoop`, `Stop`, the rebalance callbacks | `Delivery`; assignment, commits and redelivery in `DataPath`; `Init` in `Startup` |
| `AsyncClient` | retries, token bucket, breaker, pool | `AsyncCall`, `Call`, `CallWithRetry` | `Delivery` |
| `CircuitBreaker`, `HealthStats` | status, break time, window of buckets | `IsBreak`, `OnSuccess`, `OnFail`, `IsHealthy` | `CircuitBreaker`, `HealthStats` |
| `TokenBucket` | token count, last fill time | `GetToken` | `TokenBucket` |
| `Config` | the settings | `ParseConfig` | `Startup`, by what it tests |
| wire types of `proto/` | the members of a request, a message, an acl, a response | parsing and formatting of JSON | `Wire`, used by `DataPath` |
| `BlockingQueue` | deque, one condition variable | `put`, `take` | `BlockingQueue` (no file includes it yet) |

How they interact.  `main` starts the consumer, the producer and the acceptor,
waits for SIGINT, and stops them in the order acceptor, producer, consumer.  The
handler and the `Pushing` thread share `taskchan`; `ConsumeLoop` and the
workers share the pool's queue; each `Stop` sends a thread home by putting an
empty element on the queue that thread takes from, and joins it.

What is hard here: a `put` that notifies only on the step from empty to one
element; `Stop` racing with threads that are between their `IsRunning` check and
`take`; an exit notification that looks like data; a check (`full`) and an act
(`put`) in two critical sections; a task that refers to a variable of another
thread; exceptions nobody catches, which end the process; messages acknowledged
or committed before they are worked on; parsing that fails half-way and goes on; a
hash narrowed to a negative int; clocks that are set back.

What makes each part correct:

- queue: FIFO, no lost wakeup, never over its size, never asleep for good while
  it could go on;
- pool: a task is in one place, starts, and is not running once `Stop` returned;
- ingress: Kafka is given what was accepted, in order; a request is put once and
  answered 0, or put nowhere and answered -1; what was acknowledged is sent; a `Stop`
  that does not return hangs in a known way (there are two);
- delivery: what a call reads is of its own message or of a later one; a task succeeds
  at most once; the consumer is a bounded number of tasks ahead of the calls;
- data: what reaches Kafka has every field that is not optional and was not refused, what
  reaches `AsyncCall` is what a client asked for, requests of one key keep their order, and a crash or a
  new assignment of the consumer forgets at most the message in hand;
- breaker: an open circuit lets nothing through for its period, does not close
  early, and does close when the server stays healthy and there are messages to
  call; its verdict is that of the
  calls of the last seconds;
- rate limit: no more tokens than the bucket held and was filled with;
- start: a config that was accepted ends in a program that serves.

`PROJECT.json` lists under "hazards" the lines where these can go wrong, with
the properties that watch them.

## 2. The modules

**BoundedBlockingQueue.tla** has the operations of the class and no
specification.  A critical section is one step.  A condition variable is the set
of the threads asleep in it: `NotifyOne` takes one out, whichever the library
likes; a thread that left the set tests its predicate again when it next runs, as
`wait(lock, pred)` does, so a newcomer can overtake it.  `PutDone` and `TakeDone`
are calls that find their predicate true, `PutWait` and `TakeWait` calls that go
to sleep, `SpuriousWakeup` is what the standard permits.

**QueueClients.tla** is the queue with any threads around it: a call and its
effect are two steps, since others run in between.  **BoundedFifo.tla** is the
promise: puts and takes that take effect at one instant, and happen whenever they
can.  `Fifo == INSTANCE BoundedFifo WITH items <- ringbuffer` in `QueueClients`
is the refinement; the condition variables have no counterpart.

**ThreadPool.tla** extends the queue with the workers (`Check`, `Take`, `Run`: the
three places of `RunInLoop` between which others run), the submitter
(`PutTask`, `Submit`) and the main thread (`Start`, which sets `IsRunning`, `Spawn` for
one thread after another, each of which runs at once, `StartReturn`; `Stop`, `StopPut`,
`StopJoin` for one thread after another, `StopReturn`).  `Stop` waits until no `PutTask` is
in progress, because `KafkaConsumer::Stop` joins `ConsumeLoop` first.

**Ingress.tla** extends the queue with the server thread (`Receive`, `CheckFull`,
`HandlerPut`, `Answer`: `RpcCallback`), the `Pushing` thread (`PushCheck`,
`PushTake`, `Produce`) and main (`SpawnPushing`, `SetRunning`, ...,
`StopReturn`).  A request is abstracted to what the code does with it: parsing
throws (`Malformed`), it parses and has no topic (`NoTopic`), `CalcPartition` finds no
partition for it (`Unroutable`).  Which bodies these are is the subject of `DataPath`.
`crashed` is `std::terminate`: `produce()` that throws, a division by zero partitions.
`produced` is also the library's out queue, on which the loop at the end of
`KafkaProducer::Stop` waits (producer.hpp:101): nothing ever takes a message off it.

**Wire.tla** has the types of `proto/` as pure operators.  An object is a record of
its members; a JSON text is a function from its keys to their values.  `FromJSON`
assigns members in the order of the code up to the first that throws, and returns
the object as it leaves it: partial results are visible to the callers, as they are
in the code.  `RequestBody` and `RequestMessage` open their argument as a file; the
operators take the content of that file, and the actions that call them choose it, with
`NotJson` for a file that is not there.  The `ToJSON` of `RequestBody` has no
caller, that of `AccessControlList` no other; both are left out.

**DataPath.tla** follows the data through `Receive` (`RpcCallback`), `Push` (an
iteration of `Pushing`, with `CalcPartition`) and `ConsumeLoop` (an iteration of
that), over `Wire`.  These are one step each here, because the threads share only
`taskchan` and Kafka, both FIFO; their interleavings are the subject of `Ingress`
and `Delivery`.  Kafka is a log per partition with the position of the consumer and
the position last committed; `Assign`, `Unassign` and `Commit` are the callbacks and
the settings of `KafkaConsumer::Init`.  A commit can also fall between the hand-over of
a message and the crash it causes, within `ConsumeLoop`.  `Crash` ends the process, `Restart` starts
it again with an empty `taskchan`.  `Partitions` is what the config says, which can be
negative (config.hpp:63 takes any number), and `KafkaTopics` what Kafka has; a topic can be
in one and not in the other.  `hash` is any function from keys to `Hashes`, fixed
in `Init`; `ToInt` narrows it to `IntWidth` bits, `Rem` is `%` with the sign of C++, and
`Random` the remainder of an unsigned number, which makes the partitions unsigned too.

**Delivery.tla** instantiates `ThreadPool` (`Pool`) and conjoins its actions with
those of main (`Start`, `StartPool`, `StartLoop`, `StopConsuming`, `StopPool`,
`Stopping`), of `ConsumeLoop` (`LoopCheck`, `Consume`, `Parse(f)` for one field after
another, `AsyncCall`, `Submit`) and of the call a worker makes (`BeginCall`,
`Read(w, f)` for one field after another, then `Answered` or `Failed`).  `AsyncCall`
captures its argument, a local variable of the loop, by reference.  So `reqmsg` and
`alive` model that variable, not the task: `Consume` constructs it empty, `Parse` assigns
url, data and headers in the order of `FromJSON`, the end of `Submit` ends its life, and a
worker reads url, headers and the length of the data in the order of `CallWithRetry`,
and sees what is there at each of the three moments.  So a request can be of up to three
messages.  A read out of scope, or of a field the loop is assigning, is undefined
behaviour: it finds what the field holds, or terminates the process.  An empty URL makes
the client's constructor throw.  `finished` keeps the *tasks* whose call ended with a 200;
which messages those calls read is in `read`, and a message can be skipped.

**CircuitBreaker.tla** is the class of that name and the workers that wait for it
in `AsyncClient::Call`; each case of the switch in `IsBreak` is an action.  The
code uses `now` and `breakTime` only in their difference, so the model keeps
`since`, that difference by the wall clock, and, as a history, `age`, the time
that has really passed.  `SetBack` makes the first smaller and leaves the second
alone.  The verdict of `HealthStats` is an input (`Judge`).  A worker is without a task
(`"idle"`), waits at the gate or is past it; `NextTask` is the `take` that gives it a task.
`Notify` records an outcome; the call then goes on to its next attempt without asking
`IsBreak` again, as the loop of `CallWithRetry` does, or ends, and the worker is back in
`take`: it asks again only with another task.

**HealthStats.tla** is the window behind that verdict, over a clock that can be set
back: `UpdateBuckets` (the clean-up), `Verdict`, `IsHealthy`, `OnSuccess`, `OnFail`.
`calls` is the history the verdict is compared with.

**TokenBucket.tla** is `GetToken`, with the mutex held through its sleep (`holder`),
in whole microseconds and exact fractions of a token.

**BlockingQueue.tla** is the unbounded queue with any threads around it.  It
notifies at every `put`, and implements the same `BoundedFifo`, with a capacity
that is never reached, for several takers: what `BoundedBlockingQueue` does for
one only.

**Startup.tla** is `main` from the config to the return of `Acceptor::Start`.  A
file holds a config with values on both sides of every limit `ParseConfig` tests
(`Files`, `Config`); `Accepts` is the tests.  A component is the set of its members
that are not null.

History variables (those commented "history") record what the code does not; no guard of
a modelled thread reads them, except to receive each request, or submit each task, once.

### What the models assume

- `Ingress` starts where the bodies of the `Init` functions would leave the
  program.  Today's build does not get there, which is what the run `Startup`
  shows; `Ingress` and `Delivery` are about the code behind that guard.
- `served::net::server::run(1)` is taken to return with one thread serving.  If it
  blocks, `main` never waits for SIGINT and nothing below a `Stop` applies.
- A delivery report callback is set (producer.hpp:51) and nothing calls `poll()` or
  `flush()`, so librdkafka serves no report and keeps every message in its out queue:
  `get_out_queue_length()` is the number of messages produced.  `produce()` throws at
  `OutQueueLimit` messages.
- `Delivery` lets `SetTokenBucket` be called or not (`rateLimit`, chosen in
  `Init`).  `main` never calls it, and then the first call fails the assertion at
  async_client.hpp:97.  With a bucket, `GetToken(1)` is immediate for a rate of at
  least one: theorem `NeverSleepsCorrect`.
  No one calls `SetCircuitBreaker`, so no breaker is consulted there.
- `CircuitBreaker` is right or wrong for *any* `HealthStats`: its verdict may change
  at any time.  Today's `HealthStats` never has a bucket, so it always says
  healthy (theorem `NothingRecordedCorrect`), and its `buckets.back()` is undefined:
  `Record` ends the process or changes memory the breaker does not read.  The clock goes on by seconds and can
  be set back; it is not set forward, which would shorten a break in the code as
  it would in any code that reads `std::time`.
- `RequestMessage::FromJSON` and `RequestBody::ParseFromJSON` open their argument as a
  file name (reqmsg.hpp:47, reqbody.hpp:40), so most payloads throw.  In `DataPath` the
  file a request body names holds one of `Bodies`, `NotJson` among them; the file a
  payload names holds that payload, or the parser throws (`NotJson`); in `Delivery`,
  `Parse` may throw or not; in `Ingress`, `Malformed` covers it.
- Partition -1 leaves the choice to cppkafka.  Below that, `produce()` throws, or takes
  the message and reports it failed later, if it does not know the topic's
  partitions yet.  Kafka keeps the messages of a partition in the order of `produce()`:
  that retries do not reorder them is the library's affair (see "hazards").
- A crash also loses what librdkafka has in its out queue and has not sent; for
  `DataPath` that is a crash before the `Push`.
- The consumer's group has one member, which has all partitions of the topic or none.
  Assignment and revocation come at any time, auto-commit between any two
  iterations.
- `TokenBucket`: `double` is exact, and the clock counts whole microseconds.
- `CallWithRetry` never attaches the data to the request; only its length is
  read.  `Delivery` tracks the URL, the headers and that length.
- `AsyncClient::Start`, `Stop` and `KafkaProducer::Init` have no return statement;
  they are taken to return.
- A read or write of an `atomic<bool>` is one step.  The uninitialised
  `KafkaProducer::IsRunning` is either value in `Init`.

## 3. The runs

Constants of a cfg are as small as the case they are for allows.  No run has a
state constraint; the bounds are constants in guards: `MaxPuts`, the sets of
`Tasks` and `Requests` (each used once), `NMessages`, `MaxSignals`, `MaxAssigns`,
`MaxSetBacks`, `MaxTime`, `MaxCalls`, and `MaxAge`, at which a difference of times stays.  `MaxAge`
exceeds the sum of both periods by one, and nothing in the code tells larger
differences apart; the proofs about the breaker hold for every `MaxAge` from that
sum on.

| Run | Shows |
|---|---|
| `QueueSafety` | Capacity 2, 3 putters, 2 takers, 4 puts, symmetric: threads outnumber places, so all of sleeping, waking, overtaking and wrap-around of the ring occur. `FifoOrder`, `SomeTakerAwake`, `NoLostNotFull`, and refinement of `BoundedFifo!Safety`. |
| `QueueOneTaker` | One taker, as on `taskchan`: the queue implements `BoundedFifo!Spec`, liveness included. |
| `Pool` | 2 workers, capacity 2, 3 tasks of which one never returns: `TaskInOnePlace`, `OneMoreAtMost`, `QuietAfterStop`, `TasksStart`. Capacity + workers exceeds the tasks by one, so the submitter sleeps only when workers are slow, which they can be. `TasksStart` excepts the time a worker is in the endless task: two elements with one notification leave the second beside a sleeping worker. |
| `PoolStopTwo` (violation) | `Stop` hangs with two workers. |
| `Ingress` | Capacity 2, five requests (two good, a malformed, a topicless and an unroutable one; more than the queue holds), `produce()` that throws at its limit of 2: order (`ProducedInOrder`), `AnsweredByFate`, exclusion, the liveness of handler and `Pushing`, and `StopReturns`: `KafkaProducer::Stop` returns, or the process ended, or it hangs in one of two ways. Either the queue was full, `Pushing` had left on `IsRunning`, and `put` of the exit notification sleeps; or something was produced, and the loop at producer.hpp:101 waits for an out queue that never empties. So a `Stop` of a producer that has sent anything never returns. `AnsweredByFate` is about malformed requests too: the `catch` block answers them -1 and goes on, and they get a second answer like any other. |
| `Delivery` | Capacity 1, 2 workers, 4 messages: `Capacity + workers + 1` messages consumed before the first call ends, the limit of `FewTasksUnderWay`, is reached. `retries` is 1 or -1, with which no call is made at all. `OwnOrLater`, `OneSuccessPerTask`, `AsyncCallAsserts`, `EveryMessageCalled`. |
| `CircuitBreaker` | 2 workers, both periods 2, the clock set back twice: `BreakHolds`, `NormalLate`, `Recovers`, which assumes that workers go on coming to the gate: only `IsBreak` moves the status on, so without messages the circuit stays as it is. Two set-backs let a circuit be set back while it recovers and again while it is open. |
| `DataPath` | 2 requests, one key, a topic configured as Kafka has it with 3 partitions, one configured with a negative number, one not configured, bodies with any one key missing at either level, 2 assignments. The hashes 2, 6, 7, 13 narrow to the 3-bit ints 2, -2, -1, -3: a positive one, one that `%` leaves negative, -1 itself, and a negative one with remainder 0. Two requests are what `KeyOrder` and redelivery need; two assignments give one redelivery. `RefusedNeverSent`, `OnlyCompleteSent`, `HandedAsAsked`, `KeyOrder`, `OneForgottenPerCrash`. |
| `TokenBucket` (violation) | Three tokens at one instant from a bucket of two: `max` where `min` is meant. |
| `HealthStats` (violation) | After calls that all failed, `IsHealthy` says healthy: nothing ever pushes a bucket. |
| `BlockingQueue` | 2 putters, 2 takers, 3 puts: more elements than takers. `NoLostElement`, and `BoundedFifo!Spec` for two takers. |
| `Startup` (violation) | Every config of the abstraction; no accepted one leads to `serving`. |

`CHECK_DEADLOCK FALSE` in all but the queues' runs: the program ends, by `Stop`
or by a crash, and with two workers it hangs, which `PoolStopTwo` shows as such.

Fairness.  Every thread that is awake takes its next step in the end (weak
fairness per thread, or per thread and place of its code): the scheduler of the
operating system.  There is none for requests, messages, submissions, SIGINT
and spurious wakeups.  In `Delivery` the loop, the start and the stop of the pool and each
worker's calls run on (weak fairness), and a server that is asked again
and again answers 200 at last (strong fairness of `Answered`); without that no call
need end, since the condition of the retry loop, `retries + 1`
(async_client.hpp:58), is always true, and `EveryMessageCalled` fails: a worker in an
endless task is what `TasksStart` excepts.
In `CircuitBreaker` time passes and a worker at the gate asks again (it sleeps a second
and calls `IsBreak`).  There is no fairness for tasks to come, for calls to end, or for
the verdict to change; `Recovers` says what it needs of the first and the last.
The violation runs `TokenBucket` and `HealthStats` check
invariants and need no fairness; `PoolStopTwo` and `Startup` have that of the
scheduler.

Liveness properties that mention `crashed` or `~consuming` hold *or else the process
is gone, or was told to stop*; the crash is an action of the model in the same
run, so that disjunct is not empty, and there are behaviours without it.

What the passing runs say of the code that is not obvious: notifying only on the
first element is enough to keep a taker up, and enough for liveness with one
taker; `HandlerSleepsOnlyAtStop`, that is, the "Todo: double check, may
block" at acceptor.cpp:50 can block only at a `Stop`, since the one server thread
is the only other putter; `AsyncCallAsserts` depends on `KafkaConsumer::Stop`
joining before it stops the pool; a stale reference reads forward only, so a message
is skipped, or mixed with a later one, never with an earlier one; a malformed
request never reaches Kafka although the `catch` block falls through, only because
the acl, and with it the topic, is parsed last; a negative hash keeps its key
together only when its remainder is 0, since below -1 `produce()` fails and -1
scatters the key; auto-commit forgets one message per crash and no more, apart from
what `auto.offset.reset` skips before the first commit.

## 4. The proofs

**QueueClientsProofs.tla**, for every capacity (0 included), every finite set of
putters, and every non-empty set of takers, which may be infinite:

- `TypeCorrect`: `Spec => []TypeOK`.  Inductive by itself (`TypeStep`); it holds
  the facts the rest needs, that a sleeping thread is inside its own call and the
  ring is within its capacity.
- `FifoCorrect`: `FifoOrder`, inductive relative to `TypeOK`; the one algebraic
  fact is that a sequence is its head followed by its tail.
- `TakerAwake`: `SomeTakerAwake`, inductive relative to `TypeOK`.  A ring that
  becomes non-empty notifies; a taker goes to sleep on an empty ring only.
- `NotFullCorrect`: `NoLostNotFull`.  The obvious statement, that not all putters
  are asleep when there is room, is not inductive: a notified putter can be
  overtaken, and another `take` can follow before it runs.  The invariant counts
  instead: as many awake putters inside `put` as there are free places, while
  one sleeps.  A push uses one of each, a `take` adds one of each, and sleeping
  needs a full ring.
- `ImplementsFifo`: the safety part of the refinement, step by step.

**CircuitBreakerProofs.tla**, for all periods (zero and negative ones too, which
`ParseConfig` does not reject), any workers and any number of set-backs:
`TypeCorrect`, `BreakHoldsCorrect`, `NormalLateCorrect`.  The invariant `IInv` adds
`Rested` to `TypeOK`: a circuit that lets calls through last opened `breakPeriod`
ago or earlier.  `TypeOK` alone is not enough for `BreakHolds`, because in RECOVER
and NORMAL the code no longer tests `breakPeriod`.  What a set clock can do is
in `TypeOK`: `since <= age` outside NORMAL, so a wait only gets longer.

**BlockingQueueProofs.tla**, for any putters and any finite set of takers:
`TypeCorrect`, and `NoLostElementCorrect` by the count of `NotFullCorrect`: a `put`
adds an element and an awake taker, a `take` removes one of each, and a taker
goes to sleep on an empty queue only.  `ImplementsFifo`: the safety of `BoundedFifo`.
The abstract queue has a capacity, and its `Put` a guard the code has not; `HasRoom`
shows that the guard always holds, by counting the calls of `put` in progress with
what was accepted.

**ThreadPoolProofs.tla**, for any number of workers, any capacity and any tasks, those
that never return included: `TypeCorrect`, `OneMoreAtMostCorrect`,
`QuietAfterStopCorrect`, `TaskInOnePlaceCorrect`.  The invariant
has three parts.
`Control` relates the workers to the main thread: the pool runs exactly while main is
`"starting"` or `"up"`; no worker has exited then, and none is unborn behind `Start`; a
worker about to take has taken nothing late
(which `OneMoreAtMost` by itself does not say, and a second take would break
it); the workers before `joining` have exited.  `Data` has the types of the queue,
the tasks and the histories; it needs `Control` where `Spawn` and a worker move a thread,
which may not be asleep.  `Place` is for `TaskInOnePlace`: `accepted` is `taken`
followed by the queue; a task is put once, so no two places of `accepted` have it; and
what a worker runs was taken, which makes it another element than the next one
(`FreshFront`).  These theorems are about safety: they hold of
a `Stop` that hangs, too.

`ImplementsQueue`: with a finite set of tasks, `Spec` implies the specification of
`QueueClients`, in which the submitter is in `put` while it has a task in `putting`, main
while it is `"stopping"`, and a worker in `take` while its `pc` is `"take"` (`Putting`,
`Taking`).  The calls of `put` that `QueueClients` bounds by `MaxPuts` are here the tasks
and an exit notification for each worker; `Counted` shows that the bound is never in the way.
`WorkerAwake` and `PutterAwake` are what the theorems about the queue say of the pool, for
any positive number of workers (a pool without any has nobody to keep awake; the config's
`concurrency` is not tested).  `PutterAwake` says more than `NoLostNotFull`, which allows a
sleeper while some notified putter is on its way: by `OnePutter`, main and the submitter are
never both inside `put`, so whoever sleeps there sleeps on a full queue.

**IngressProofs.tla**, for every capacity, any requests and any limits of the library:
`TypeCorrect`, `NothingProducedAfterJoinCorrect`, `HandlerSleepsOnlyAtStopCorrect`,
`AnsweredByFateCorrect`, `ProducedInOrderCorrect`.  `Types` adds to `TypeOK` who may sleep where, and
`Phases`: how far the handler and `Pushing` can be, given where main is.
`HandlerSleepsOnlyAtStop` is not inductive; `RoomAhead` is: while the handler is at its
`put` and no exit notification is queued, the queue has room and the handler is
awake, because the only other putter is `Stop`.  `AnsweredByFate` is a property of
steps; it needs the state before each of them, `Fates`: a request, malformed or not, waits for
its `put`, was put and waits for its answer, was refused, or was accepted.  `PutOnce` turns "was
put" into "was put once" (`PutsCounted`).  `ProducedInOrder` is inductive.
What `SelectSeq` returns for every sequence would be an induction over data, so the
property says instead that an increasing function leads from the places of `produced` onto
those of `taken` that have a topic (`PicksTopical`); `PickNext` and `PassOver` extend that
function by a step of `Pushing` that sends, or skips, the front of the queue.
`ImplementsQueue`: with a finite set of requests, `Spec` implies the specification of
`QueueClients`, in which the server thread is in `put` while `http = "put"`, main while it is
`"notifying"`, and `Pushing` in `take` while it is at `"take"` (`Putting`, `Taking`).  So what
QueueClientsProofs proves holds of taskchan; `PushingAwake` is one such fact, that `Pushing`
does not sleep beside a message.  `QueueClients` bounds the calls of `put` by `MaxPuts`, here
the number of messages there are; `PutOnce`, that no message is put twice, shows that the
bound is never in the way (`FewAccepted`).

The last section is the safety half of `AckedIsProduced`, whose other half is liveness and
stays with TLC: a request that was acknowledged and has a topic is on taskchan, in the hand of
`Pushing`, or with the library (`AckedIsOnItsWayCorrect`), and there once (`ProducedOnce`).  The
answer is sent behind the `put` (`AckedPut`), what was put was taken or is queued
(`TakenOrQueued`), and what was taken was sent or is at hand (`ProducedInOrder`).  So one run of
the program acknowledges at most `OutQueueLimit + Capacity + 1` requests that have a topic
(`FewAcknowledged`): the library's out queue, which nothing empties, taskchan, and the hand of
`Pushing`.  All of these, but for what the library has delivered by then, are what a crash takes.
Acknowledged requests without a topic are dropped in any case and not among them.

**DeliveryProofs.tla**, for any number of messages and workers, any capacity and any
retries: all five invariants of `Delivery`.  Every step of `Delivery` is a step of the
pool or leaves it alone (`PoolStep`), so `Spec` implies the specification of
`ThreadPool` (theorem `ImplementsPool`) and the invariant of `ThreadPoolProofs` holds of the pool in
it, `Place` included; `SamePool` matches the two instances.  On top of that:

- `AsyncCallAssertsCorrect`: `LoopInside`, the loop begins when the pool is up and has
  exited when the pool stops, because `Stop` joins it first.
- `TypeCorrect`: `CallsWhileRunning` ties the place of a call to that of its worker.
- `OneSuccessPerTaskCorrect`: `Done`, what has finished was taken and is with no
  worker; with `FreshFront` no worker gets it again.
- `OwnOrLaterCorrect`: `Forward`.  Each field of the loop's variable is empty or of the last
  message consumed, and every task of one that was consumed before; offsets only grow, so what
  is read later is later.  `Reads` says how far that is for each place of a call.
- `FewTasksUnderWayCorrect`: until `Stop` the tasks are counted (`Counted`): consumed is
  accepted and at hand, taken is finished and running.  `Stop` ends that count, since
  exit notifications are on the queue too; then nothing is consumed any more, and
  the bound itself is kept (`StoppedFew`).  It bounds how far the consumer runs ahead, not how
  many messages are never called: a task that reads a later message finishes all the same.
- `LoopAwake`: `ImplementsPool`, and the pool's `PutterAwake` and `WorkerAwake`.  The loop
  sleeps in `AsyncCall` only on a full queue; a full queue of a positive capacity holds a
  message, and then a worker is up.  So the loop and all workers never sleep together.

**TokenBucketProofs.tla**: `NeverSleepsCorrect`, for any callers, times and bounds, at a
rate of at least the tokens a call asks for; `FullAtLeast` says why: a refilled bucket
holds its capacity or more.

`NothingRecordedCorrect`, at the end of **CircuitBreakerProofs.tla**, is about an instance of
`HealthStats`: for every window, threshold and clock nothing is ever counted.  These two are
not promises of the code: they justify what `Delivery` and `CircuitBreaker` leave out.

**DataPathProofs.tla**, for any requests, topics, keys, numbers of partitions (negative
ones included), hashes and width of an int, any number of assignments and crashes: all six invariants of
`DataPath`.  It goes bottom up.

- The operators of `Wire`: `ReadThree` says what is read of three keys when one is
  missing, `ParsedACL` and `ParsedBody` what parsing leaves of any text (a topic only if
  everything was there), `ReadBack` what `ConsumeLoop` gets of a payload.
- The actions: `ReceiveEffect`, `PushEffect`, `ConsumeEffect` and `KafkaGrows` say once what
  each does to the typed state; the inductive steps below cite them.
- `TypeCorrect`: `Types` and `Within` (no position or commit beyond the end of a log, no
  commit beyond the position).
- `Provenance`: what is queued was made of the body of a received request; what is in a
  log has, besides, a topic, was not refused, and lies in a partition `CalcPartition` gives;
  what was handed on is read from a place of a log.  `RefusedNeverSentCorrect` and
  `OnlyCompleteSentCorrect` are read off it.
- `OneForgottenPerCrashCorrect`: `FewForgotten` is the property and that the set is finite;
  each action adds nothing to `Forgotten`, but the crash in `ConsumeLoop` its one message
  (`ForgottenStep`).
- `HandedAsAskedCorrect`: `Ordered`, every request is in one place, and taskchan and
  each log are in the order of receipt; `Once`, a place that is still ahead of the consumer
  was handed on less often than there were assignments.
- `KeyOrderCorrect`: the property alone is not inductive, since after a crash the consumer
  can be anywhere between two messages.  `InTurn` says of two places of one log that the
  later one was handed on only after the earlier one, or the earlier one is passed
  for good (`Passed`: behind the commit).  To keep it, `NoGap` is needed: between the commit and
  the position of a running consumer everything was handed on.  Requests of one key lie in
  one log (`RoutedPlace`), unless -1 scatters them.

Assumptions used: `CapacityAssumption`, `PoolAssumption`, `BreakerAssumption`,
`IngressAssumption`, `DeliveryAssumption`, `DataPathAssumption` and the
`ClientAssumption` of each module with clients; the runs `QueueSafety`, `Pool`,
`CircuitBreaker`, `Ingress`, `Delivery`, `DataPath` and `BlockingQueue` make TLC evaluate them.
`DataPathAssumption` says, besides types, that the consumer's topic is configured (config.hpp tests it), that no
key of `Keys` is the empty string (which `CalcPartition` treats apart, and `Bodies` has
besides them) and that `None` is no offset.  In `ThreadPool`, `Ingress` and
`Delivery`, `None` (no call, no message) differs from `Exit`, the notification `Stop` puts: the
proofs must tell a `Stop` inside `put` from one that is not.

Model-checked only: the liveness properties `FifoPromise` (both queues; its safety part is
proved), `TasksStart`, `AckedIsProduced`, `HandlerAnswers`, `StopReturns`,
`EveryMessageCalled` and `Recovers`.  They rest on fairness, and the prover has no rule for
fairness or `ENABLED` here.  Every invariant and every action property that a passing run
checks is a theorem.  No run checks the theorems without a property of a run (`WorkerAwake`,
`PutterAwake`, `LoopAwake`, `AckedIsOnItsWayCorrect`, `ProducedOnce`, `FewAcknowledged`,
`PushingAwake` and the refinements but the queues'): the proof is all there is for them.

## 5. Not modelled

- Wording of logs and answers; the JSON syntax of a text; the HTTP server, cppkafka,
  cpprest and folly, except for what the code sees of them.
- Kafka's group protocol beyond assignment, revocation and commits; several members;
  brokers that fail.
- Sleeps and timeouts of the network, except where a clock decides something (`TokenBucket`,
  `CircuitBreaker`, `HealthStats`); rounding of `double`.
- Settings `ParseConfig` reads and nothing tests; the gflags and glog calls of `main`.
- The setters of `RequestBody`, `RequestMessage` and `AccessControlList`, which assign
  their parameter to itself; `PendingTasks`, `size()` and `capacity()`, which change no
  state; the destructor of `ThreadPool`, which does nothing after `Stop`.  None of the
  first four has a caller.
- `ToJSON` of `RequestBody`, which has no caller, and of `AccessControlList`, which only that
  one calls.
- `SetCircuitBreaker`, which nobody calls.  `CircuitBreaker` has the workers that
  would wait for a breaker; `Delivery` has none.
- The build files.

## 6. Plan

Built: the queues, the pool, ingress, delivery, the data path, the breaker with its
statistics, the token bucket, the start; proofs of every safety property of a passing
run, and of five refinements (`BoundedFifo` by both queues, `QueueClients` by `Ingress` and by
`ThreadPool`, `ThreadPool` by `Delivery`), which chain: what holds of the queue holds in
`Delivery` (`LoopAwake`).  What is left is the liveness, which is model-checked, and what
section 5 names.  A larger instance of `DataPath`, with two topics whose keys are equal, would
say nothing that `KeyOrderCorrect` does not.

`main` as a whole, `Startup`, `Ingress` and `Delivery` in one module, is left out on
purpose: `Ingress` and `Delivery` share no state, and `Delivery` lets `StopConsuming` come
at any time or never, which covers every place it has behind the producer's
`Stop`, also when that hangs.

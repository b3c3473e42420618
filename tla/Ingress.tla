------------------------------ MODULE Ingress ------------------------------
(***************************************************************************)
(* From an HTTP request to Kafka: Acceptor::RpcCallback (one server        *)
(* thread, "http"), taskchan, KafkaProducer::Pushing (NPRODUCERS = 1,      *)
(* "pushing"), and main, which starts both, waits for SIGINT and stops     *)
(* both.  It begins where main has run the three Init functions and        *)
(* SetJobChannel.                                                          *)
(*                                                                         *)
(* The body of a request is abstracted to what the code does with it.      *)
(* Nothing in the program polls or flushes the Kafka library: it keeps     *)
(* what it was given until its delivery report is served, which never      *)
(* happens, so get_out_queue_length() is the number of messages produced.  *)
(***************************************************************************)
EXTENDS BoundedBlockingQueue, Integers, SequencesExt

CONSTANTS Requests,       \* each is received at most once
          Malformed,      \* parsing the body throws
          NoTopic,        \* the body parses and leaves its acl without a topic
          Unroutable,     \* CalcPartition finds no partition, as in DataPath
          Exit,           \* the RequestMessage() that KafkaProducer::Stop puts
          None,           \* no request, or no message, in hand
          OutQueueLimit,  \* external: produce() throws at this queue length
          MaxSignals      \* bound: the number of SIGINTs

ASSUME IngressAssumption ==
    /\ Malformed \cup NoTopic \cup Unroutable \subseteq Requests
    /\ Exit \notin Requests /\ None \notin Requests /\ Exit # None
    /\ OutQueueLimit \in Nat /\ MaxSignals \in Nat

VARIABLES main,       \* where the main thread is
          IsRunning,  \* KafkaProducer::IsRunning
          sigints,    \* the number of SIGINTs trapped
          http,       \* where the server thread is in RpcCallback
          handling,   \* the request it handles
          answers,    \* the errno of each CallResp written, per request
          pushing,    \* where the Pushing thread is
          hand,       \* the message it holds
          crashed,    \* the process was terminated
          accepted,   \* history: every message put on taskchan, in order
          taken,      \* history: every message taken from it, in order
          produced    \* every message given to produce(), in order

mainVars == <<main, IsRunning, sigints>>
httpVars == <<http, handling, answers>>
pushVars == <<pushing, hand, crashed, taken, produced>>
vars == <<queueVars, mainVars, httpVars, pushVars, accepted>>

\* KafkaProducer() = default leaves IsRunning uninitialised.
Init == /\ QueueInit
        /\ main = "new" /\ IsRunning \in BOOLEAN /\ sigints = 0
        /\ http = "down" /\ handling = None
        /\ answers = [r \in Requests |-> <<>>]
        /\ pushing = "unborn" /\ hand = None
        /\ crashed = FALSE
        /\ accepted = <<>> /\ taken = <<>> /\ produced = <<>>

\* GetTopic() is the empty string for what parsing left without a topic, and
\* for the empty message Stop puts.
HasTopic(m) == m \notin Malformed \cup NoTopic \cup {Exit}

-----------------------------------------------------------------------------
(* The main thread.                                                        *)

\* A thread of a process that still exists is at a place of its code.
At(thread, place) == ~crashed /\ thread = place
Step(from, to) == At(main, from) /\ main' = to

\* KafkaProducer::Start creates the thread first, and sets IsRunning after.
SpawnPushing == /\ Step("new", "spawned")
                /\ pushing' = "loop"
                /\ UNCHANGED <<queueVars, IsRunning, sigints, httpVars, hand,
                               crashed, accepted, taken, produced>>

SetRunning == /\ Step("spawned", "producing")
              /\ IsRunning' = TRUE
              /\ UNCHANGED <<queueVars, sigints, httpVars, pushVars, accepted>>

AcceptorStart == /\ Step("producing", "serving")
                 /\ http' = "idle"
                 /\ UNCHANGED <<queueVars, IsRunning, sigints, handling, answers,
                                pushVars, accepted>>

\* waitForUserInterrupt: cond_.wait(lock), with no predicate.
WaitForUserInterrupt ==
    /\ Step("serving", "waiting")
    /\ UNCHANGED <<queueVars, IsRunning, sigints, httpVars, pushVars, accepted>>

\* handleUserInterrupt: a notification nobody waits for is lost.
Interrupt == /\ ~crashed /\ sigints < MaxSignals
             /\ sigints' = sigints + 1
             /\ main' = IF main = "waiting" THEN "interrupted" ELSE main
             /\ UNCHANGED <<queueVars, IsRunning, httpVars, pushVars, accepted>>

SpuriousInterrupt ==
    /\ Step("waiting", "interrupted")
    /\ UNCHANGED <<queueVars, IsRunning, sigints, httpVars, pushVars, accepted>>

\* No new request is handled; the one in progress is not interrupted.
AcceptorStop == /\ Step("interrupted", "stopping")
                /\ UNCHANGED <<queueVars, IsRunning, sigints, httpVars, pushVars,
                               accepted>>

\* KafkaProducer::Stop
StopRunning == /\ Step("stopping", "notifying")
               /\ IsRunning' = FALSE
               /\ UNCHANGED <<queueVars, sigints, httpVars, pushVars, accepted>>

StopPut == /\ At(main, "notifying") /\ "main" \notin notFull
           /\ \/ /\ PutDone(Exit)
                 /\ accepted' = Append(accepted, Exit)
                 /\ main' = "joining"
              \/ PutWait("main") /\ UNCHANGED <<accepted, main>>
           /\ UNCHANGED <<IsRunning, sigints, httpVars, pushVars>>

FlushAtOnce == /\ Step("joining", "flushing")                     \* a mutant
               /\ UNCHANGED <<queueVars, IsRunning, sigints, httpVars, pushVars,
                              accepted>>
StopJoin == /\ Step("joining", "flushing") /\ pushing = "exited"
            /\ UNCHANGED <<queueVars, IsRunning, sigints, httpVars, pushVars,
                           accepted>>

\* while (kafkaClient->get_out_queue_length() > 0) sleep
StopReturn == /\ Step("flushing", "stopped") /\ produced = <<>>
              /\ UNCHANGED <<queueVars, IsRunning, sigints, httpVars, pushVars,
                             accepted>>

-----------------------------------------------------------------------------
(* RpcCallback.                                                            *)

\* The body is parsed; the catch block answers -1 and does not return.
Receive(r) ==
    /\ At(http, "idle") /\ answers[r] = <<>>
    /\ main \in {"serving", "waiting", "interrupted"}
    /\ http' = "check" /\ handling' = r
    /\ answers' = [answers EXCEPT ![r] = IF r \in Malformed THEN <<-1>> ELSE <<>>]
    /\ UNCHANGED <<queueVars, mainVars, pushVars, accepted>>

\* if (!taskchan->full())
PutUnchecked == http' = "put" /\ UNCHANGED <<handling, answers>>  \* a mutant
RefuseAndPut == /\ http' = "put" /\ UNCHANGED handling            \* a mutant
                /\ answers' = IF full
                              THEN [answers EXCEPT ![handling] = Append(@, -1)]
                              ELSE answers
PutOrRefuse == \/ /\ ~full
                  /\ http' = "put" /\ UNCHANGED <<handling, answers>>
               \/ /\ full
                  /\ http' = "idle" /\ handling' = None
                  /\ answers' = [answers EXCEPT ![handling] = Append(@, -1)]
CheckFull == /\ At(http, "check")
             /\ PutOrRefuse
             /\ UNCHANGED <<queueVars, mainVars, pushVars, accepted>>

\* taskchan->put(reqmsg); other threads may have filled the queue since.
HandlerPut == /\ At(http, "put") /\ "http" \notin notFull
              /\ \/ /\ PutDone(handling)
                    /\ accepted' = Append(accepted, handling)
                    /\ http' = "answer"
                 \/ PutWait("http") /\ UNCHANGED <<accepted, http>>
              /\ UNCHANGED <<mainVars, handling, answers, pushVars>>

Answer == /\ At(http, "answer")
          /\ http' = "idle" /\ handling' = None
          /\ answers' = [answers EXCEPT ![handling] = Append(@, 0)]
          /\ UNCHANGED <<queueVars, mainVars, pushVars, accepted>>

-----------------------------------------------------------------------------
(* Pushing.                                                                *)

PushCheck == /\ At(pushing, "loop")
             /\ pushing' = IF IsRunning THEN "take" ELSE "exited"
             /\ UNCHANGED <<queueVars, mainVars, httpVars, hand, crashed,
                            accepted, taken, produced>>

\* take; a message without a topic is skipped
PushTake == /\ At(pushing, "take") /\ "pushing" \notin notEmpty
            /\ \/ /\ TakeDone
                  /\ taken' = Append(taken, front)
                  /\ IF HasTopic(front) THEN pushing' = "push" /\ hand' = front
                                        ELSE pushing' = "loop" /\ hand' = None
               \/ TakeWait("pushing") /\ UNCHANGED <<pushing, hand, taken>>
            /\ UNCHANGED <<mainVars, httpVars, crashed, accepted, produced>>

\* produce() throws when its queue is at the limit.  Without a partition, the
\* process ends in CalcPartition or in produce(), or the library finds out later
\* and reports the message failed.
Produce == /\ At(pushing, "push")
           /\ \/ /\ hand \in Unroutable \/ Len(produced) >= OutQueueLimit
                 /\ crashed' = TRUE
                 /\ UNCHANGED <<pushing, hand, produced>>
              \/ /\ Len(produced) < OutQueueLimit
                 /\ produced' = Append(produced, hand)
                 /\ pushing' = "loop" /\ hand' = None
                 /\ UNCHANGED crashed
           /\ UNCHANGED <<queueVars, mainVars, httpVars, accepted, taken>>

-----------------------------------------------------------------------------
Startup == SpawnPushing \/ SetRunning \/ AcceptorStart \/ WaitForUserInterrupt
Shutdown == AcceptorStop \/ StopRunning \/ StopPut \/ StopJoin \/ StopReturn
RpcCallback == CheckFull \/ HandlerPut \/ Answer
Pushing == PushCheck \/ PushTake \/ Produce

Next == \/ Startup \/ Shutdown
        \/ Interrupt \/ SpuriousInterrupt
        \/ RpcCallback \/ \E r \in Requests : Receive(r)
        \/ Pushing
        \/ /\ ~crashed /\ SpuriousWakeup
           /\ UNCHANGED <<mainVars, httpVars, pushVars, accepted>>

Spec == Init /\ [][Next]_vars

\* Every thread that is not asleep runs on; requests and signals need not come.
FairSpec == /\ Spec
            /\ WF_vars(Startup \/ Shutdown)
            /\ WF_vars(RpcCallback)
            /\ WF_vars(Pushing)

-----------------------------------------------------------------------------
Started == main \notin {"new", "spawned"}
Stopping == main \in {"stopping", "notifying", "joining", "flushing", "stopped"}
Acked(r) == \E i \in DOMAIN answers[r] : answers[r][i] = 0

\* Every variable has its type; a thread is asleep only inside taskchan.
TypeOK ==
    /\ ringbuffer \in Seq(Requests \cup {Exit}) /\ Len(ringbuffer) <= Capacity
    /\ notEmpty \subseteq (IF pushing = "take" THEN {"pushing"} ELSE {})
    /\ notFull \subseteq {"main", "http"}
    /\ "main" \in notFull => main = "notifying"
    /\ "http" \in notFull => http = "put"
    /\ main \in {"new", "spawned", "producing", "serving", "waiting",
                 "interrupted"} \/ Stopping
    /\ IsRunning \in BOOLEAN /\ sigints \in 0..MaxSignals /\ crashed \in BOOLEAN
    /\ http \in {"down", "idle", "check", "put", "answer"}
    /\ handling \in Requests \cup {None}
    /\ http \in {"check", "put", "answer"} => handling \in Requests
    /\ answers \in [Requests -> Seq({0, -1})]
    /\ pushing \in {"unborn", "loop", "take", "push", "exited"}
    /\ hand \in Requests \cup {None}
    /\ pushing = "push" => hand \in Requests
    /\ produced \in Seq(Requests)
    /\ accepted \in Seq(Requests \cup {Exit}) /\ taken \in Seq(Requests \cup {Exit})

\* p has the messages of s that have a topic, once each and in their order.
Topical(s) == {k \in DOMAIN s : HasTopic(s[k])}
PicksTopical(p, s) ==
    \E place \in [DOMAIN p -> Topical(s)] :
        /\ Range(place) = Topical(s)
        /\ \A i, j \in DOMAIN p : i < j => place[i] < place[j]
        /\ \A i \in DOMAIN p : p[i] = s[place[i]]

\* Kafka is given exactly the accepted messages that have a topic, once each,
\* in the order they were accepted; the last one may still be in hand.
ProducedInOrder ==
    /\ accepted = taken \o ringbuffer
    /\ PicksTopical(IF pushing = "push" THEN Append(produced, hand) ELSE produced, taken)

\* What the parsing of r answered, and how often r was put on taskchan.
Before(r) == IF r \in Malformed THEN <<-1>> ELSE <<>>
Puts(r) == Cardinality({i \in DOMAIN accepted : accepted[i] = r})

\* When the handler lets go of a request, it has either put it on taskchan, once,
\* and answered 0, or put it nowhere and answered -1, after what the catch block
\* of a malformed body answered.  Nobody answers or puts a request at another time.
AnsweredByFate ==
    [][\A r \in Requests : handling' # r =>
           IF handling = r
           THEN \/ Puts(r)' = 1 /\ answers'[r] = Before(r) \o <<0>>
                \/ Puts(r)' = 0 /\ answers'[r] = Before(r) \o <<-1>>
           ELSE Puts(r)' = Puts(r) /\ answers'[r] = answers[r]]_vars

\* full() and put() are two critical sections.  The handler can sleep between
\* them all the same only once Stop has put its Exit: until then nobody else
\* puts, and the server thread stays free to refuse requests.
HandlerSleepsOnlyAtStop == "http" \in notFull => Contains(accepted, Exit)

\* Once Stop has joined the thread, nothing more is given to Kafka.
NothingProducedAfterJoin ==
    [][(main \in {"flushing", "stopped"}) => produced' = produced]_vars

\* A request with a topic that was answered "sent" is given to Kafka, as long as
\* the thread is there to do it: no Stop, no crash, no lost start.
AckedIsProduced ==
    \A r \in Requests : Acked(r) /\ HasTopic(r)
        ~> (Contains(produced, r) \/ Stopping \/ crashed \/ pushing = "exited")

\* Until a Stop, the handler answers every request it has begun.
HandlerAnswers == http = "check" ~> (http = "idle" \/ Stopping \/ crashed)

\* A Stop returns, or the process is gone, or it hangs in one of two ways: the exit
\* notification waits for room in taskchan and the Pushing thread, which would make
\* room, has left on IsRunning; or something was produced, and Stop waits for the
\* out queue to become empty.
StopReturns ==
    Stopping ~> \/ main = "stopped" \/ crashed
                \/ full /\ pushing = "exited" /\ main = "notifying"
                \/ produced # <<>> /\ main = "flushing"
=============================================================================

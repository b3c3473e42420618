------------------------------ MODULE DataPath ------------------------------
(***************************************************************************)
(* What becomes of the data of a request on its way from the handler to    *)
(* AsyncCall: parsed by RpcCallback, put on taskchan, routed and formatted *)
(* by Pushing, kept by Kafka, parsed again by ConsumeLoop.                 *)
(*                                                                         *)
(* The threads are those of Ingress and Delivery, with a call of RpcCall-  *)
(* back, an iteration of Pushing and one of ConsumeLoop as one step each:  *)
(* they share no data but taskchan and Kafka, both FIFO.  Whether taskchan *)
(* is full is left open.  A program that has crashed can be started again; *)
(* Kafka keeps its logs and the offsets that were committed.               *)
(***************************************************************************)
EXTENDS Wire, FiniteSets

CONSTANTS Requests,       \* each is received at most once
          Topics,         \* the topics a request can ask for
          Keys,           \* the partition keys a request can have
          Partitions,     \* Kafka_topics: the partitions configured, of each topic
          KafkaTopics,    \* external: the partitions Kafka has, of each topic
          ConsumerTopic,  \* Kafka_consumer.Topic
          Hashes,         \* what std::hash can return for a key
          IntWidth,       \* the bits of an int
          None,           \* no offset
          MaxAssigns      \* bound: how often the consumer is assigned its partitions

ASSUME DataPathAssumption ==
    /\ Partitions \in [DOMAIN Partitions -> Int]
    /\ KafkaTopics \in [DOMAIN KafkaTopics -> Nat]
    /\ ConsumerTopic \in DOMAIN Partitions
    /\ Hashes \subseteq Nat /\ IntWidth \in Nat \ {0}
    /\ MaxAssigns \in Nat /\ None \notin Nat /\ Empty \notin Keys

Logs == UNION {{topic} \X (0..(KafkaTopics[topic] - 1)) : topic \in DOMAIN KafkaTopics}

VARIABLES hash,     \* std::hash<std::string>
          taskchan,
          kafka,    \* external: the log of every partition
          position, \* external: how much of each log was consumed, or None
          committed, \* external: the position last committed, or None
          handed,   \* the arguments of AsyncCall, in order
          answers,  \* what was written to the client of each request
          crashed,  \* the process was terminated
          asked,    \* history: what the file that each body names holds
          received, \* history: the requests in the order they were handled
          assigns,  \* history: the assignments there were
          crashes,  \* history: the crashes there were
          skipped   \* history: what auto.offset.reset has passed over

requestVars == <<answers, asked, received>>
groupVars == <<position, committed, assigns, skipped>>
vars == <<hash, taskchan, kafka, handed, crashed, crashes, requestVars, groupVars>>

Init == /\ hash \in [Keys -> Hashes]
        /\ taskchan = <<>> /\ handed = <<>>
        /\ kafka = [l \in Logs |-> <<>>] /\ crashed = FALSE /\ crashes = 0
        /\ position = [l \in Logs |-> None] /\ committed = [l \in Logs |-> None]
        /\ assigns = 0 /\ skipped = {}
        /\ answers = [r \in Requests |-> <<>>]
        /\ asked = [r \in Requests |-> NotJson] /\ received = <<>>

-----------------------------------------------------------------------------
(* What the file a client names as the body of its request can hold: a good *)
(* body, one with any one key missing, or nothing that parses.              *)

Headers(r) == [name \in {"X-Request"} |-> r]
Lacking(F) == UNION {{Restrict(f, DOMAIN f \ {k}) : k \in DOMAIN f} : f \in F}
Bodies(r) ==
    LET Of(keys, acls) == [url: {<<"url", r>>}, data: {<<"data", r>>},
                           partitionKey: keys, acl: acls]
        Acls(topics) == [name: {"system"}, secret: {"good"}, topic: topics]
        Wanted == Acls({ConsumerTopic})
    IN  {NotJson} \cup Of(Keys \cup {Empty}, Acls(Topics))
            \cup Lacking(Of(Keys, Wanted)) \cup Of(Keys, Lacking(Wanted) \cup {NotJson})

\* RpcCallback.  The catch block does not return: what was parsed until then is
\* put on the queue all the same.
Receive(r) ==
    /\ r \notin Range(received)
    /\ received' = Append(received, r)
    /\ \E content \in Bodies(r), full \in BOOLEAN :
         LET reqbody == ParseFromJSON(RequestBody, content)
             reqmsg  == RequestMessage(Headers(r), reqbody.self)
         IN  /\ asked' = [asked EXCEPT ![r] = content]
             /\ taskchan' = IF full THEN taskchan ELSE Append(taskchan, reqmsg)
             /\ answers' = [answers EXCEPT ![r] =
                    (IF reqbody.throws THEN <<CallResp(-1)>> ELSE <<>>)
                        \o <<CallResp(IF full THEN -1 ELSE 0)>>]
    /\ UNCHANGED <<hash, kafka, handed, crashed, crashes, groupVars>>

-----------------------------------------------------------------------------
\* (int) of a size_t, and % with the sign of its left side, as C++ has it.
ToInt(x) == LET low == x % 2^IntWidth
            IN  IF low < 2^(IntWidth - 1) THEN low ELSE low - 2^IntWidth
Rem(x, y) == LET size == IF y < 0 THEN -y ELSE y
             IN  IF x >= 0 THEN x % size ELSE -((-x) % size)

\* The partitions it can return: none where it divides by zero.  random_device
\* gives an unsigned number, and % makes partitions one too: a negative one is
\* large, and what is left of it an int of either sign.
Random(partitions) == {ToInt(x) : x \in 0..((partitions % 2^IntWidth) - 1)}
RandomPartition(partitions, key) == Random(partitions)            \* a mutant
CalcPartition(partitions, key) ==
    IF partitions = 0 THEN {}
    ELSE IF key = Empty THEN Random(partitions)
    ELSE {Rem(ToInt(hash[key]), partitions)}

\* bigConf->Kafka_topics[topic].Partitions: a topic that is not there is
\* inserted, with no partitions.
PartitionsOf(topic) == IF topic \in DOMAIN Partitions THEN Partitions[topic] ELSE 0

Crash == crashed' = TRUE /\ crashes' = crashes + 1

\* External: partition -1 leaves the choice to the library.  If Kafka has none to
\* choose, or not the one that was given, produce() throws, or takes the message
\* and reports it failed, if it does not know the partitions of the topic yet.
AnyPartition == -1
MayProduce(topic, partition, payload) ==
    LET logs == {l \in Logs : l[1] = topic /\ partition \in {AnyPartition, l[2]}}
    IN  \/ \E l \in logs : /\ kafka' = [kafka EXCEPT ![l] = Append(@, payload)]
                           /\ UNCHANGED <<crashed, crashes>>
        \/ logs = {} /\ Crash /\ UNCHANGED kafka
        \/ logs = {} /\ UNCHANGED <<kafka, crashed, crashes>>

\* An iteration of Pushing.
Push ==
    /\ taskchan # <<>> /\ taskchan' = Tail(taskchan)
    /\ LET reqmsg == Head(taskchan)
           results == CalcPartition(PartitionsOf(reqmsg.topic), reqmsg.partitionKey)
       IN  \/ reqmsg.topic = Empty /\ UNCHANGED <<kafka, crashed, crashes>>
           \/ reqmsg.topic # Empty /\ results = {} /\ Crash /\ UNCHANGED kafka
           \/ /\ reqmsg.topic # Empty
              /\ \E p \in results : MayProduce(reqmsg.topic, p, ToJSON(reqmsg))
    /\ UNCHANGED <<hash, handed, requestVars, groupVars>>

-----------------------------------------------------------------------------
Subscribed == {l \in Logs : l[1] = ConsumerTopic}

\* External: the group assigns the partitions of the topic, and Kafka goes on
\* where the last commit was, or, with auto.offset.reset latest, at the end.
FromNext == [l \in Logs |-> IF l \notin Subscribed THEN None      \* a mutant
                            ELSE IF committed[l] = None THEN Len(kafka[l])
                            ELSE IF committed[l] < Len(kafka[l]) THEN committed[l] + 1
                            ELSE committed[l]]
Resumed == [l \in Logs |-> IF l \notin Subscribed THEN None
                           ELSE IF committed[l] = None THEN Len(kafka[l])
                           ELSE committed[l]]
Assign == /\ \A l \in Subscribed : position[l] = None
          /\ assigns < MaxAssigns /\ assigns' = assigns + 1
          /\ position' = Resumed
          /\ skipped' = skipped \cup UNION {{l} \X (1..Len(kafka[l])) :
                                       l \in {x \in Subscribed : committed[x] = None}}
          /\ UNCHANGED <<hash, taskchan, kafka, handed, crashed, crashes,
                         committed, requestVars>>

Unassign == /\ \A l \in Subscribed : position[l] # None
            /\ position' = [l \in Logs |-> None]
            /\ UNCHANGED <<hash, taskchan, kafka, handed, crashed, crashes,
                           committed, assigns, skipped, requestVars>>

\* External: enable.auto.commit, with the position that was consumed.
Commit == /\ \A l \in Subscribed : position[l] # None
          /\ committed' = position
          /\ UNCHANGED <<hash, taskchan, kafka, handed, crashed, crashes,
                         position, assigns, skipped, requestVars>>

\* An iteration of ConsumeLoop, with a message of log l.  FromJSON opens the
\* payload as a file: the file it names holds it, or the parser throws, which
\* nobody catches.  The library counts a message as consumed once it was handed
\* out, so the position it commits by then may be past that message.
ConsumeLoop(l) ==
    /\ position[l] # None /\ position[l] < Len(kafka[l])
    /\ position' = [position EXCEPT ![l] = @ + 1]
    /\ \E content \in {kafka[l][position[l] + 1], NotJson} :
         LET reqmsg == FromJSON(EmptyMessage, content)
         IN  IF reqmsg.throws
             THEN Crash /\ committed' \in {committed, position'} /\ UNCHANGED handed
             ELSE /\ handed' = Append(handed, reqmsg.self)
                  /\ UNCHANGED <<committed, crashed, crashes>>
    /\ UNCHANGED <<hash, taskchan, kafka, assigns, skipped, requestVars>>

\* The program is started again: Kafka is as it was, taskchan is new.
Restart == /\ crashed /\ crashed' = FALSE
           /\ taskchan' = <<>> /\ position' = [l \in Logs |-> None]
           /\ UNCHANGED <<hash, kafka, handed, crashes, committed, assigns,
                          skipped, requestVars>>

Next == \/ /\ ~crashed
           /\ \/ \E r \in Requests : Receive(r)
              \/ Push
              \/ Assign \/ Unassign \/ Commit
              \/ \E l \in Subscribed : ConsumeLoop(l)
        \/ Restart

Spec == Init /\ [][Next]_vars

-----------------------------------------------------------------------------
Sent(r) == \E l \in Logs : \E i \in DOMAIN kafka[l] : kafka[l][i].headers = Headers(r)
\* acl.hpp:26: the topic is optional.
IsComplete(r) == /\ KeysOf(asked[r]) = {"url", "data", "partitionKey", "acl"}
                 /\ {"name", "secret"} \subseteq KeysOf(asked[r].acl)
Place(r) == {i \in DOMAIN handed : handed[i].headers = Headers(r)}

\* Every variable has its type, and no more is consumed than was produced.
TypeOK ==
    /\ hash \in [Keys -> Hashes] /\ crashed \in BOOLEAN
    /\ \A m \in Range(taskchan) \cup Range(handed) : DOMAIN m = DOMAIN EmptyMessage
    /\ DOMAIN kafka = Logs
    /\ \A l \in Logs : /\ position[l] \in 0..Len(kafka[l]) \cup {None}
                       /\ committed[l] \in 0..Len(kafka[l]) \cup {None}
    /\ assigns \in 0..MaxAssigns /\ crashes \in Nat
    /\ \A x \in skipped : x[2] \in DOMAIN kafka[x[1]]
    /\ answers \in [Requests -> Seq([errno: {0, -1}])]
    /\ Range(received) \subseteq Requests
    /\ \A r \in Requests : asked[r] \in Bodies(r)

\* A request that was answered with an error, by the catch block or for
\* overload, never reaches Kafka, though the catch block does not return and
\* puts what was parsed on the queue.
RefusedNeverSent ==
    \A r \in Requests : CallResp(-1) \in Range(answers[r]) => ~Sent(r)

\* What reaches Kafka was asked for with every field that is not optional.  The
\* name and the secret are among them, though nobody tests the false that
\* AccessControlList::FromJSON returns without them: it reads the topic last, and
\* Pushing skips what has none.  That Pushing also skips a request whose optional
\* topic was left out, after it was answered 0, is a hazard and no part of this.
OnlyCompleteSent == \A r \in Requests : Sent(r) => IsComplete(r)

\* AsyncCall is given the headers, the URL and the data of a request that was
\* sent, once for every time the consumer was assigned its partitions; the topic
\* and the partition key stay behind.
HandedAsAsked ==
    \A i \in DOMAIN handed : \E r \in Range(received) :
        /\ Sent(r) /\ i \in Place(r) /\ Cardinality(Place(r)) <= assigns
        /\ handed[i] = [EmptyMessage EXCEPT !.headers = Headers(r),
                            !.url = asked[r].url, !.data = asked[r].data]

\* Requests of one topic and one key are first handed on in the order they came,
\* across crashes and new assignments, unless CalcPartition makes -1 of the key,
\* which scatters them.
Routed(r, key) == /\ IsComplete(r) /\ asked[r].partitionKey = key
                  /\ "topic" \in KeysOf(asked[r].acl) /\ asked[r].acl.topic = ConsumerTopic
First(r) == CHOOSE i \in Place(r) : \A j \in Place(r) : i <= j
KeyOrder ==
    \A key \in Keys :
        CalcPartition(PartitionsOf(ConsumerTopic), key) # {AnyPartition} =>
            \A i, j \in DOMAIN received :
                LET q == received[i] r == received[j]
                IN  (i < j /\ Routed(q, key) /\ Routed(r, key)
                     /\ Place(q) # {} /\ Place(r) # {}) => First(q) < First(r)

\* Auto-commit forgets at most one message per crash: all others that lie behind
\* the position or the commit were given to AsyncCall, or lay in the log before
\* the group had committed anything.
Behind(l) == {n \in DOMAIN kafka[l] : \/ position[l] # None /\ n <= position[l]
                                      \/ committed[l] # None /\ n <= committed[l]}
Forgotten == {x \in UNION {{l} \X Behind(l) : l \in Subscribed} :
                 /\ x \notin skipped
                 /\ \A i \in DOMAIN handed : handed[i].headers # kafka[x[1]][x[2]].headers}
OneForgottenPerCrash == Cardinality(Forgotten) <= crashes
=============================================================================

------------------------------ MODULE Startup ------------------------------
(***************************************************************************)
(* main up to the point where it waits for SIGINT: the config, the Init    *)
(* and the Start of the three components, whose results main ignores.  A   *)
(* component is abstracted to what its Init and Start create.              *)
(*                                                                         *)
(* A config is abstracted to what ParseConfig tests of it.                 *)
(***************************************************************************)
EXTENDS Integers

CONSTANTS Topics, Null

NoTopic == "no topic"     \* an acl entry without a topic
Object == "object"        \* an acl entry that is an object, not a string

\* On both sides of every limit ParseConfig tests.
CircuitBreakerConf == [WinSize: {0, 1}, MinStats: {0, 1}, HealthRate: {0, 1, 100, 101}]
ConsumerConf == [Topic: Topics, CircuitBreakerConf: CircuitBreakerConf \cup {Null}]
Config == [Kafka_topics: SUBSET Topics,
           Kafka_producer_acl: SUBSET (Topics \cup {NoTopic, Object}),
           Kafka_consumer: ConsumerConf]

Files == [json: BOOLEAN,     \* the file holds JSON
          keys: BOOLEAN,     \* the keys are there, with the types asked for
          dict: Config]

\* The members of each component that can be null.
Acceptor == {"bigConf", "httpServer", "taskchan"}
KafkaProducer == {"bigConf", "kafkaClient", "taskchan"}
KafkaConsumer == {"bigConf", "client", "asyncClient"}

VARIABLES file,       \* the config file
          config,     \* what ParseConfig made of it
          main,       \* what main does next
          acceptor,   \* Acceptor: the members that are not null
          producer,   \* KafkaProducer: likewise; "thread": Pushing runs
          consumer    \* KafkaConsumer: likewise; "thread": ConsumeLoop runs

vars == <<file, config, main, acceptor, producer, consumer>>

Init == /\ file \in Files /\ config = Null
        /\ main = "ParseConfig"
        /\ acceptor = {} /\ producer = {} /\ consumer = {}

-----------------------------------------------------------------------------
\* Everything else is caught, or rejected.
ValidBreaker(breaker) == /\ breaker.WinSize > 0 /\ breaker.MinStats > 0
                         /\ breaker.HealthRate \in 1..100
ValidConsumer(consumerConf, topics) ==
    /\ consumerConf.CircuitBreakerConf # Null => ValidBreaker(consumerConf.CircuitBreakerConf)
    /\ consumerConf.Topic \in topics
Accepts(f) == /\ f.keys
              /\ f.dict.Kafka_producer_acl \subseteq f.dict.Kafka_topics
              /\ ValidConsumer(f.dict.Kafka_consumer, f.dict.Kafka_topics)

\* parseJson is outside the try block; main returns without a config.
ParseConfig == /\ main = "ParseConfig"
               /\ \/ ~file.json /\ main' = "terminated" /\ UNCHANGED config
                  \/ /\ file.json /\ Accepts(file)
                     /\ main' = "acceptor.Init" /\ config' = file.dict
                  \/ file.json /\ ~Accepts(file) /\ main' = "returned" /\ UNCHANGED config
               /\ UNCHANGED <<file, acceptor, producer, consumer>>

\* if (!bigConf) return false: the member, not the argument.
AcceptorInit ==
    /\ main = "acceptor.Init" /\ main' = "producer.Init"
    /\ acceptor' = IF "bigConf" \in acceptor
                   THEN Acceptor ELSE acceptor
    /\ UNCHANGED <<file, config, producer, consumer>>

\* Init, and SetJobChannel with what GetTaskChannel returns.
GetTaskChannel == acceptor \cap {"taskchan"}
ProducerInit ==
    /\ main = "producer.Init" /\ main' = "consumer.Init"
    /\ producer' = (KafkaProducer \ {"taskchan"}) \cup GetTaskChannel
    /\ UNCHANGED <<file, config, acceptor, consumer>>

ConsumerInit == /\ main = "consumer.Init" /\ main' = "consumer.Start"
                /\ consumer' = KafkaConsumer
                /\ UNCHANGED <<file, config, acceptor, producer>>

ConsumerStart == /\ main = "consumer.Start" /\ main' = "producer.Start"
                 /\ consumer' = consumer \cup {"thread"}
                 /\ UNCHANGED <<file, config, acceptor, producer>>

\* Without a JobChannel, Start returns false.
ProducerStart ==
    /\ main = "producer.Start" /\ main' = "acceptor.Start"
    /\ producer' = producer \cup {"thread" : x \in producer \cap {"taskchan"}}
    /\ UNCHANGED <<file, config, acceptor, consumer>>

\* httpServer->run(1)
AcceptorStart ==
    /\ main = "acceptor.Start"
    /\ main' = IF "httpServer" \in acceptor THEN "serving" ELSE "terminated"
    /\ UNCHANGED <<file, config, acceptor, producer, consumer>>

Next == ParseConfig \/ AcceptorInit \/ ProducerInit \/ ConsumerInit
            \/ ConsumerStart \/ ProducerStart \/ AcceptorStart

\* main is one thread, and runs on.
FairSpec == Init /\ [][Next]_vars /\ WF_vars(Next)

-----------------------------------------------------------------------------
\* acceptor.cpp:36: with a config that was accepted, the HTTP server starts.
AcceptedIsServed == main = "acceptor.Init" ~> main = "serving"
=============================================================================

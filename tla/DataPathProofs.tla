--------------------------- MODULE DataPathProofs ---------------------------
(***************************************************************************)
(* What becomes of the data, for any requests, topics, keys and number of  *)
(* partitions, any hashes and width of an int, any crashes and assignments.*)
(***************************************************************************)
EXTENDS DataPath, FiniteSetTheorems, SequenceTheorems, WellFoundedInduction, TLAPS

-----------------------------------------------------------------------------
(* The operators of Wire.                                                  *)

\* What is read of three keys.
LEMMA ReadThree ==
    ASSUME NEW json, NEW a, NEW b, NEW c
    PROVE  LET keys == <<a, b, c>> IN
           /\ ReadUpTo(json, keys) \subseteq {a, b, c} \cap KeysOf(json)
           /\ {a, b, c} \subseteq KeysOf(json) => ReadUpTo(json, keys) = {a, b, c}
           /\ c \in ReadUpTo(json, keys) /\ c \notin {a, b}
                => {a, b, c} \subseteq KeysOf(json)
           /\ Throws(json, keys) <=> ~({a, b, c} \subseteq KeysOf(json))
<1> DEFINE keys == <<a, b, c>>
<1>1. /\ DOMAIN keys = {1, 2, 3} /\ keys[1] = a /\ keys[2] = b /\ keys[3] = c
      /\ 1..1 = {1} /\ 1..2 = {1, 2} /\ 1..3 = {1, 2, 3}
  OBVIOUS
<1> HIDE DEF keys
<1>2. \A k \in ReadUpTo(json, keys) :
          \/ k = a /\ a \in KeysOf(json)
          \/ k = b /\ {a, b} \subseteq KeysOf(json)
          \/ k = c /\ {a, b, c} \subseteq KeysOf(json)
  BY <1>1 DEF ReadUpTo
<1>3. {a, b, c} \subseteq KeysOf(json) => {a, b, c} \subseteq ReadUpTo(json, keys)
  BY <1>1 DEF ReadUpTo
<1>4. Throws(json, keys) <=> ~({a, b, c} \subseteq KeysOf(json))
  BY <1>1 DEF Throws, Range
<1>5. QED
  BY <1>2, <1>3, <1>4 DEF keys

LEMMA FourKeys ==
    ASSUME NEW a, NEW b, NEW c, NEW d
    PROVE  Range(<<a, b, c>> \o <<d>>) = {a, b, c, d}
<1> DEFINE S == {a, b, c, d}
           keys == <<a, b, c>> \o <<d>>
<1>1. <<a, b, c>> \in Seq(S) /\ <<d>> \in Seq(S)
  OBVIOUS
<1>2. Len(<<a, b, c>>) = 3 /\ Len(<<d>>) = 1
  OBVIOUS
<1>3. keys \in Seq(S) /\ Len(keys) = 4
  BY <1>1, <1>2, ConcatProperties
<1>4. keys[1] = a /\ keys[2] = b /\ keys[3] = c /\ keys[4] = d
  BY <1>1, <1>2, ConcatProperties
<1> HIDE DEF keys
<1>5. DOMAIN keys = {1, 2, 3, 4}
  BY <1>3
<1>6. QED
  BY <1>4, <1>5 DEF Range, keys

LEMMA OverValues ==
    ASSUME NEW f, NEW g
    PROVE  /\ Over(f, g) = [x \in DOMAIN Over(f, g) |-> Over(f, g)[x]]
           /\ DOMAIN Over(f, g) = DOMAIN f \cup DOMAIN g
           /\ \A x \in DOMAIN f : Over(f, g)[x] = f[x]
           /\ \A x \in DOMAIN g : x \notin DOMAIN f => Over(f, g)[x] = g[x]
  BY DEF Over

\* What the parsers make of a new object, for any text.
Acl(json) == ACLFromJSON(AccessControlList, json).self
Parsed(json) == ParseFromJSON(RequestBody, json)
Body(json) == Parsed(json).self

ACLKeys == {"name", "secret", "topic"}
AllKeys == {"url", "data", "partitionKey", "acl"}

\* An acl after parsing: it has its members, and a topic only if all were there.
LEMMA ParsedACL ==
    ASSUME NEW json
    PROVE  /\ Acl(json) = [f \in DOMAIN Acl(json) |-> Acl(json)[f]]
           /\ DOMAIN Acl(json) = ACLKeys
           /\ ACLKeys \subseteq KeysOf(json) =>
                  \A f \in ACLKeys : Acl(json)[f] = json[f]
           /\ Acl(json).topic # Empty => ACLKeys \subseteq KeysOf(json)
           /\ \A f \in ACLKeys : Acl(json)[f] \in {Empty, json[f]}
<1> DEFINE keys == <<"name", "secret", "topic">>
           read == ReadUpTo(json, keys)
           acl == Acl(json)
<1>1. /\ read \subseteq {"name", "secret", "topic"}
      /\ {"name", "secret", "topic"} \subseteq KeysOf(json)
            => read = {"name", "secret", "topic"}
      /\ "topic" \in read => {"name", "secret", "topic"} \subseteq KeysOf(json)
  BY ReadThree
<1>2. acl = Over([f \in read |-> json[f]], AccessControlList)
  BY DEF Acl, ACLFromJSON, Filled
<1> HIDE DEF acl, read
<1>3. /\ acl = [f \in DOMAIN acl |-> acl[f]] /\ DOMAIN acl = {"name", "secret", "topic"}
      /\ \A f \in {"name", "secret", "topic"} :
             acl[f] = IF f \in read THEN json[f] ELSE Empty
  <2>1. /\ DOMAIN AccessControlList = {"name", "secret", "topic"}
        /\ \A f \in {"name", "secret", "topic"} : AccessControlList[f] = Empty
    BY DEF AccessControlList
  <2> DEFINE given == [f \in read |-> json[f]]
  <2>2. DOMAIN given = read /\ \A f \in read : given[f] = json[f]
    OBVIOUS
  <2>3. DOMAIN given \cup DOMAIN AccessControlList = {"name", "secret", "topic"}
    BY <1>1, <2>1, <2>2
  <2> HIDE DEF given
  <2>4. acl = Over(given, AccessControlList)
    BY <1>2 DEF given
  <2>5. /\ acl = [f \in DOMAIN acl |-> acl[f]]
        /\ DOMAIN acl = {"name", "secret", "topic"}
    BY <2>3, <2>4, OverValues
  <2>6. \A f \in {"name", "secret", "topic"} :
            acl[f] = IF f \in read THEN json[f] ELSE Empty
    <3>1. \A x \in DOMAIN given : Over(given, AccessControlList)[x] = given[x]
      BY DEF Over
    <3>2. \A f \in DOMAIN AccessControlList : f \notin DOMAIN given =>
              Over(given, AccessControlList)[f] = AccessControlList[f]
      BY DEF Over
    <3>3. QED
      BY <2>1, <2>2, <2>4, <3>1, <3>2
  <2>7. QED
    BY <2>5, <2>6
<1>4. QED
  BY <1>1, <1>3 DEF acl, ACLKeys

\* A body after parsing: it has a topic only if all of it was there, since the acl
\* is parsed last, and the topic last of the acl.
LEMMA ParsedBody ==
    ASSUME NEW json
    PROVE  /\ Body(json) = [url |-> Body(json).url, data |-> Body(json).data,
                            partitionKey |-> Body(json).partitionKey, acl |-> Body(json).acl]
           /\ Body(json).acl \in {AccessControlList, Acl(json.acl)}
           /\ Body(json).acl.topic # Empty =>
                  /\ ~Parsed(json).throws
                  /\ AllKeys \subseteq KeysOf(json)
                  /\ ACLKeys \subseteq KeysOf(json.acl)
                  /\ Body(json).url = json.url /\ Body(json).data = json.data
                  /\ Body(json).partitionKey = json.partitionKey
                  /\ Body(json).acl.topic = json.acl.topic
<1> DEFINE read == ReadUpTo(json, BodyKeys)
           strings == Filled(RequestBody, json, BodyKeys)
           acl == ACLFromJSON(AccessControlList, json.acl)
           parsed == Parsed(json)
           body == Body(json)
<1>1. /\ read \subseteq {"url", "data", "partitionKey"}
      /\ {"url", "data", "partitionKey"} \subseteq KeysOf(json)
            => read = {"url", "data", "partitionKey"}
  BY ReadThree DEF BodyKeys
<1>2. strings = Over([f \in read |-> json[f]], RequestBody)
  BY DEF Filled
<1> HIDE DEF read, strings
<1>3. /\ strings = [f \in AllKeys |-> strings[f]]
      /\ strings.acl = AccessControlList
      /\ {"url", "data", "partitionKey"} \subseteq KeysOf(json) =>
            /\ strings.url = json.url /\ strings.data = json.data
            /\ strings.partitionKey = json.partitionKey
  BY <1>1, <1>2 DEF Over, RequestBody, AllKeys
<1>4. Throws(json, BodyKeys \o <<"acl">>) <=> ~(AllKeys \subseteq KeysOf(json))
  <2>1. Range(BodyKeys \o <<"acl">>) = AllKeys
    BY FourKeys DEF BodyKeys, AllKeys
  <2>2. QED
    BY <2>1 DEF Throws
<1>5. parsed = IF AllKeys \subseteq KeysOf(json)
               THEN [self |-> [strings EXCEPT !.acl = acl.self], throws |-> acl.throws]
               ELSE [self |-> strings, throws |-> TRUE]
  BY <1>4 DEF Parsed, ParseFromJSON, strings, RequestBody
<1>6. /\ acl.throws = (json.acl = NotJson) /\ acl.self = Acl(json.acl)
      /\ acl.self.topic # Empty => ACLKeys \subseteq KeysOf(json.acl)
      /\ ACLKeys \subseteq KeysOf(json.acl) => acl.self.topic = json.acl.topic
  <2>1. acl.throws = (json.acl = NotJson) /\ acl.self = Acl(json.acl)
    BY DEF ACLFromJSON, Acl
  <2>2. "topic" \in ACLKeys
    BY DEF ACLKeys
  <2>3. QED
    BY <2>1, <2>2, ParsedACL
<1>7. ACLKeys \subseteq KeysOf(json.acl) => json.acl # NotJson
  BY DEF KeysOf, ACLKeys
<1>8. AccessControlList.topic = Empty
  BY DEF AccessControlList
<1> HIDE DEF acl
<1>9. CASE AllKeys \subseteq KeysOf(json)
  <2>1. parsed = [self |-> [strings EXCEPT !.acl = acl.self], throws |-> acl.throws]
    BY <1>5, <1>9
  <2>2. body = [strings EXCEPT !.acl = acl.self] /\ parsed.throws = acl.throws
    BY <2>1 DEF Body
  <2>3. body = [url |-> strings.url, data |-> strings.data,
                partitionKey |-> strings.partitionKey, acl |-> acl.self]
    BY <1>3, <2>2 DEF AllKeys
  <2>4. {"url", "data", "partitionKey"} \subseteq KeysOf(json)
    BY <1>9 DEF AllKeys
  <2> HIDE DEF parsed, body
  <2>5. QED
    BY <1>3, <1>6, <1>7, <1>9, <2>2, <2>3, <2>4 DEF parsed, body
<1>10. CASE ~(AllKeys \subseteq KeysOf(json))
  <2>1. parsed = [self |-> strings, throws |-> TRUE]
    BY <1>5, <1>10
  <2>2. body = [url |-> strings.url, data |-> strings.data,
                partitionKey |-> strings.partitionKey, acl |-> AccessControlList]
    BY <1>3, <2>1 DEF Body, AllKeys
  <2>3. QED
    BY <1>8, <1>10, <2>2
<1>11. QED
  BY <1>9, <1>10

LEMMA LackingShape ==
    ASSUME NEW F, NEW f, f \in Lacking(F)
    PROVE  \E g \in F : DOMAIN f \subseteq DOMAIN g /\ \A k \in DOMAIN f : f[k] = g[k]
<1>1. PICK g \in F : \E k \in DOMAIN g : f = Restrict(g, DOMAIN g \ {k})
  BY DEF Lacking
<1>2. /\ DOMAIN f \subseteq DOMAIN g
      /\ \A x \in DOMAIN f : f[x] = g[x]
  BY <1>1 DEF Restrict
<1>3. QED
  BY <1>2

\* What a client can send has no other keys than those that are read.
LEMMA BodyShape ==
    ASSUME NEW r \in Requests, NEW json \in Bodies(r)
    PROVE  /\ KeysOf(json) \subseteq AllKeys
           /\ "acl" \in KeysOf(json) => KeysOf(json.acl) \subseteq ACLKeys
<1> DEFINE Of(keys, acls) == [url: {<<"url", r>>}, data: {<<"data", r>>},
                              partitionKey: keys, acl: acls]
           Acls(topics) == [name: {"system"}, secret: {"good"}, topic: topics]
           Wanted == Acls({ConsumerTopic})
           IsBody(j) == /\ DOMAIN j \subseteq AllKeys
                        /\ "acl" \in DOMAIN j => KeysOf(j.acl) \subseteq ACLKeys
<1>1. ASSUME NEW topics, NEW acl \in Acls(topics)
      PROVE  KeysOf(acl) \subseteq ACLKeys /\ DOMAIN acl = ACLKeys
  BY <1>1 DEF KeysOf, ACLKeys
<1>2. ASSUME NEW keys, NEW acls, \A acl \in acls : KeysOf(acl) \subseteq ACLKeys,
             NEW j \in Of(keys, acls)
      PROVE  IsBody(j)
  BY <1>2 DEF AllKeys
<1>3. ASSUME NEW j, j \in Lacking(Of(Keys, Wanted)) PROVE IsBody(j)
  <2> HIDE DEF Of, Wanted, IsBody
  <2>1. PICK g \in Of(Keys, Wanted) :
            DOMAIN j \subseteq DOMAIN g /\ \A k \in DOMAIN j : j[k] = g[k]
    BY <1>3, LackingShape
  <2>2. \A acl \in Wanted : KeysOf(acl) \subseteq ACLKeys
    BY <1>1 DEF Wanted
  <2>3. IsBody(g)
    BY <1>2, <2>2
  <2>4. QED
    BY <2>1, <2>3 DEF IsBody
<1>4. ASSUME NEW acl \in Lacking(Wanted) \cup {NotJson} PROVE KeysOf(acl) \subseteq ACLKeys
  <2>1. CASE acl = NotJson
    BY <2>1 DEF KeysOf
  <2>2. CASE acl \in Lacking(Wanted)
    <3> HIDE DEF Wanted
    <3>1. PICK g \in Wanted : DOMAIN acl \subseteq DOMAIN g
      BY <2>2, LackingShape
    <3>2. DOMAIN g = ACLKeys
      BY <1>1 DEF Wanted
    <3>3. QED
      BY <3>1, <3>2 DEF KeysOf
  <2>3. QED
    BY <2>1, <2>2
<1>5. Bodies(r) = {NotJson} \cup Of(Keys \cup {Empty}, Acls(Topics))
          \cup Lacking(Of(Keys, Wanted)) \cup Of(Keys, Lacking(Wanted) \cup {NotJson})
  BY DEF Bodies
<1>6. CASE json = NotJson
  BY <1>6 DEF KeysOf
<1>7. CASE IsBody(json)
  BY <1>7 DEF KeysOf
<1> HIDE DEF Of, Wanted, IsBody
<1>8. CASE json \in Of(Keys \cup {Empty}, Acls(Topics))
  <2>1. \A acl \in Acls(Topics) : KeysOf(acl) \subseteq ACLKeys
    BY <1>1
  <2>2. QED
    BY <1>2, <1>7, <1>8, <2>1
<1>9. CASE json \in Of(Keys, Lacking(Wanted) \cup {NotJson})
  BY <1>2, <1>4, <1>7, <1>9
<1>10. QED
  BY <1>3, <1>5, <1>6, <1>7, <1>8, <1>9

-----------------------------------------------------------------------------
(* Messages, and what becomes of them.                                     *)

\* The message of request r with that body, and the request a message is of.
Made(r, json) == RequestMessage(Headers(r), Body(json))
Origin(m) == m.headers["X-Request"]

Message == UNION {{Made(r, json) : json \in Bodies(r)} : r \in Requests}
Payload == {ToJSON(m) : m \in Message}

\* What AsyncCall is given of a message.
Call(headers, url, data) ==
    [EmptyMessage EXCEPT !.headers = headers, !.url = url, !.data = data]

LEMMA HeadersShape ==
    ASSUME NEW r
    PROVE  /\ DOMAIN Headers(r) = {"X-Request"} /\ Headers(r)["X-Request"] = r
           /\ Over(Headers(r), <<>>) = Headers(r)
<1>1. DOMAIN Headers(r) = {"X-Request"} /\ Headers(r)["X-Request"] = r
      /\ Headers(r) = [name \in DOMAIN Headers(r) |-> Headers(r)[name]]
  BY DEF Headers
<1>2. DOMAIN <<>> = {}
  OBVIOUS
<1> HIDE DEF Headers
<1>3. /\ DOMAIN Over(Headers(r), <<>>) = DOMAIN Headers(r)
      /\ \A name \in DOMAIN Headers(r) : Over(Headers(r), <<>>)[name] = Headers(r)[name]
      /\ Over(Headers(r), <<>>)
             = [x \in DOMAIN Over(Headers(r), <<>>) |-> Over(Headers(r), <<>>)[x]]
  BY <1>1, <1>2 DEF Over
<1>4. QED
  BY <1>1, <1>3

LEMMA MadeShape ==
    ASSUME NEW r, NEW json
    PROVE  /\ Made(r, json).headers = Headers(r)
           /\ Made(r, json).topic = Body(json).acl.topic
           /\ Made(r, json).partitionKey = Body(json).partitionKey
           /\ Made(r, json).url = Body(json).url /\ Made(r, json).data = Body(json).data
           /\ Origin(Made(r, json)) = r
           /\ ToJSON(Made(r, json)) = [headers |-> Headers(r), url |-> Body(json).url,
                                       data |-> Body(json).data,
                                       topic |-> Body(json).acl.topic]
           /\ Origin(ToJSON(Made(r, json))) = r
           /\ DOMAIN Made(r, json) = DOMAIN EmptyMessage
  BY HeadersShape DEF Made, RequestMessage, ToJSON, Origin, EmptyMessage

\* A text that does not throw is read back.
LEMMA ReadBack ==
    ASSUME NEW r, NEW url, NEW data, NEW topic, NEW json,
           json \in {[headers |-> Headers(r), url |-> url, data |-> data, topic |-> topic],
                     NotJson},
           ~FromJSON(EmptyMessage, json).throws
    PROVE  FromJSON(EmptyMessage, json).self = Call(Headers(r), url, data)
<1> DEFINE read == ReadUpTo(json, <<"url", "data">>)
           strings == Filled(EmptyMessage, json, <<"url", "data">>)
<1>1. json # NotJson /\ ~Throws(json, MessageKeys)
  <2>1. ~Throws(json, MessageKeys)
    BY DEF FromJSON
  <2>2. Throws(NotJson, MessageKeys)
    BY ReadThree DEF MessageKeys, KeysOf
  <2>3. QED
    BY <2>1, <2>2
<1>2. /\ json.headers = Headers(r) /\ json.url = url /\ json.data = data
      /\ KeysOf(json) = {"headers", "url", "data", "topic"}
  BY <1>1 DEF KeysOf
<1>3. FromJSON(EmptyMessage, json).self = [strings EXCEPT !.headers = Over(Headers(r), @)]
  BY <1>1, <1>2 DEF FromJSON
<1>4. read = {"url", "data"}
  <2> DEFINE keys == <<"url", "data">>
  <2>1. DOMAIN keys = {1, 2} /\ keys[1] = "url" /\ keys[2] = "data"
        /\ 1..1 = {1} /\ 1..2 = {1, 2}
    OBVIOUS
  <2> HIDE DEF keys
  <2>2. read = {keys[i] : i \in {j \in DOMAIN keys : \A h \in 1..j : keys[h] \in KeysOf(json)}}
    BY DEF ReadUpTo, keys
  <2>3. QED
    BY <1>2, <2>1, <2>2
<1>5. /\ strings = [f \in DOMAIN strings |-> strings[f]]
      /\ DOMAIN strings = DOMAIN EmptyMessage
      /\ strings.url = url /\ strings.data = data
      /\ \A f \in DOMAIN EmptyMessage \ {"url", "data"} : strings[f] = EmptyMessage[f]
  <2>1. strings = Over([f \in read |-> json[f]], EmptyMessage)
    BY DEF Filled
  <2> HIDE DEF read, strings
  <2>2. QED
    BY <1>2, <1>4, <2>1 DEF Over, EmptyMessage
<1> HIDE DEF strings
<1>6. strings.headers = <<>>
  BY <1>5 DEF EmptyMessage
<1>7. [strings EXCEPT !.headers = Headers(r)] = Call(Headers(r), url, data)
  BY <1>5 DEF Call, EmptyMessage
<1>8. QED
  BY <1>3, <1>5, <1>6, <1>7, HeadersShape

-----------------------------------------------------------------------------
(* Types.                                                                  *)

Offsets == Nat \cup {None}
Given == {Call(p.headers, p.url, p.data) : p \in Payload}

Types ==
    /\ hash \in [Keys -> Hashes] /\ crashed \in BOOLEAN /\ crashes \in Nat
    /\ received \in Seq(Requests)
    /\ \A i, j \in DOMAIN received : received[i] = received[j] => i = j
    /\ asked = [r \in Requests |-> asked[r]] /\ \A r \in Requests : asked[r] \in Bodies(r)
    /\ answers \in [Requests -> Seq([errno: {0, -1}])]
    /\ taskchan \in Seq(Message) /\ kafka \in [Logs -> Seq(Payload)]
    /\ handed \in Seq(Given)
    /\ position \in [Logs -> Offsets] /\ committed \in [Logs -> Offsets]
    /\ assigns \in 0..MaxAssigns

\* Where the consumer is, and what it has passed, lies in the logs.
Within ==
    /\ \A l \in Logs : /\ position[l] # None => position[l] <= Len(kafka[l])
                       /\ committed[l] # None => committed[l] <= Len(kafka[l])
                       /\ position[l] # None => l \in Subscribed
                       /\ position[l] # None /\ committed[l] # None
                            => committed[l] <= position[l]
    /\ skipped \subseteq UNION {{l} \X (1..Len(kafka[l])) : l \in Logs}

(* What the actions do.                                                    *)

Refused(r) == CallResp(-1) \in Range(answers[r])

LEMMA ReceiveEffect ==
    ASSUME Types, NEW r \in Requests, Receive(r)
    PROVE  /\ r \notin Range(received) /\ received' = Append(received, r)
           /\ UNCHANGED <<hash, kafka, handed, crashed, crashes, groupVars>>
           /\ \E json \in Bodies(r) :
                /\ asked' = [asked EXCEPT ![r] = json]
                /\ \E answer \in Seq([errno: {0, -1}]) : answers' = [answers EXCEPT ![r] = answer]
                /\ \/ UNCHANGED taskchan
                   \/ /\ taskchan' = Append(taskchan, Made(r, json))
                      /\ Made(r, json) \in Message
                      /\ Made(r, json).topic # Empty => ~Refused(r)'
<1>1. PICK json \in Bodies(r), full \in BOOLEAN :
          /\ asked' = [asked EXCEPT ![r] = json]
          /\ taskchan' = IF full THEN taskchan ELSE Append(taskchan, Made(r, json))
          /\ answers' = [answers EXCEPT ![r] =
                 (IF Parsed(json).throws THEN <<CallResp(-1)>> ELSE <<>>)
                     \o <<CallResp(IF full THEN -1 ELSE 0)>>]
  BY DEF Receive, Made, Body, Parsed
<1> DEFINE first == IF Parsed(json).throws THEN <<CallResp(-1)>> ELSE <<>>
           second == <<CallResp(IF full THEN -1 ELSE 0)>>
<1>2. first \in Seq([errno: {0, -1}]) /\ second \in Seq([errno: {0, -1}])
  <2>1. \A code \in {0, -1} : CallResp(code) \in [errno: {0, -1}]
    BY DEF CallResp
  <2>2. \A x \in [errno: {0, -1}] : <<x>> \in Seq([errno: {0, -1}])
    OBVIOUS
  <2>3. <<>> \in Seq([errno: {0, -1}])
    OBVIOUS
  <2>4. QED
    BY <2>1, <2>2, <2>3
<1>3. first \o second \in Seq([errno: {0, -1}])
  BY <1>2, ConcatProperties
<1>4. Made(r, json) \in Message
  BY DEF Message
<1>5. ASSUME ~full, Made(r, json).topic # Empty PROVE ~Refused(r)'
  <2>1. ~Parsed(json).throws
    BY <1>5, MadeShape, ParsedBody
  <2>2. answers'[r] = first \o second
    BY <1>1 DEF Types
  <2>3. first = <<>> /\ second = <<CallResp(0)>>
    BY <1>5, <2>1
  <2>4. answers'[r] = <<CallResp(0)>>
    BY <1>2, <2>2, <2>3, ConcatEmptySeq
  <2>5. Range(answers'[r]) = {CallResp(0)}
    BY <2>4 DEF Range
  <2>6. QED
    BY <2>5 DEF Refused, CallResp
<1> HIDE DEF first, second
<1>6. answers' = [answers EXCEPT ![r] = first \o second]
  BY <1>1 DEF first, second
<1>7. taskchan' = taskchan \/ (~full /\ taskchan' = Append(taskchan, Made(r, json)))
  BY <1>1
<1>8. QED
  BY <1>1, <1>3, <1>4, <1>5, <1>6, <1>7 DEF Receive

LEMMA PushEffect ==
    ASSUME Types, Push
    PROVE  LET m == Head(taskchan) IN
           /\ taskchan # <<>> /\ m \in Message /\ taskchan' = Tail(taskchan)
           /\ taskchan' \in Seq(Message)
           /\ UNCHANGED <<hash, handed, requestVars, groupVars>>
           /\ UNCHANGED <<crashed, crashes>> \/ Crash
           /\ \/ UNCHANGED kafka
              \/ \E p \in Int :
                    /\ m.topic # Empty /\ <<m.topic, p>> \in Logs
                    /\ kafka' = [kafka EXCEPT ![<<m.topic, p>>] = Append(@, ToJSON(m))]
                    /\ \/ p \in CalcPartition(PartitionsOf(m.topic), m.partitionKey)
                       \/ AnyPartition \in CalcPartition(PartitionsOf(m.topic), m.partitionKey)
<1> DEFINE m == Head(taskchan)
           results == CalcPartition(PartitionsOf(m.topic), m.partitionKey)
<1>1. /\ taskchan # <<>> /\ taskchan' = Tail(taskchan)
      /\ UNCHANGED <<hash, handed, requestVars, groupVars>>
      /\ \/ UNCHANGED <<kafka, crashed, crashes>>
         \/ Crash /\ UNCHANGED kafka
         \/ m.topic # Empty /\ \E p \in results : MayProduce(m.topic, p, ToJSON(m))
  BY DEF Push
<1>2. m \in Message /\ taskchan' \in Seq(Message)
  BY <1>1, HeadTailProperties DEF Types
<1>3. ASSUME m.topic # Empty, NEW p \in results, MayProduce(m.topic, p, ToJSON(m))
      PROVE  /\ UNCHANGED <<crashed, crashes>> \/ Crash
             /\ \/ UNCHANGED kafka
                \/ \E q \in Int :
                    /\ <<m.topic, q>> \in Logs
                    /\ kafka' = [kafka EXCEPT ![<<m.topic, q>>] = Append(@, ToJSON(m))]
                    /\ q \in results \/ AnyPartition \in results
  <2> HIDE DEF m, results
  <2>1. CASE UNCHANGED kafka
    BY <1>3, <2>1 DEF MayProduce
  <2>2. ASSUME NEW l \in Logs, l[1] = m.topic, p \in {AnyPartition, l[2]},
               kafka' = [kafka EXCEPT ![l] = Append(@, ToJSON(m))],
               UNCHANGED <<crashed, crashes>>
        PROVE  /\ UNCHANGED <<crashed, crashes>>
               /\ \E x \in Int :
                    /\ <<m.topic, x>> \in Logs
                    /\ kafka' = [kafka EXCEPT ![<<m.topic, x>>] = Append(@, ToJSON(m))]
                    /\ x \in results \/ AnyPartition \in results
    <3>1. l[2] \in Int /\ l = <<m.topic, l[2]>>
      BY <2>2 DEF Logs
    <3>2. QED
      BY <1>3, <2>2, <3>1
  <2>3. QED
    BY <1>3, <2>1, <2>2 DEF MayProduce
<1>4. QED
  BY <1>1, <1>2, <1>3

LEMMA ConsumeEffect ==
    ASSUME Types, NEW l \in Subscribed, ConsumeLoop(l)
    PROVE  LET n == position[l] + 1
               p == kafka[l][n] IN
           /\ l \in Logs /\ position[l] \in Nat
           /\ n \in DOMAIN kafka[l] /\ p \in Payload
           /\ position' = [position EXCEPT ![l] = n]
           /\ UNCHANGED <<hash, taskchan, kafka, assigns, skipped, requestVars>>
           /\ \/ Crash /\ committed' \in {committed, position'} /\ UNCHANGED handed
              \/ /\ handed' = Append(handed, Call(p.headers, p.url, p.data))
                 /\ Call(p.headers, p.url, p.data) \in Given
                 /\ UNCHANGED <<committed, crashed, crashes>>
<1> DEFINE n == position[l] + 1
           p == kafka[l][n]
<1>1. l \in Logs /\ position[l] # None /\ position[l] \in Nat /\ position[l] < Len(kafka[l])
      /\ kafka[l] \in Seq(Payload)
  BY DEF ConsumeLoop, Types, Subscribed, Offsets
<1>2. n \in DOMAIN kafka[l] /\ p \in Payload /\ position' = [position EXCEPT ![l] = n]
  BY <1>1, ElementOfSeq DEF ConsumeLoop
<1>3. Call(p.headers, p.url, p.data) \in Given
  BY <1>2 DEF Given
<1>4. PICK m \in Message : p = ToJSON(m)
  BY <1>2 DEF Payload
<1>5. PICK r \in Requests, json \in UNION {Bodies(q) : q \in Requests} : m = Made(r, json)
  BY DEF Message
<1>6. p = [headers |-> Headers(r), url |-> Body(json).url, data |-> Body(json).data,
           topic |-> Body(json).acl.topic]
  BY <1>4, <1>5, MadeShape
<1>7. PICK text \in {p, NotJson} :
          LET reqmsg == FromJSON(EmptyMessage, text) IN
          IF reqmsg.throws
          THEN Crash /\ committed' \in {committed, position'} /\ UNCHANGED handed
          ELSE handed' = Append(handed, reqmsg.self) /\ UNCHANGED <<committed, crashed, crashes>>
  BY DEF ConsumeLoop
<1>8. ~FromJSON(EmptyMessage, text).throws =>
          FromJSON(EmptyMessage, text).self = Call(p.headers, p.url, p.data)
  BY <1>6, ReadBack
<1>9. UNCHANGED <<hash, taskchan, kafka, assigns, skipped, requestVars>>
  BY DEF ConsumeLoop
<1>10. QED
  BY <1>1, <1>2, <1>3, <1>7, <1>8, <1>9

\* Logs only grow.
LEMMA KafkaGrows ==
    ASSUME Types, Push
    PROVE  /\ kafka' \in [Logs -> Seq(Payload)]
           /\ \A l \in Logs : /\ DOMAIN kafka[l] \subseteq DOMAIN kafka'[l]
                              /\ Len(kafka[l]) \in Nat /\ Len(kafka'[l]) \in Nat
                              /\ Len(kafka[l]) <= Len(kafka'[l])
                              /\ \A n \in DOMAIN kafka[l] : kafka'[l][n] = kafka[l][n]
<1>1. kafka \in [Logs -> Seq(Payload)]
  BY DEF Types
<1>2. CASE UNCHANGED kafka
  BY <1>1, <1>2
<1>3. ToJSON(Head(taskchan)) \in Payload
  BY PushEffect DEF Payload
<1>4. CASE ~UNCHANGED kafka
  <2> DEFINE p == ToJSON(Head(taskchan))
  <2>1. PICK l0 \in Logs : kafka' = [kafka EXCEPT ![l0] = Append(@, p)]
    BY <1>4, PushEffect
  <2> HIDE DEF p
  <2>2. /\ kafka'[l0] = Append(kafka[l0], p) /\ kafka[l0] \in Seq(Payload) /\ p \in Payload
        /\ \A l \in Logs \ {l0} : kafka'[l] = kafka[l]
    BY <1>1, <1>3, <2>1 DEF p
  <2>3. kafka'[l0] \in Seq(Payload)
    BY <2>2, AppendProperties
  <2>4. kafka' \in [Logs -> Seq(Payload)]
    BY <1>1, <2>1, <2>3
  <2>5. /\ DOMAIN kafka[l0] \subseteq DOMAIN kafka'[l0] /\ Len(kafka'[l0]) = Len(kafka[l0]) + 1
        /\ \A n \in DOMAIN kafka[l0] : kafka'[l0][n] = kafka[l0][n]
    BY <2>2
  <2>6. \A l \in Logs : Len(kafka[l]) \in Nat /\ Len(kafka'[l]) \in Nat
    BY <1>1, <2>4
  <2>7. ASSUME NEW l \in Logs
        PROVE  /\ DOMAIN kafka[l] \subseteq DOMAIN kafka'[l] /\ Len(kafka[l]) <= Len(kafka'[l])
               /\ \A n \in DOMAIN kafka[l] : kafka'[l][n] = kafka[l][n]
    <3>1. CASE l = l0
      BY <2>5, <2>6, <3>1
    <3>2. CASE l # l0
      <4>1. kafka'[l] = kafka[l]
        BY <2>2, <3>2
      <4>2. QED
        BY <2>6, <4>1
    <3>3. QED
      BY <3>1, <3>2
  <2>8. QED
    BY <2>4, <2>6, <2>7
<1>5. QED
  BY <1>2, <1>4

LEMMA TypesStep == Types /\ [Next]_vars => Types'
<1> SUFFICES ASSUME Types, [Next]_vars PROVE Types'
  OBVIOUS
<1>0. /\ crashed \in BOOLEAN /\ crashes \in Nat /\ taskchan \in Seq(Message)
      /\ handed \in Seq(Given) /\ position \in [Logs -> Offsets]
      /\ committed \in [Logs -> Offsets]
  BY DEF Types
<1>1. ASSUME NEW r \in Requests, Receive(r) PROVE Types'
  <2>1. PICK json \in Bodies(r) :
            /\ asked' = [asked EXCEPT ![r] = json]
            /\ \E answer \in Seq([errno: {0, -1}]) : answers' = [answers EXCEPT ![r] = answer]
            /\ \/ UNCHANGED taskchan
               \/ taskchan' = Append(taskchan, Made(r, json)) /\ Made(r, json) \in Message
    BY <1>1, ReceiveEffect
  <2>2. /\ asked' = [q \in Requests |-> asked'[q]] /\ \A q \in Requests : asked'[q] \in Bodies(q)
    <3>1. asked = [q \in Requests |-> asked[q]]
      BY DEF Types
    <3>2. DOMAIN asked = Requests
      BY <3>1
    <3>3. asked' = [q \in Requests |-> asked'[q]]
      BY <2>1, <3>2
    <3>4. \A q \in Requests : asked'[q] = IF q = r THEN json ELSE asked[q]
      BY <2>1, <3>2
    <3>5. QED
      BY <2>1, <3>3, <3>4 DEF Types
  <2>3. answers' \in [Requests -> Seq([errno: {0, -1}])]
    BY <2>1 DEF Types
  <2>4. taskchan' \in Seq(Message)
    <3>1. \/ UNCHANGED taskchan
          \/ taskchan' = Append(taskchan, Made(r, json)) /\ Made(r, json) \in Message
      BY <2>1
    <3>2. QED
      BY <1>0, <3>1, AppendProperties
  <2>5. /\ received' \in Seq(Requests)
        /\ \A i, j \in DOMAIN received' : received'[i] = received'[j] => i = j
    <3>1. r \notin Range(received) /\ received' = Append(received, r)
      BY <1>1, ReceiveEffect
    <3>2. \A i \in DOMAIN received : received[i] # r
      BY <3>1 DEF Range
    <3>3. received \in Seq(Requests)
      BY DEF Types
    <3>4. /\ received' \in Seq(Requests) /\ DOMAIN received' = DOMAIN received \cup {Len(received) + 1}
          /\ received'[Len(received) + 1] = r /\ \A i \in DOMAIN received : received'[i] = received[i]
      BY <3>1, <3>3
    <3>5. QED
      BY <3>2, <3>4 DEF Types
  <2>6. UNCHANGED <<hash, kafka, handed, crashed, crashes, position, committed, assigns>>
    BY <1>1, ReceiveEffect DEF groupVars
  <2>7. QED
    BY <2>2, <2>3, <2>4, <2>5, <2>6 DEF Types
<1>2. CASE Push
  <2>1. crashed' \in BOOLEAN /\ crashes' \in Nat /\ taskchan' \in Seq(Message)
    <3>1. taskchan' \in Seq(Message) /\ (UNCHANGED <<crashed, crashes>> \/ Crash)
      BY <1>2, PushEffect
    <3>2. CASE Crash
      BY <1>0, <3>1, <3>2 DEF Crash
    <3>3. CASE UNCHANGED <<crashed, crashes>>
      BY <1>0, <3>1, <3>3
    <3>4. QED
      BY <3>1, <3>2, <3>3
  <2>2. UNCHANGED <<hash, handed, answers, asked, received, position, committed, assigns>>
    BY <1>2, PushEffect DEF requestVars, groupVars
  <2>3. QED
    BY <1>2, <2>1, <2>2, KafkaGrows DEF Types
<1>3. CASE Assign
  <2>1. Resumed \in [Logs -> Offsets]
    BY DEF Resumed, Types, Offsets
  <2>2. assigns' \in 0..MaxAssigns
    BY <1>3, DataPathAssumption DEF Assign, Types
  <2>3. QED
    BY <1>3, <2>1, <2>2 DEF Assign, Types, requestVars
<1>4. CASE Unassign
  BY <1>4 DEF Unassign, Types, requestVars, Offsets
<1>5. CASE Commit
  BY <1>5 DEF Commit, Types, requestVars
<1>6. ASSUME NEW l \in Subscribed, ConsumeLoop(l) PROVE Types'
  <2> DEFINE p == kafka[l][position[l] + 1]
  <2>1. /\ position[l] \in Nat /\ position' = [position EXCEPT ![l] = position[l] + 1]
        /\ UNCHANGED <<hash, taskchan, kafka, assigns, answers, asked, received>>
        /\ Crash \/ UNCHANGED <<crashed, crashes>>
        /\ committed' \in {committed, position'}
        /\ \/ UNCHANGED handed
           \/ /\ handed' = Append(handed, Call(p.headers, p.url, p.data))
              /\ Call(p.headers, p.url, p.data) \in Given
    BY <1>6, ConsumeEffect DEF requestVars
  <2> HIDE DEF p
  <2>2. position' \in [Logs -> Offsets]
    <3>1. position[l] + 1 \in Offsets
      BY <2>1 DEF Offsets
    <3>2. QED
      BY <1>0, <2>1, <3>1
  <2>3. handed' \in Seq(Given)
    <3> DEFINE c == Call(p.headers, p.url, p.data)
    <3>1. handed \in Seq(Given)
      BY <1>0
    <3>2. UNCHANGED handed \/ (handed' = Append(handed, c) /\ c \in Given)
      BY <2>1
    <3> HIDE DEF c
    <3>3. c \in Given => Append(handed, c) \in Seq(Given)
      BY <3>1, AppendProperties
    <3>4. QED
      BY <3>1, <3>2, <3>3
  <2>4. crashed' \in BOOLEAN /\ crashes' \in Nat
    <3>1. CASE Crash
      BY <1>0, <3>1 DEF Crash
    <3>2. CASE UNCHANGED <<crashed, crashes>>
      BY <1>0, <3>2
    <3>3. QED
      BY <2>1, <3>1, <3>2
  <2>5. committed' \in [Logs -> Offsets]
    BY <1>0, <2>1, <2>2
  <2>6. UNCHANGED <<hash, taskchan, kafka, assigns, answers, asked, received>>
    BY <2>1
  <2>7. QED
    BY <2>2, <2>3, <2>4, <2>5, <2>6 DEF Types
<1>7. CASE Restart
  <2>1. crashed' \in BOOLEAN /\ crashes' \in Nat
    BY <1>0, <1>7 DEF Restart
  <2>2. taskchan' \in Seq(Message) /\ position' \in [Logs -> Offsets]
    BY <1>7 DEF Restart, Offsets
  <2>3. UNCHANGED <<hash, kafka, handed, committed, assigns, answers, asked, received>>
    BY <1>7 DEF Restart, requestVars
  <2>4. QED
    BY <2>1, <2>2, <2>3 DEF Types
<1>8. CASE UNCHANGED vars
  BY <1>8 DEF vars, requestVars, groupVars, Types
<1>9. QED
  BY <1>1, <1>2, <1>3, <1>4, <1>5, <1>6, <1>7, <1>8 DEF Next

LEMMA WithinStep == Types /\ Within /\ [Next]_vars => Within'
<1> SUFFICES ASSUME Types, Within, [Next]_vars PROVE Within'
  OBVIOUS
<1>0. /\ kafka \in [Logs -> Seq(Payload)] /\ \A l \in Logs : Len(kafka[l]) \in Nat
      /\ position \in [Logs -> Offsets] /\ committed \in [Logs -> Offsets]
      /\ None \notin Nat /\ Subscribed \subseteq Logs
  BY DataPathAssumption DEF Types, Subscribed
<1>1. ASSUME UNCHANGED <<position, committed, skipped>>,
             \A l \in Logs : Len(kafka'[l]) \in Nat /\ Len(kafka[l]) <= Len(kafka'[l])
      PROVE  Within'
  <2>1. ASSUME NEW l \in Logs
        PROVE  /\ position[l] # None => position[l] <= Len(kafka'[l])
               /\ committed[l] # None => committed[l] <= Len(kafka'[l])
               /\ 1..Len(kafka[l]) \subseteq 1..Len(kafka'[l])
    BY <1>0, <1>1, <2>1 DEF Within, Offsets
  <2>2. skipped \subseteq UNION {{l} \X (1..Len(kafka'[l])) : l \in Logs}
    <3> SUFFICES ASSUME NEW x \in skipped
                 PROVE  \E l \in Logs : x \in {l} \X (1..Len(kafka'[l]))
      OBVIOUS
    <3>1. PICK l \in Logs : x \in {l} \X (1..Len(kafka[l]))
      BY DEF Within
    <3>2. QED
      BY <2>1, <3>1
  <2>3. QED
    BY <1>1, <2>1, <2>2 DEF Within, Subscribed
<1>2. ASSUME NEW r \in Requests, Receive(r) PROVE Within'
  BY <1>0, <1>1, <1>2, ReceiveEffect DEF groupVars
<1>3. CASE Push
  BY <1>0, <1>1, <1>3, PushEffect, KafkaGrows DEF groupVars
<1>4. CASE Assign
  <2>1. /\ position' = Resumed /\ UNCHANGED <<kafka, committed>>
        /\ skipped' = skipped \cup UNION {{l} \X (1..Len(kafka[l])) :
                                       l \in {x \in Subscribed : committed[x] = None}}
    BY <1>4 DEF Assign
  <2>2. ASSUME NEW l \in Logs
        PROVE  /\ position'[l] # None => position'[l] <= Len(kafka[l])
               /\ position'[l] # None => l \in Subscribed
               /\ position'[l] # None /\ committed[l] # None => committed[l] <= position'[l]
    BY <1>0, <2>1 DEF Resumed, Within, Offsets
  <2>3. skipped' \subseteq UNION {{l} \X (1..Len(kafka[l])) : l \in Logs}
    BY <1>0, <2>1 DEF Within
  <2>4. QED
    BY <2>1, <2>2, <2>3 DEF Within, Subscribed
<1>5. CASE Unassign \/ Restart
  <2>1. UNCHANGED <<kafka, committed, skipped>> /\ position' = [l \in Logs |-> None]
    BY <1>5 DEF Unassign, Restart
  <2>2. \A l \in Logs : position'[l] = None
    BY <2>1
  <2>3. QED
    BY <2>1, <2>2 DEF Within
<1>6. CASE Commit
  <2>1. UNCHANGED <<kafka, position, skipped>> /\ committed' = position
    BY <1>6 DEF Commit
  <2>2. \A l \in Logs : position[l] # None => position[l] <= position[l]
    BY <1>0 DEF Offsets
  <2>3. QED
    BY <2>1, <2>2 DEF Within, Subscribed
<1>7. ASSUME NEW l \in Subscribed, ConsumeLoop(l) PROVE Within'
  <2>1. /\ position[l] \in Nat /\ position' = [position EXCEPT ![l] = position[l] + 1]
        /\ position[l] + 1 \in DOMAIN kafka[l]
        /\ UNCHANGED <<kafka, skipped>> /\ committed' \in {committed, position'}
    BY <1>7, ConsumeEffect
  <2>2. /\ position'[l] = position[l] + 1 /\ position'[l] \in Nat
        /\ position'[l] <= Len(kafka[l])
        /\ \A k \in Logs \ {l} : position'[k] = position[k]
    BY <1>0, <2>1
  <2>3. ASSUME NEW k \in Logs
        PROVE  /\ position'[k] # None => position'[k] <= Len(kafka[k])
               /\ position'[k] # None => k \in Subscribed
               /\ position'[k] # None /\ committed[k] # None => committed[k] <= position'[k]
               /\ position'[k] # None => position'[k] <= position'[k]
    <3>1. CASE k = l
      BY <1>0, <2>1, <2>2, <3>1 DEF Within, Offsets
    <3>2. CASE k # l
      BY <1>0, <2>2, <3>2 DEF Within, Offsets
    <3>3. QED
      BY <3>1, <3>2
  <2>4. committed' = committed \/ committed' = position'
    BY <2>1
  <2>5. ASSUME NEW k \in Logs
        PROVE  /\ committed'[k] # None => committed'[k] <= Len(kafka[k])
               /\ position'[k] # None /\ committed'[k] # None => committed'[k] <= position'[k]
    <3>1. CASE committed' = committed
      BY <2>3, <3>1 DEF Within
    <3>2. CASE committed' = position'
      BY <2>3, <3>2
    <3>3. QED
      BY <2>4, <3>1, <3>2
  <2>6. kafka' = kafka /\ skipped' = skipped
    BY <2>1
  <2>7. skipped' \subseteq UNION {{k} \X (1..Len(kafka'[k])) : k \in Logs}
    BY <2>6 DEF Within
  <2>8. QED
    BY <2>3, <2>5, <2>6, <2>7 DEF Within
<1>8. CASE UNCHANGED vars
  BY <1>0, <1>1, <1>8 DEF vars, groupVars
<1>9. QED
  BY <1>2, <1>3, <1>4, <1>5, <1>6, <1>7, <1>8 DEF Next

LEMMA InitTypes == Init => Types /\ Within
<1> SUFFICES ASSUME Init PROVE Types /\ Within
  OBVIOUS
<1>1. \A r \in Requests : NotJson \in Bodies(r)
  BY DEF Bodies
<1>2. Types
  <2>1. /\ hash \in [Keys -> Hashes] /\ crashed \in BOOLEAN /\ crashes \in Nat
        /\ taskchan \in Seq(Message) /\ handed \in Seq(Given)
        /\ assigns \in 0..MaxAssigns
    <3>1. hash \in [Keys -> Hashes] /\ crashed \in BOOLEAN
      BY DEF Init
    <3>2. crashes \in Nat /\ assigns \in 0..MaxAssigns
      BY DataPathAssumption DEF Init
    <3>3. taskchan \in Seq(Message) /\ handed \in Seq(Given)
      BY DEF Init
    <3>4. QED
      BY <3>1, <3>2, <3>3
  <2>2. /\ received \in Seq(Requests)
        /\ \A i, j \in DOMAIN received : received[i] = received[j] => i = j
    BY DEF Init
  <2>3. asked = [r \in Requests |-> asked[r]] /\ \A r \in Requests : asked[r] \in Bodies(r)
    BY <1>1 DEF Init
  <2>4. answers \in [Requests -> Seq([errno: {0, -1}])]
    <3>1. <<>> \in Seq([errno: {0, -1}])
      OBVIOUS
    <3>2. QED
      BY <3>1 DEF Init
  <2>5. kafka \in [Logs -> Seq(Payload)]
    <3>1. <<>> \in Seq(Payload)
      OBVIOUS
    <3>2. QED
      BY <3>1 DEF Init
  <2>6. position \in [Logs -> Offsets] /\ committed \in [Logs -> Offsets]
    BY DEF Init, Offsets
  <2>7. QED
    BY <2>1, <2>2, <2>3, <2>4, <2>5, <2>6 DEF Types
<1>3. Within
  BY DEF Init, Within
<1>4. QED
  BY <1>2, <1>3

LEMMA TypesInv == Spec => [](Types /\ Within)
  BY InitTypes, TypesStep, WithinStep, PTL DEF Spec

\* Every variable has its type, and no more is consumed than was produced, through
\* crashes and new assignments.
THEOREM TypeCorrect == Spec => []TypeOK
<1>1. Types /\ Within => TypeOK
  <2> SUFFICES ASSUME Types, Within PROVE TypeOK
    OBVIOUS
  <2>1. \A m \in Message \cup Given : DOMAIN m = DOMAIN EmptyMessage
    <3>1. \A m \in Message : DOMAIN m = DOMAIN EmptyMessage
      BY MadeShape DEF Message
    <3>2. \A m \in Given : DOMAIN m = DOMAIN EmptyMessage
      BY DEF Given, Call
    <3>3. QED
      BY <3>1, <3>2
  <2>2. Range(taskchan) \subseteq Message /\ Range(handed) \subseteq Given
        /\ Range(received) \subseteq Requests
    BY DEF Types, Range
  <2>3. ASSUME NEW l \in Logs
        PROVE  /\ position[l] \in 0..Len(kafka[l]) \cup {None}
               /\ committed[l] \in 0..Len(kafka[l]) \cup {None}
    BY DataPathAssumption DEF Types, Within, Offsets
  <2>4. ASSUME NEW x \in skipped PROVE x[2] \in DOMAIN kafka[x[1]]
    BY DEF Types, Within
  <2>5. QED
    BY <2>1, <2>2, <2>3, <2>4 DEF Types, TypeOK
<1>2. QED
  BY <1>1, TypesInv, PTL

-----------------------------------------------------------------------------
(* Where the data comes from.  A message on taskchan or in a log is that   *)
(* of a request that was received, as asked; one that was refused has no   *)
(* topic, and no log has it; a log has those that are routed to it; what   *)
(* is handed on is in a log.                                               *)

MadeOf(r) == Made(r, asked[r])

Queued(m) == /\ Origin(m) \in Range(received) /\ m = MadeOf(Origin(m))
             /\ m.topic # Empty => ~Refused(Origin(m))

RoutedTo(l, m) ==
    LET results == CalcPartition(PartitionsOf(m.topic), m.partitionKey)
    IN  l[2] \in results \/ AnyPartition \in results
Logged(l, p) == /\ Origin(p) \in Range(received) /\ p = ToJSON(MadeOf(Origin(p)))
                /\ ~Refused(Origin(p)) /\ p.topic # Empty /\ l[1] = p.topic
                /\ RoutedTo(l, MadeOf(Origin(p)))

IsCallOf(c, p) == c = Call(p.headers, p.url, p.data)

Provenance ==
    /\ \A i \in DOMAIN taskchan : Queued(taskchan[i])
    /\ \A l \in Logs : \A n \in DOMAIN kafka[l] : Logged(l, kafka[l][n])
    /\ \A i \in DOMAIN handed :
           \E l \in Logs : \E n \in DOMAIN kafka[l] : IsCallOf(handed[i], kafka[l][n])

\* What was received stays as it was asked and answered.
LEMMA ReceivedKept ==
    ASSUME Types, NEW r \in Requests, Receive(r)
    PROVE  /\ received' = Append(received, r) /\ r \notin Range(received)
           /\ Range(received') = Range(received) \cup {r}
           /\ \A q \in Range(received) : asked'[q] = asked[q] /\ answers'[q] = answers[q]
<1>1. /\ r \notin Range(received) /\ received' = Append(received, r)
      /\ \E json : asked' = [asked EXCEPT ![r] = json]
      /\ \E answer : answers' = [answers EXCEPT ![r] = answer]
  BY ReceiveEffect
<1>2. received \in Seq(Requests) /\ DOMAIN asked = Requests /\ DOMAIN answers = Requests
  BY DEF Types
<1>3. \A q \in Range(received) : asked'[q] = asked[q] /\ answers'[q] = answers[q]
  BY <1>1
<1>4. Range(received') = Range(received) \cup {r}
  <2>1. /\ DOMAIN received' = DOMAIN received \cup {Len(received) + 1}
        /\ received'[Len(received) + 1] = r
        /\ \A i \in DOMAIN received : received'[i] = received[i]
    BY <1>1, <1>2
  <2>2. QED
    BY <2>1 DEF Range
<1>5. QED
  BY <1>1, <1>3, <1>4

LEMMA ProvenanceKept ==
    ASSUME UNCHANGED hash, Range(received) \subseteq Range(received'),
           \A q \in Range(received) : asked'[q] = asked[q] /\ answers'[q] = answers[q]
    PROVE  /\ \A m : Queued(m) => Queued(m)'
           /\ \A l, p : Logged(l, p) => Logged(l, p)'
<1>1. ASSUME NEW m, Queued(m) PROVE Queued(m)'
  BY <1>1 DEF Queued, MadeOf, Refused
<1>2. ASSUME NEW l, NEW p, Logged(l, p) PROVE Logged(l, p)'
  <2> DEFINE r == Origin(p)
  <2>1. r \in Range(received) /\ MadeOf(r)' = MadeOf(r) /\ (Refused(r)' <=> Refused(r))
    BY <1>2 DEF Logged, MadeOf, Refused
  <2>2. RoutedTo(l, MadeOf(r))' <=> RoutedTo(l, MadeOf(r))
    BY <2>1 DEF RoutedTo, CalcPartition
  <2>3. QED
    BY <1>2, <2>1, <2>2 DEF Logged
<1>3. QED
  BY <1>1, <1>2

\* The rest of a queue.
LEMMA TailElements ==
    ASSUME NEW S, NEW s \in Seq(S), s # <<>>
    PROVE  /\ 1 \in DOMAIN s /\ Head(s) = s[1] /\ Tail(s) \in Seq(S)
           /\ \A i \in DOMAIN Tail(s) : i \in Int /\ i + 1 \in DOMAIN s /\ Tail(s)[i] = s[i + 1]
  OBVIOUS

LEMMA AppendElements ==
    ASSUME NEW S, NEW s \in Seq(S), NEW x \in S
    PROVE  /\ Append(s, x) \in Seq(S) /\ Len(s) \in Nat /\ Len(s) + 1 \notin DOMAIN s
           /\ DOMAIN Append(s, x) = DOMAIN s \cup {Len(s) + 1}
           /\ \A i \in DOMAIN s : i \in Nat /\ i < Len(s) + 1 /\ Append(s, x)[i] = s[i]
           /\ Append(s, x)[Len(s) + 1] = x
  OBVIOUS

LEMMA ProvenanceStep == Types /\ Provenance /\ [Next]_vars => Provenance'
<1> SUFFICES ASSUME Types, Provenance, [Next]_vars PROVE Provenance'
  OBVIOUS
<1>1. /\ taskchan \in Seq(Message) /\ kafka \in [Logs -> Seq(Payload)]
      /\ handed \in Seq(Given)
  BY DEF Types
<1>2. ASSUME NEW r \in Requests, Receive(r) PROVE Provenance'
  <2>1. UNCHANGED <<hash, kafka, handed>>
    BY <1>2, ReceiveEffect
  <2>2. /\ \A m : Queued(m) => Queued(m)'
        /\ \A l, p : Logged(l, p) => Logged(l, p)'
    BY <1>2, <2>1, ReceivedKept, ProvenanceKept
  <2>3. \A i \in DOMAIN taskchan' : Queued(taskchan[i])'
    <3>1. PICK json \in Bodies(r) :
              /\ asked' = [asked EXCEPT ![r] = json]
              /\ \/ UNCHANGED taskchan
                 \/ /\ taskchan' = Append(taskchan, Made(r, json))
                    /\ Made(r, json) \in Message
                    /\ Made(r, json).topic # Empty => ~Refused(r)'
      BY <1>2, ReceiveEffect
    <3>2. CASE UNCHANGED taskchan
      BY <2>2, <3>2 DEF Provenance
    <3>3. CASE ~UNCHANGED taskchan
      <4>1. asked'[r] = json
        BY <3>1 DEF Types
      <4>2. Origin(Made(r, json)) = r /\ r \in Range(received')
        BY <1>2, MadeShape, ReceivedKept
      <4>3. Queued(Made(r, json))'
        BY <3>1, <3>3, <4>1, <4>2 DEF Queued, MadeOf
      <4>4. /\ DOMAIN taskchan' = DOMAIN taskchan \cup {Len(taskchan) + 1}
            /\ \A i \in DOMAIN taskchan : taskchan'[i] = taskchan[i]
            /\ taskchan'[Len(taskchan) + 1] = Made(r, json)
        <5>1. taskchan' = Append(taskchan, Made(r, json)) /\ Made(r, json) \in Message
          BY <3>1, <3>3
        <5>2. QED
          BY <1>1, <5>1, AppendElements
      <4>5. QED
        BY <2>2, <4>3, <4>4 DEF Provenance
    <3>4. QED
      BY <3>2, <3>3
  <2>4. \A l \in Logs : \A n \in DOMAIN kafka'[l] : Logged(l, kafka[l][n])'
    BY <2>1, <2>2 DEF Provenance
  <2>5. QED
    BY <2>1, <2>3, <2>4 DEF Provenance
<1>3. CASE Push
  <2> DEFINE m == Head(taskchan)
             p == ToJSON(m)
  <2>1. UNCHANGED <<hash, handed, received, asked, answers>>
    BY <1>3, PushEffect DEF requestVars
  <2>2. /\ \A x : Queued(x) => Queued(x)'
        /\ \A l, x : Logged(l, x) => Logged(l, x)'
    BY <2>1, ProvenanceKept
  <2>3. \A i \in DOMAIN taskchan' : Queued(taskchan[i])'
    <3>1. taskchan # <<>> /\ taskchan' = Tail(taskchan)
      BY <1>3, PushEffect
    <3>2. \A i \in DOMAIN taskchan' : i + 1 \in DOMAIN taskchan /\ taskchan'[i] = taskchan[i + 1]
      BY <1>1, <3>1, TailElements
    <3>3. QED
      BY <2>2, <3>2 DEF Provenance
  <2>4. \A l \in Logs : \A n \in DOMAIN kafka'[l] : Logged(l, kafka[l][n])'
    <3>1. CASE UNCHANGED kafka
      BY <2>2, <3>1 DEF Provenance
    <3>2. CASE ~UNCHANGED kafka
      <4>1. PICK q \in Int :
                /\ m.topic # Empty /\ <<m.topic, q>> \in Logs
                /\ kafka' = [kafka EXCEPT ![<<m.topic, q>>] = Append(@, p)]
                /\ \/ q \in CalcPartition(PartitionsOf(m.topic), m.partitionKey)
                   \/ AnyPartition \in CalcPartition(PartitionsOf(m.topic), m.partitionKey)
        BY <1>3, <3>2, PushEffect
      <4>2. taskchan # <<>> /\ m = taskchan[1] /\ 1 \in DOMAIN taskchan /\ p \in Payload
        <5>1. taskchan # <<>> /\ m \in Message
          BY <1>3, PushEffect
        <5>2. QED
          BY <1>1, <5>1, TailElements DEF Payload
      <4>3. Queued(m)
        BY <4>2 DEF Provenance
      <4> HIDE DEF m
      <4>4. /\ m = MadeOf(Origin(m)) /\ p.topic = m.topic /\ Origin(p) = Origin(m)
            /\ Origin(m) \in Range(received) /\ ~Refused(Origin(m))
        BY <4>1, <4>3, MadeShape DEF Queued, MadeOf
      <4>5. RoutedTo(<<m.topic, q>>, m)
        BY <4>1 DEF RoutedTo
      <4>6. Logged(<<m.topic, q>>, p)
        BY <4>1, <4>4, <4>5 DEF Logged
      <4> DEFINE l0 == <<m.topic, q>>
      <4> HIDE DEF p, l0
      <4>7. /\ l0 \in Logs /\ kafka' = [kafka EXCEPT ![l0] = Append(@, p)] /\ Logged(l0, p)
        BY <4>1, <4>6 DEF l0
      <4>8. /\ DOMAIN kafka'[l0] = DOMAIN kafka[l0] \cup {Len(kafka[l0]) + 1}
            /\ \A n \in DOMAIN kafka[l0] : kafka'[l0][n] = kafka[l0][n]
            /\ kafka'[l0][Len(kafka[l0]) + 1] = p
            /\ \A l \in Logs \ {l0} : kafka'[l] = kafka[l]
        <5>1. kafka[l0] \in Seq(Payload) /\ kafka'[l0] = Append(kafka[l0], p)
          BY <1>1, <4>7
        <5>2. QED
          BY <1>1, <4>2, <4>7, <5>1, AppendElements
      <4>9. QED
        BY <2>2, <4>7, <4>8 DEF Provenance
    <3>3. QED
      BY <3>1, <3>2
  <2>5. \A i \in DOMAIN handed :
            \E l \in Logs : \E n \in DOMAIN kafka'[l] : IsCallOf(handed[i], kafka'[l][n])
    BY <1>3, KafkaGrows DEF Provenance
  <2>6. QED
    BY <2>1, <2>3, <2>4, <2>5 DEF Provenance, IsCallOf
<1>4. ASSUME NEW l \in Subscribed, ConsumeLoop(l) PROVE Provenance'
  <2> DEFINE p == kafka[l][position[l] + 1]
  <2>1. /\ l \in Logs /\ position[l] + 1 \in DOMAIN kafka[l]
        /\ UNCHANGED <<hash, taskchan, kafka, received, asked, answers>>
        /\ \/ UNCHANGED handed
           \/ /\ handed' = Append(handed, Call(p.headers, p.url, p.data))
              /\ Call(p.headers, p.url, p.data) \in Given
    BY <1>4, ConsumeEffect DEF requestVars
  <2>2. /\ \A m : Queued(m) => Queued(m)'
        /\ \A k, x : Logged(k, x) => Logged(k, x)'
    BY <2>1, ProvenanceKept
  <2>3. \A i \in DOMAIN handed' :
            \E k \in Logs : \E n \in DOMAIN kafka[k] : IsCallOf(handed'[i], kafka[k][n])
    <3>1. CASE UNCHANGED handed
      BY <3>1 DEF Provenance
    <3>2. CASE ~UNCHANGED handed
      <4>1. /\ DOMAIN handed' = DOMAIN handed \cup {Len(handed) + 1}
            /\ \A i \in DOMAIN handed : handed'[i] = handed[i]
            /\ handed'[Len(handed) + 1] = Call(p.headers, p.url, p.data)
        <5> DEFINE c == Call(p.headers, p.url, p.data)
        <5>1. handed' = Append(handed, c) /\ c \in Given
          BY <2>1, <3>2
        <5> HIDE DEF c
        <5>2. /\ DOMAIN handed' = DOMAIN handed \cup {Len(handed) + 1}
              /\ \A i \in DOMAIN handed : handed'[i] = handed[i]
              /\ handed'[Len(handed) + 1] = c
          BY <1>1, <5>1, AppendElements
        <5>3. QED
          BY <5>2 DEF c
      <4>2. IsCallOf(handed'[Len(handed) + 1], p)
        BY <4>1 DEF IsCallOf
      <4>3. ASSUME NEW i \in DOMAIN handed'
            PROVE  \E k \in Logs : \E n \in DOMAIN kafka[k] : IsCallOf(handed'[i], kafka[k][n])
        <5>1. CASE i \in DOMAIN handed
          BY <4>1, <5>1 DEF Provenance
        <5>2. CASE i = Len(handed) + 1
          BY <2>1, <4>2, <5>2
        <5>3. QED
          BY <4>1, <5>1, <5>2
      <4>4. QED
        BY <4>3
    <3>3. QED
      BY <3>1, <3>2
  <2>4. QED
    BY <2>1, <2>2, <2>3 DEF Provenance, IsCallOf
<1>5. ASSUME UNCHANGED <<hash, kafka, handed, received, asked, answers>>,
             taskchan' \in {taskchan, <<>>}
      PROVE  Provenance'
  <2>1. /\ \A m : Queued(m) => Queued(m)'
        /\ \A k, x : Logged(k, x) => Logged(k, x)'
    BY <1>5, ProvenanceKept
  <2>2. \A i \in DOMAIN taskchan' : Queued(taskchan[i])'
    BY <1>5, <2>1 DEF Provenance
  <2>3. QED
    BY <1>5, <2>1, <2>2 DEF Provenance, IsCallOf
<1>6. CASE Assign \/ Unassign \/ Commit
  BY <1>5, <1>6 DEF Assign, Unassign, Commit, requestVars
<1>7. CASE Restart
  BY <1>5, <1>7 DEF Restart, requestVars
<1>8. CASE UNCHANGED vars
  BY <1>5, <1>8 DEF vars, requestVars
<1>9. QED
  BY <1>2, <1>3, <1>4, <1>6, <1>7, <1>8 DEF Next

LEMMA InitProvenance == Init => Provenance
  BY DEF Init, Provenance

LEMMA ProvenanceInv == Spec => []Provenance
  BY InitProvenance, ProvenanceStep, TypesInv, PTL DEF Spec

LEMMA SentIsLogged ==
    ASSUME Provenance, NEW r, Sent(r)
    PROVE  \E l \in Logs : \E n \in DOMAIN kafka[l] :
               Origin(kafka[l][n]) = r /\ Logged(l, kafka[l][n])
  BY HeadersShape DEF Sent, Provenance, Origin

\* A request that was answered with an error reaches no log, whatever made RpcCallback
\* go wrong, though its catch block goes on to put what was parsed on taskchan.
THEOREM RefusedNeverSentCorrect == Spec => []RefusedNeverSent
<1>1. Provenance => RefusedNeverSent
  BY SentIsLogged DEF RefusedNeverSent, Logged, Refused
<1>2. QED
  BY <1>1, ProvenanceInv, PTL

\* A request that is sent had every field of its body, and a name and a secret in its
\* acl: the topic, without which it is not sent, is read after all of them.
THEOREM OnlyCompleteSentCorrect == Spec => []OnlyCompleteSent
<1>1. Types /\ Provenance => OnlyCompleteSent
  <2> SUFFICES ASSUME Types, Provenance, NEW r \in Requests, Sent(r) PROVE IsComplete(r)
    BY DEF OnlyCompleteSent
  <2>1. MadeOf(r).topic # Empty
    BY SentIsLogged, MadeShape DEF Logged, MadeOf
  <2>2. Body(asked[r]).acl.topic # Empty
    BY <2>1, MadeShape DEF MadeOf
  <2>3. AllKeys \subseteq KeysOf(asked[r]) /\ ACLKeys \subseteq KeysOf(asked[r].acl)
    BY <2>2, ParsedBody
  <2>4. KeysOf(asked[r]) \subseteq AllKeys
    <3>1. asked[r] \in Bodies(r)
      BY DEF Types
    <3>2. QED
      BY <2>3, <3>1, BodyShape DEF AllKeys
  <2>5. QED
    BY <2>3, <2>4 DEF IsComplete, AllKeys, ACLKeys
<1>2. QED
  BY <1>1, ProvenanceInv, TypesInv, PTL

-----------------------------------------------------------------------------
(* What is forgotten.  An iteration of ConsumeLoop passes one message, and *)
(* forgets it only if it crashes; a commit passes none that the position   *)
(* has not, and an assignment none but those it skips.                     *)

IsForgotten(l, n) ==
    /\ n \in Behind(l) /\ <<l, n>> \notin skipped
    /\ \A i \in DOMAIN handed : handed[i].headers # kafka[l][n].headers

\* Apart from those in X, nothing is forgotten that was not.
LEMMA ForgottenStep ==
    ASSUME NEW X, \A l \in Subscribed : \A n :
               IsForgotten(l, n)' /\ <<l, n>> \notin X => IsForgotten(l, n)
    PROVE  Forgotten' \subseteq Forgotten \cup X
<1> SUFFICES ASSUME NEW x \in Forgotten', x \notin X PROVE x \in Forgotten
  OBVIOUS
<1>1. PICK l \in Subscribed : \E n \in Behind(l)' : x = <<l, n>>
  BY DEF Forgotten
<1>2. PICK n \in Behind(l)' : x = <<l, n>>
  BY <1>1
<1>3. IsForgotten(l, n)'
  BY <1>2 DEF Forgotten, IsForgotten
<1>4. IsForgotten(l, n)
  BY <1>2, <1>3
<1>5. x \in UNION {{k} \X Behind(k) : k \in Subscribed}
  BY <1>2, <1>4 DEF IsForgotten
<1>6. QED
  BY <1>2, <1>4, <1>5 DEF Forgotten, IsForgotten

FewForgotten == IsFiniteSet(Forgotten) /\ Cardinality(Forgotten) <= crashes

LEMMA NoneForgotten ==
    ASSUME Types, FewForgotten, Forgotten' \subseteq Forgotten,
           crashes' = crashes \/ crashes' = crashes + 1
    PROVE  FewForgotten'
<1>1. IsFiniteSet(Forgotten') /\ Cardinality(Forgotten') <= Cardinality(Forgotten)
  BY FS_Subset DEF FewForgotten
<1>2. Cardinality(Forgotten) \in Nat /\ Cardinality(Forgotten') \in Nat /\ crashes \in Nat
  BY <1>1, FS_CardinalityType DEF FewForgotten, Types
<1>3. QED
  BY <1>1, <1>2 DEF FewForgotten

LEMMA OneForgotten ==
    ASSUME Types, FewForgotten, NEW x, Forgotten' \subseteq Forgotten \cup {x},
           crashes' = crashes + 1
    PROVE  FewForgotten'
<1>1. IsFiniteSet(Forgotten) /\ Cardinality(Forgotten) \in Nat /\ crashes \in Nat
      /\ Cardinality(Forgotten) <= crashes
  BY FS_CardinalityType DEF FewForgotten, Types
<1>2. /\ IsFiniteSet(Forgotten \cup {x})
      /\ Cardinality(Forgotten \cup {x}) <= Cardinality(Forgotten) + 1
      /\ Cardinality(Forgotten \cup {x}) \in Nat
  BY <1>1, FS_AddElement
<1>3. /\ IsFiniteSet(Forgotten') /\ Cardinality(Forgotten') <= Cardinality(Forgotten \cup {x})
      /\ Cardinality(Forgotten') \in Nat
  BY <1>2, FS_Subset, FS_CardinalityType
<1>4. QED
  BY <1>1, <1>2, <1>3 DEF FewForgotten

LEMMA ForgottenInvStep == Types /\ Within /\ FewForgotten /\ [Next]_vars => FewForgotten'
<1> SUFFICES ASSUME Types, Within, FewForgotten, [Next]_vars PROVE FewForgotten'
  OBVIOUS
<1>0. /\ kafka \in [Logs -> Seq(Payload)] /\ handed \in Seq(Given)
      /\ position \in [Logs -> Offsets] /\ committed \in [Logs -> Offsets]
      /\ None \notin Nat /\ Subscribed \subseteq Logs
  <2>1. None \notin Nat
    BY DataPathAssumption
  <2>2. Subscribed \subseteq Logs
    BY DEF Subscribed
  <2>3. /\ kafka \in [Logs -> Seq(Payload)] /\ handed \in Seq(Given)
        /\ position \in [Logs -> Offsets] /\ committed \in [Logs -> Offsets]
    BY DEF Types
  <2>4. QED
    BY <2>1, <2>2, <2>3
<1>1. ASSUME UNCHANGED <<kafka, position, committed, handed, skipped, crashes>>
      PROVE  FewForgotten'
  BY <1>1 DEF FewForgotten, Forgotten, Behind
<1>2. ASSUME NEW r \in Requests, Receive(r) PROVE FewForgotten'
  <2>1. UNCHANGED <<kafka, position, committed, handed, skipped, crashes>>
    BY <1>2, ReceiveEffect DEF groupVars
  <2>2. QED
    BY <1>1, <2>1
<1>3. CASE Push
  <2>1. UNCHANGED <<handed, position, committed, skipped>>
    BY <1>3, PushEffect DEF groupVars
  <2>2. ASSUME NEW l \in Subscribed, NEW n, IsForgotten(l, n)' PROVE IsForgotten(l, n)
    <3>1. n \in DOMAIN kafka[l] /\ kafka'[l][n] = kafka[l][n]
      <4>1. n \in DOMAIN kafka'[l]
        BY <2>2 DEF IsForgotten, Behind
      <4>2. n \in Nat \ {0}
        BY <1>0, <1>3, <4>1, KafkaGrows
      <4>3. n <= Len(kafka[l])
        BY <1>0, <2>1, <2>2, <4>2 DEF IsForgotten, Behind, Within, Offsets
      <4>4. n \in DOMAIN kafka[l]
        BY <1>0, <4>2, <4>3
      <4>5. QED
        BY <1>0, <1>3, <4>4, KafkaGrows
    <3>2. QED
      BY <2>1, <2>2, <3>1 DEF IsForgotten, Behind
  <2>3. Forgotten' \subseteq Forgotten
    BY <2>2, ForgottenStep
  <2>4. crashes' = crashes \/ crashes' = crashes + 1
    BY <1>3, PushEffect DEF Crash
  <2>5. QED
    BY <2>3, <2>4, NoneForgotten
<1>4. CASE Assign
  <2>1. /\ UNCHANGED <<kafka, handed, committed, crashes>> /\ position' = Resumed
        /\ skipped' = skipped \cup UNION {{l} \X (1..Len(kafka[l])) :
                                       l \in {x \in Subscribed : committed[x] = None}}
    BY <1>4 DEF Assign
  <2>2. ASSUME NEW l \in Subscribed, NEW n, IsForgotten(l, n)' PROVE IsForgotten(l, n)
    <3>1. n \in DOMAIN kafka[l] /\ n \in 1..Len(kafka[l])
      BY <1>0, <2>1, <2>2 DEF IsForgotten, Behind
    <3>2. <<l, n>> \notin skipped' /\ <<l, n>> \notin skipped
      BY <2>1, <2>2 DEF IsForgotten
    <3>3. committed[l] # None
      BY <2>1, <3>1, <3>2
    <3>4. position'[l] = committed[l]
      BY <1>0, <2>1, <3>3 DEF Resumed
    <3>5. n <= committed[l]
      BY <2>1, <2>2, <3>4 DEF IsForgotten, Behind
    <3>6. QED
      BY <2>1, <2>2, <3>1, <3>2, <3>3, <3>5 DEF IsForgotten, Behind
  <2>3. Forgotten' \subseteq Forgotten
    BY <2>2, ForgottenStep
  <2>4. QED
    BY <2>1, <2>3, NoneForgotten
<1>5. CASE Unassign \/ Restart
  <2>1. UNCHANGED <<kafka, handed, committed, crashes, skipped>>
        /\ position' = [l \in Logs |-> None]
    BY <1>5 DEF Unassign, Restart
  <2>2. ASSUME NEW l \in Subscribed, NEW n, IsForgotten(l, n)' PROVE IsForgotten(l, n)
    BY <1>0, <2>1, <2>2 DEF IsForgotten, Behind
  <2>3. Forgotten' \subseteq Forgotten
    BY <2>2, ForgottenStep
  <2>4. QED
    BY <2>1, <2>3, NoneForgotten
<1>6. CASE Commit
  <2>1. UNCHANGED <<kafka, handed, position, crashes, skipped>> /\ committed' = position
    BY <1>6 DEF Commit
  <2>2. ASSUME NEW l \in Subscribed, NEW n, IsForgotten(l, n)' PROVE IsForgotten(l, n)
    BY <1>0, <2>1, <2>2 DEF IsForgotten, Behind
  <2>3. Forgotten' \subseteq Forgotten
    BY <2>2, ForgottenStep
  <2>4. QED
    BY <2>1, <2>3, NoneForgotten
<1>7. ASSUME NEW l \in Subscribed, ConsumeLoop(l) PROVE FewForgotten'
  <2>0. PICK m : m = position[l] + 1
    OBVIOUS
  <2> DEFINE p == kafka[l][m]
  <2>1. /\ l \in Logs /\ position[l] \in Nat /\ m \in DOMAIN kafka[l]
        /\ position' = [position EXCEPT ![l] = m] /\ UNCHANGED <<kafka, skipped>>
        /\ \/ Crash /\ committed' \in {committed, position'} /\ UNCHANGED handed
           \/ /\ handed' = Append(handed, Call(p.headers, p.url, p.data))
              /\ Call(p.headers, p.url, p.data) \in Given
              /\ UNCHANGED <<committed, crashes>>
    BY <1>7, <2>0, ConsumeEffect
  <2>2. /\ position'[l] = m /\ m \in Nat
        /\ \A k \in Logs \ {l} : position'[k] = position[k]
        /\ \A n \in DOMAIN kafka[l] : n <= m /\ n # m => n <= position[l]
    BY <1>0, <2>0, <2>1
  <2>3. \A k \in Logs : committed'[k] \in {committed[k], position'[k]}
    BY <2>1
  <2>4. \A i \in DOMAIN handed : i \in DOMAIN handed' /\ handed'[i] = handed[i]
    <3>1. CASE UNCHANGED handed
      BY <3>1
    <3>2. CASE ~UNCHANGED handed
      <4> DEFINE c == Call(p.headers, p.url, p.data)
      <4>1. handed' = Append(handed, c) /\ c \in Given
        BY <2>1, <3>2
      <4> HIDE DEF c
      <4>2. QED
        BY <1>0, <4>1, AppendElements
    <3>3. QED
      BY <3>1, <3>2
  <2>5. ASSUME NEW k \in Subscribed, NEW n, IsForgotten(k, n)', <<k, n>> # <<l, m>>
        PROVE  IsForgotten(k, n)
    <3>1. n \in DOMAIN kafka[k] /\ <<k, n>> \notin skipped
      BY <2>1, <2>5 DEF IsForgotten, Behind
    <3>2. \A i \in DOMAIN handed : handed[i].headers # kafka[k][n].headers
      BY <2>1, <2>4, <2>5 DEF IsForgotten
    <3>3. n \in Behind(k)
      <4>1. \/ position'[k] # None /\ n <= position'[k]
            \/ committed'[k] # None /\ n <= committed'[k]
        BY <2>5 DEF IsForgotten, Behind
      <4>2. \/ position'[k] # None /\ n <= position'[k]
            \/ committed[k] # None /\ n <= committed[k]
        BY <1>0, <2>3, <4>1
      <4>3. CASE k = l
        BY <1>0, <2>1, <2>2, <2>5, <3>1, <4>2, <4>3 DEF Behind
      <4>4. CASE k # l
        BY <1>0, <2>2, <3>1, <4>2, <4>4 DEF Behind
      <4>5. QED
        BY <4>3, <4>4
    <3>4. QED
      BY <3>1, <3>2, <3>3 DEF IsForgotten
  <2>6. Forgotten' \subseteq Forgotten \cup {<<l, m>>}
    BY <2>5, ForgottenStep
  <2>7. CASE Crash
    BY <2>6, <2>7, OneForgotten DEF Crash
  <2>8. CASE UNCHANGED crashes /\ ~UNCHANGED handed
    <3> DEFINE c == Call(p.headers, p.url, p.data)
    <3>1. handed' = Append(handed, c) /\ c \in Given /\ c.headers = p.headers
      BY <2>1, <2>8 DEF Call, EmptyMessage
    <3> HIDE DEF c
    <3>2. Len(handed) + 1 \in DOMAIN handed' /\ handed'[Len(handed) + 1] = c
      BY <1>0, <3>1, AppendElements
    <3>3. ~IsForgotten(l, m)'
      BY <2>1, <3>1, <3>2 DEF IsForgotten
    <3>4. ASSUME NEW k \in Subscribed, NEW n, IsForgotten(k, n)' PROVE IsForgotten(k, n)
      BY <2>5, <3>3, <3>4
    <3>5. Forgotten' \subseteq Forgotten
      BY <3>4, ForgottenStep
    <3>6. QED
      BY <2>8, <3>5, NoneForgotten
  <2>9. QED
    <3>1. Crash \/ (UNCHANGED crashes /\ handed' = Append(handed, Call(p.headers, p.url, p.data))
                      /\ Call(p.headers, p.url, p.data) \in Given)
      BY <2>1
    <3>2. handed' = Append(handed, Call(p.headers, p.url, p.data)) => handed' # handed
      BY <1>0
    <3>3. QED
      BY <2>7, <2>8, <3>1, <3>2
<1>8. CASE UNCHANGED vars
  BY <1>1, <1>8 DEF vars, groupVars
<1>9. QED
  BY <1>2, <1>3, <1>4, <1>5, <1>6, <1>7, <1>8 DEF Next

\* A crash forgets at most the message that was in hand, though auto-commit does not
\* ask whether it was worked on.
THEOREM OneForgottenPerCrashCorrect == Spec => []OneForgottenPerCrash
<1>1. Init => FewForgotten
  <2> SUFFICES ASSUME Init PROVE FewForgotten
    OBVIOUS
  <2>1. \A l \in Subscribed : Behind(l) = {}
    BY DEF Init, Behind, Subscribed
  <2>2. Forgotten = {}
    BY <2>1 DEF Forgotten
  <2>3. QED
    BY <2>2, FS_EmptySet DEF FewForgotten, Init
<1>2. FewForgotten => OneForgottenPerCrash
  BY DEF FewForgotten, OneForgottenPerCrash
<1>3. QED
  BY <1>1, <1>2, ForgottenInvStep, TypesInv, PTL DEF Spec

-----------------------------------------------------------------------------
(* Order.  Requests stand on taskchan, and in each log, in the order they  *)
(* were received, each in one place; what is in a log came before what is  *)
(* on taskchan.                                                            *)

Before(q, r) == \E i, j \in DOMAIN received : i < j /\ received[i] = q /\ received[j] = r

Ordered ==
    /\ \A i, j \in DOMAIN taskchan :
           i < j => Before(Origin(taskchan[i]), Origin(taskchan[j]))
    /\ \A l \in Logs : \A n \in DOMAIN kafka[l] : \A i \in DOMAIN taskchan :
           Before(Origin(kafka[l][n]), Origin(taskchan[i]))
    /\ \A l \in Logs : \A m, n \in DOMAIN kafka[l] :
           m < n => Before(Origin(kafka[l][m]), Origin(kafka[l][n]))
    /\ \A k, l \in Logs : \A m \in DOMAIN kafka[k] : \A n \in DOMAIN kafka[l] :
           Origin(kafka[k][m]) = Origin(kafka[l][n]) => k = l /\ m = n

LEMMA BeforeIsOrder ==
    ASSUME Types, NEW q, NEW r, Before(q, r)
    PROVE  q # r /\ ~Before(r, q)
<1>1. /\ received \in Seq(Requests)
      /\ \A i, j \in DOMAIN received : received[i] = received[j] => i = j
  BY DEF Types
<1>2. \A i, j \in DOMAIN received : i < j => ~(j < i) /\ i # j
  BY <1>1
<1>3. QED
  BY <1>1, <1>2 DEF Before

LEMMA BeforeGrows ==
    ASSUME Types, NEW r \in Requests, Receive(r)
    PROVE  /\ \A p, q : Before(p, q) => Before(p, q)'
           /\ \A q \in Range(received) : Before(q, r)'
<1>1. received \in Seq(Requests) /\ received' = Append(received, r)
  BY ReceiveEffect DEF Types
<1>2. /\ DOMAIN received' = DOMAIN received \cup {Len(received) + 1}
      /\ received'[Len(received) + 1] = r
      /\ \A i \in DOMAIN received : i < Len(received) + 1 /\ received'[i] = received[i]
  BY <1>1, AppendElements
<1>3. QED
  BY <1>2 DEF Before, Range

LEMMA OrderedStep == Types /\ Provenance /\ Ordered /\ [Next]_vars => Ordered'
<1> SUFFICES ASSUME Types, Provenance, Ordered, [Next]_vars PROVE Ordered'
  OBVIOUS
<1>1. taskchan \in Seq(Message) /\ kafka \in [Logs -> Seq(Payload)]
  BY DEF Types
<1>2. ASSUME NEW r \in Requests, Receive(r) PROVE Ordered'
  <2>1. UNCHANGED kafka
    BY <1>2, ReceiveEffect
  <2>2. /\ \A p, q : Before(p, q) => Before(p, q)'
        /\ \A q \in Range(received) : Before(q, r)'
    BY <1>2, BeforeGrows
  <2>3. CASE UNCHANGED taskchan
    BY <2>1, <2>2, <2>3 DEF Ordered
  <2>4. CASE ~UNCHANGED taskchan
    <3>1. PICK m \in Message : taskchan' = Append(taskchan, m) /\ Origin(m) = r
      BY <1>2, <2>4, ReceiveEffect, MadeShape
    <3>2. /\ DOMAIN taskchan' = DOMAIN taskchan \cup {Len(taskchan) + 1}
          /\ Len(taskchan) \in Nat
          /\ \A i \in DOMAIN taskchan : /\ i \in Nat /\ i < Len(taskchan) + 1
                                        /\ taskchan'[i] = taskchan[i]
          /\ taskchan'[Len(taskchan) + 1] = m
      BY <1>1, <3>1, AppendElements
    <3>3. ASSUME NEW i \in DOMAIN taskchan', NEW j \in DOMAIN taskchan', i < j
          PROVE  Before(Origin(taskchan[i]), Origin(taskchan[j]))'
      <4>1. i \in DOMAIN taskchan
        BY <3>2, <3>3
      <4>2. CASE j \in DOMAIN taskchan
        BY <2>2, <3>2, <3>3, <4>1, <4>2 DEF Ordered
      <4>3. CASE j = Len(taskchan) + 1
        <5>1. Origin(taskchan[i]) \in Range(received)
          BY <4>1 DEF Provenance, Queued
        <5>2. QED
          BY <2>2, <3>1, <3>2, <4>1, <4>3, <5>1
      <4>4. QED
        BY <3>2, <4>2, <4>3
    <3>4. ASSUME NEW l \in Logs, NEW n \in DOMAIN kafka'[l], NEW i \in DOMAIN taskchan'
          PROVE  Before(Origin(kafka[l][n]), Origin(taskchan[i]))'
      <4>1. Origin(kafka[l][n]) \in Range(received)
        BY <2>1 DEF Provenance, Logged
      <4>2. QED
        BY <2>1, <2>2, <3>1, <3>2, <4>1 DEF Ordered
    <3>5. \A l \in Logs : \A m1, n \in DOMAIN kafka'[l] :
              m1 < n => Before(Origin(kafka[l][m1]), Origin(kafka[l][n]))'
      BY <2>1, <2>2 DEF Ordered
    <3>6. QED
      BY <2>1, <3>3, <3>4, <3>5 DEF Ordered
  <2>5. QED
    BY <2>3, <2>4
<1>3. ASSUME UNCHANGED <<kafka, received>>, taskchan' = <<>> PROVE Ordered'
  BY <1>3 DEF Ordered, Before
<1>4. ASSUME UNCHANGED <<kafka, received, taskchan>> PROVE Ordered'
  BY <1>4 DEF Ordered, Before
<1>5. CASE Push
  <2> DEFINE h == Head(taskchan)
  <2>1. taskchan # <<>> /\ taskchan' = Tail(taskchan) /\ UNCHANGED received
    BY <1>5, PushEffect DEF requestVars
  <2>2. /\ 1 \in DOMAIN taskchan /\ h = taskchan[1]
        /\ \A i \in DOMAIN taskchan' : /\ i \in Nat /\ i + 1 \in DOMAIN taskchan
                                       /\ taskchan'[i] = taskchan[i + 1] /\ 1 < i + 1
    <3>1. taskchan' \in Seq(Message) /\ \A i \in DOMAIN taskchan' : i \in Nat \ {0}
      BY <1>1, <2>1, TailElements
    <3>2. QED
      BY <1>1, <2>1, <3>1, TailElements
  <2>3. \A p, q : Before(p, q)' <=> Before(p, q)
    BY <2>1 DEF Before
  <2>4. \A i, j \in DOMAIN taskchan' :
            i < j => Before(Origin(taskchan[i]), Origin(taskchan[j]))'
    BY <2>2, <2>3 DEF Ordered
  <2>5. CASE UNCHANGED kafka
    BY <2>2, <2>3, <2>4, <2>5 DEF Ordered
  <2>6. CASE ~UNCHANGED kafka
    <3>1. PICK l0 \in Logs : kafka' = [kafka EXCEPT ![l0] = Append(@, ToJSON(h))]
      BY <1>5, <2>6, PushEffect
    <3>2. PICK p \in Payload : p = ToJSON(h)
      BY <1>5, PushEffect DEF Payload
    <3> DEFINE e == Len(kafka[l0]) + 1
    <3>3. /\ DOMAIN kafka'[l0] = DOMAIN kafka[l0] \cup {e} /\ kafka'[l0][e] = p
          /\ \A n \in DOMAIN kafka[l0] : n < e /\ n \in Nat /\ kafka'[l0][n] = kafka[l0][n]
          /\ e \notin DOMAIN kafka[l0] /\ e \in Nat
          /\ \A l \in Logs \ {l0} : kafka'[l] = kafka[l]
      <4>1. kafka[l0] \in Seq(Payload) /\ kafka'[l0] = Append(kafka[l0], p)
            /\ \A l \in Logs \ {l0} : kafka'[l] = kafka[l]
        BY <1>1, <3>1, <3>2
      <4>2. QED
        BY <4>1, AppendElements
    <3> HIDE DEF e
    <3>4. Origin(p) = Origin(taskchan[1])
      <4>1. Queued(h)
        BY <2>2 DEF Provenance
      <4>2. QED
        BY <2>2, <3>2, <4>1, MadeShape DEF Queued, MadeOf
    <3>5. ASSUME NEW l \in Logs, NEW n \in DOMAIN kafka'[l]
          PROVE  \/ l = l0 /\ n = e /\ kafka'[l][n] = p
                 \/ n \in DOMAIN kafka[l] /\ kafka'[l][n] = kafka[l][n]
      BY <3>3
    <3>6. \A l \in Logs : \A n \in DOMAIN kafka[l] : Before(Origin(kafka[l][n]), Origin(p))
      BY <2>2, <3>4 DEF Ordered
    <3>7. ASSUME NEW l \in Logs, NEW n \in DOMAIN kafka'[l], NEW i \in DOMAIN taskchan'
          PROVE  Before(Origin(kafka[l][n]), Origin(taskchan[i]))'
      <4>1. Before(Origin(taskchan[1]), Origin(taskchan[i + 1]))
        BY <2>2 DEF Ordered
      <4>2. CASE kafka'[l][n] = p
        BY <2>2, <2>3, <3>4, <4>1, <4>2
      <4>3. CASE n \in DOMAIN kafka[l] /\ kafka'[l][n] = kafka[l][n]
        BY <2>2, <2>3, <4>3 DEF Ordered
      <4>4. QED
        BY <3>5, <4>2, <4>3
    <3>8. ASSUME NEW l \in Logs, NEW m \in DOMAIN kafka'[l], NEW n \in DOMAIN kafka'[l], m < n
          PROVE  Before(Origin(kafka[l][m]), Origin(kafka[l][n]))'
      <4>1. m \in DOMAIN kafka[l] /\ kafka'[l][m] = kafka[l][m]
        BY <3>3, <3>5, <3>8
      <4>2. CASE kafka'[l][n] = p
        BY <2>3, <3>6, <4>1, <4>2
      <4>3. CASE n \in DOMAIN kafka[l] /\ kafka'[l][n] = kafka[l][n]
        BY <2>3, <3>8, <4>1, <4>3 DEF Ordered
      <4>4. QED
        BY <3>5, <4>2, <4>3
    <3>9. ASSUME NEW k \in Logs, NEW l \in Logs, NEW m \in DOMAIN kafka'[k],
                 NEW n \in DOMAIN kafka'[l], Origin(kafka'[k][m]) = Origin(kafka'[l][n])
          PROVE  k = l /\ m = n
      <4>1. \A j \in Logs : \A x \in DOMAIN kafka[j] : Origin(kafka[j][x]) # Origin(p)
        BY <3>6, BeforeIsOrder
      <4>2. QED
        BY <3>5, <3>9, <4>1 DEF Ordered
    <3>10. QED
      BY <2>4, <3>7, <3>8, <3>9 DEF Ordered
  <2>7. QED
    BY <2>5, <2>6
<1>6. ASSUME NEW l \in Subscribed, ConsumeLoop(l) PROVE Ordered'
  BY <1>4, <1>6, ConsumeEffect DEF requestVars
<1>7. CASE Assign \/ Unassign \/ Commit
  BY <1>4, <1>7 DEF Assign, Unassign, Commit, requestVars
<1>8. CASE Restart
  BY <1>3, <1>8 DEF Restart, requestVars
<1>9. CASE UNCHANGED vars
  BY <1>4, <1>9 DEF vars, requestVars
<1>10. QED
  BY <1>2, <1>5, <1>6, <1>7, <1>8, <1>9 DEF Next

LEMMA InitOrdered == Init => Ordered
  BY DEF Init, Ordered

LEMMA OrderedInv == Spec => []Ordered
  BY InitOrdered, OrderedStep, ProvenanceInv, TypesInv, PTL DEF Spec

-----------------------------------------------------------------------------
(* How often.  A place of a log that is still ahead of the consumer was    *)
(* handed on less often than there were assignments.                       *)

Due(l, n) == IF position[l] # None /\ position[l] < n THEN 1 ELSE 0

Once ==
    /\ \A l \in Logs : position[l] # None => assigns >= 1
    /\ \A l \in Logs : \A n \in DOMAIN kafka[l] : \A r :
           Origin(kafka[l][n]) = r => /\ IsFiniteSet(Place(r))
                                      /\ Cardinality(Place(r)) + Due(l, n) <= assigns

\* Whatever has been handed on lies in a log.
LEMMA PlaceInLog ==
    ASSUME Types, Provenance, NEW r, NEW i \in Place(r)
    PROVE  \E l \in Logs : \E n \in DOMAIN kafka[l] :
               Origin(kafka[l][n]) = r /\ IsCallOf(handed[i], kafka[l][n])
<1>1. PICK l \in Logs, n \in Nat : n \in DOMAIN kafka[l] /\ IsCallOf(handed[i], kafka[l][n])
  BY DEF Place, Provenance, Types
<1>2. kafka[l][n].headers = Headers(r)
  BY <1>1 DEF Place, IsCallOf, Call, EmptyMessage
<1>3. QED
  BY <1>1, <1>2, HeadersShape DEF Origin

LEMMA LoggedHeaders ==
    ASSUME Provenance, NEW l \in Logs, NEW n \in DOMAIN kafka[l]
    PROVE  kafka[l][n].headers = Headers(Origin(kafka[l][n]))
  BY MadeShape DEF Provenance, Logged, MadeOf

\* What ConsumeLoop hands on is one more of its own request.
LEMMA PlaceStep ==
    ASSUME Types, Provenance, NEW l \in Logs, NEW n \in DOMAIN kafka[l], NEW c \in Given,
           IsCallOf(c, kafka[l][n]), handed' = Append(handed, c), NEW r
    PROVE  Place(r)' = IF r = Origin(kafka[l][n]) THEN Place(r) \cup {Len(handed) + 1}
                       ELSE Place(r)
<1>1. c.headers = Headers(Origin(kafka[l][n]))
  BY LoggedHeaders DEF IsCallOf, Call, EmptyMessage
<1>2. c.headers = Headers(r) <=> r = Origin(kafka[l][n])
  BY <1>1, HeadersShape
<1>3. /\ DOMAIN handed' = DOMAIN handed \cup {Len(handed) + 1}
      /\ Len(handed) + 1 \notin DOMAIN handed
      /\ \A i \in DOMAIN handed : handed'[i] = handed[i]
      /\ handed'[Len(handed) + 1] = c
  BY AppendElements DEF Types
<1>4. QED
  BY <1>2, <1>3 DEF Place

LEMMA OnceKept ==
    ASSUME Types, Once, UNCHANGED <<kafka, handed>>, assigns' \in Nat,
           \A l \in Logs : position'[l] # None => assigns' >= 1,
           \A l \in Logs : \A n \in DOMAIN kafka[l] :
               Due(l, n)' - Due(l, n) <= assigns' - assigns
    PROVE  Once'
<1>1. \A r : Place(r)' = Place(r)
  BY DEF Place
<1>2. ASSUME NEW l \in Logs, NEW n \in DOMAIN kafka[l], NEW r, Origin(kafka[l][n]) = r
      PROVE  /\ IsFiniteSet(Place(r)') /\ Cardinality(Place(r)') + Due(l, n)' <= assigns'
  <2>1. IsFiniteSet(Place(r)) /\ Cardinality(Place(r)) + Due(l, n) <= assigns
    BY <1>2 DEF Once
  <2>2. Cardinality(Place(r)) \in Nat /\ assigns \in Nat /\ Due(l, n) \in Nat /\ Due(l, n)' \in Nat
    BY <2>1, FS_CardinalityType DEF Due, Types
  <2>3. Due(l, n)' - Due(l, n) <= assigns' - assigns
    OBVIOUS
  <2>4. Cardinality(Place(r)) + Due(l, n)' <= assigns'
    BY <2>1, <2>2, <2>3
  <2>5. QED
    BY <1>1, <2>1, <2>4
<1>3. QED
  BY <1>2 DEF Once

LEMMA OnceStep ==
    Types /\ Types' /\ Within /\ Provenance /\ Ordered /\ Once /\ [Next]_vars => Once'
<1> SUFFICES ASSUME Types, Types', Within, Provenance, Ordered, Once, [Next]_vars PROVE Once'
  OBVIOUS
<1>0. /\ kafka \in [Logs -> Seq(Payload)] /\ handed \in Seq(Given)
      /\ position \in [Logs -> Offsets] /\ None \notin Nat /\ Subscribed \subseteq Logs
      /\ assigns \in Nat /\ assigns' \in Nat
  BY DataPathAssumption DEF Types, Subscribed
<1>1. ASSUME UNCHANGED <<kafka, handed, assigns, position>> PROVE Once'
  <2>1. \A l, n : Due(l, n)' = Due(l, n) /\ Due(l, n) \in Nat
    BY <1>1 DEF Due
  <2>2. \A l, n : Due(l, n)' - Due(l, n) <= assigns' - assigns
    BY <1>0, <1>1, <2>1
  <2>3. \A l \in Logs : position'[l] # None => assigns' >= 1
    BY <1>1 DEF Once
  <2>4. QED
    BY <1>0, <1>1, <2>2, <2>3, OnceKept
<1>2. ASSUME UNCHANGED <<kafka, handed, assigns>>, position' = [l \in Logs |-> None]
      PROVE  Once'
  <2>1. ASSUME NEW l \in Logs, NEW n PROVE Due(l, n)' - Due(l, n) <= assigns' - assigns
    BY <1>0, <1>2 DEF Due
  <2>2. \A l \in Logs : position'[l] = None
    BY <1>2
  <2>3. QED
    BY <1>0, <1>2, <2>1, <2>2, OnceKept
<1>3. ASSUME NEW r \in Requests, Receive(r) PROVE Once'
  BY <1>1, <1>3, ReceiveEffect DEF groupVars
<1>4. CASE Unassign \/ Restart
  BY <1>2, <1>4 DEF Unassign, Restart
<1>5. CASE Commit
  BY <1>1, <1>5 DEF Commit
<1>6. CASE Assign
  <2>1. /\ UNCHANGED <<kafka, handed>> /\ assigns' = assigns + 1 /\ position' = Resumed
        /\ \A l \in Subscribed : position[l] = None
    BY <1>6 DEF Assign
  <2>2. ASSUME NEW l \in Logs, NEW n PROVE Due(l, n)' - Due(l, n) <= 1
    BY DEF Due
  <2>3. \A l \in Logs : \A n \in DOMAIN kafka[l] : Due(l, n)' - Due(l, n) <= assigns' - assigns
    BY <1>0, <2>1, <2>2
  <2>4. assigns' >= 1
    BY <1>0, <2>1
  <2>5. QED
    BY <1>0, <2>1, <2>3, <2>4, OnceKept
<1>7. CASE Push
  <2>1. UNCHANGED <<handed, position, assigns>>
    BY <1>7, PushEffect DEF groupVars
  <2>2. ASSUME NEW l \in Logs, NEW n \in DOMAIN kafka'[l], NEW r, Origin(kafka'[l][n]) = r
        PROVE  IsFiniteSet(Place(r)) /\ Cardinality(Place(r)) + Due(l, n) <= assigns
    <3>1. CASE n \in DOMAIN kafka[l]
      BY <1>0, <1>7, <2>2, <3>1, KafkaGrows DEF Once
    <3>2. CASE n \notin DOMAIN kafka[l]
      <4>1. Place(r) = {}
        <5> SUFFICES ASSUME NEW i \in Place(r) PROVE FALSE
          OBVIOUS
        <5>1. PICK k \in Logs, m \in Nat : m \in DOMAIN kafka[k] /\ Origin(kafka[k][m]) = r
          BY <1>0, PlaceInLog
        <5>2. m \in DOMAIN kafka'[k] /\ Origin(kafka'[k][m]) = r
          BY <1>7, <5>1, KafkaGrows
        <5>3. Ordered'
          BY OrderedStep
        <5>4. k = l /\ m = n
          BY <2>2, <5>2, <5>3 DEF Ordered
        <5>5. QED
          BY <3>2, <5>1, <5>4
      <4>2. Due(l, n) <= assigns
        BY <1>0 DEF Due, Once
      <4>3. Due(l, n) \in Nat
        BY DEF Due
      <4>4. QED
        BY <4>1, <4>2, <4>3, FS_EmptySet
    <3>3. QED
      BY <3>1, <3>2
  <2>3. \A l, n, r : Due(l, n)' = Due(l, n) /\ Place(r)' = Place(r)
    BY <2>1 DEF Due, Place
  <2>4. QED
    BY <2>1, <2>2, <2>3 DEF Once
<1>8. ASSUME NEW l \in Subscribed, ConsumeLoop(l) PROVE Once'
  <2>0. PICK m : m = position[l] + 1
    OBVIOUS
  <2> DEFINE p == kafka[l][m]
             c == Call(p.headers, p.url, p.data)
  <2>1. /\ l \in Logs /\ position[l] \in Nat /\ m \in DOMAIN kafka[l]
        /\ position' = [position EXCEPT ![l] = m] /\ UNCHANGED <<kafka, assigns>>
        /\ UNCHANGED handed \/ (handed' = Append(handed, c) /\ c \in Given)
    BY <1>8, <2>0, ConsumeEffect
  <2>2. /\ position'[l] = m /\ m \in Nat /\ position[l] # None
        /\ \A k \in Logs \ {l} : position'[k] = position[k]
    BY <1>0, <2>0, <2>1
  <2>3. Due(l, m) = 1 /\ Due(l, m)' = 0
    BY <1>0, <2>0, <2>1, <2>2 DEF Due
  <2>4. ASSUME NEW k \in Logs, NEW n \in DOMAIN kafka[k]
        PROVE  /\ Due(k, n) \in {0, 1} /\ Due(k, n)' \in {0, 1}
               /\ Due(k, n)' <= Due(k, n)
    <3>1. n \in Nat
      BY <1>0
    <3>2. QED
      BY <1>0, <2>0, <2>1, <2>2, <3>1 DEF Due
  <2>5. CASE UNCHANGED handed
    <3>1. \A k \in Logs : \A n \in DOMAIN kafka[k] : Due(k, n)' - Due(k, n) <= assigns' - assigns
      BY <1>0, <2>1, <2>4
    <3>2. \A k \in Logs : position'[k] # None => assigns' >= 1
      BY <2>1, <2>2 DEF Once
    <3>3. QED
      BY <1>0, <2>1, <2>5, <3>1, <3>2, OnceKept
  <2>6. CASE handed' = Append(handed, c) /\ c \in Given
    <3>1. \A r : Place(r)' = IF r = Origin(kafka[l][m]) THEN Place(r) \cup {Len(handed) + 1}
                             ELSE Place(r)
      BY <2>1, <2>6, PlaceStep DEF IsCallOf
    <3>2. ASSUME NEW k \in Logs, NEW n \in DOMAIN kafka[k], NEW r, Origin(kafka[k][n]) = r
          PROVE  IsFiniteSet(Place(r)') /\ Cardinality(Place(r)') + Due(k, n)' <= assigns
      <4>0. assigns \in Nat
        BY <1>0
      <4>1. /\ IsFiniteSet(Place(r)) /\ Cardinality(Place(r)) \in Nat
            /\ Cardinality(Place(r)) + Due(k, n) <= assigns
        BY <3>2, FS_CardinalityType DEF Once
      <4>2. CASE r = Origin(kafka[l][m])
        <5>1. k = l /\ n = m
          BY <2>1, <3>2, <4>2 DEF Ordered
        <5>2. Place(r)' = Place(r) \cup {Len(handed) + 1}
          BY <3>1, <4>2
        <5>3. /\ IsFiniteSet(Place(r)') /\ Cardinality(Place(r)') \in Nat
              /\ Cardinality(Place(r)') <= Cardinality(Place(r)) + 1
          <6> DEFINE S == Place(r)
                     T == S \cup {Len(handed) + 1}
          <6>1. IsFiniteSet(S) /\ Cardinality(S) \in Nat
            BY <4>1
          <6> HIDE DEF S
          <6>2. /\ IsFiniteSet(T)
                /\ Cardinality(T) = Cardinality(S) \/ Cardinality(T) = Cardinality(S) + 1
            BY <6>1, FS_AddElement
          <6> HIDE DEF T
          <6>3. Cardinality(T) \in Nat /\ Cardinality(T) <= Cardinality(S) + 1
            BY <6>1, <6>2
          <6>4. QED
            BY <5>2, <6>2, <6>3 DEF S, T
        <5>4. QED
          BY <2>3, <4>0, <4>1, <5>1, <5>3
      <4>3. CASE r # Origin(kafka[l][m])
        <5>1. Place(r)' = Place(r)
          BY <3>1, <4>3
        <5>2. /\ Due(k, n) \in {0, 1} /\ Due(k, n)' \in {0, 1}
              /\ Due(k, n)' <= Due(k, n)
          BY <2>4, <3>2
        <5>3. IsFiniteSet(Place(r)') /\ Cardinality(Place(r)') = Cardinality(Place(r))
          BY <4>1, <5>1
        <5>4. QED
          BY <4>0, <4>1, <5>2, <5>3
      <4>4. QED
        BY <4>2, <4>3
    <3>3. \A k \in Logs : position'[k] # None => assigns' >= 1
      BY <2>1, <2>2 DEF Once
    <3>4. QED
      BY <2>1, <3>2, <3>3 DEF Once
  <2>7. QED
    BY <2>1, <2>5, <2>6
<1>9. CASE UNCHANGED vars
  BY <1>1, <1>9 DEF vars, groupVars
<1>10. QED
  BY <1>3, <1>4, <1>5, <1>6, <1>7, <1>8, <1>9 DEF Next

LEMMA OnceInv == Spec => []Once
<1>1. Init => Once
  BY DEF Init, Once
<1>2. QED
  BY <1>1, OnceStep, OrderedInv, ProvenanceInv, TypesInv, PTL DEF Spec

\* AsyncCall is given what a client asked for, and for every assignment at most once:
\* neither a crash nor a commit in between makes the consumer read a place twice.
THEOREM HandedAsAskedCorrect == Spec => []HandedAsAsked
<1>1. Types /\ Provenance /\ Once => HandedAsAsked
  <2> SUFFICES ASSUME Types, Provenance, Once, NEW i \in DOMAIN handed
               PROVE  \E r \in Range(received) :
                          /\ Sent(r) /\ i \in Place(r) /\ Cardinality(Place(r)) <= assigns
                          /\ handed[i] = Call(Headers(r), asked[r].url, asked[r].data)
    BY DEF HandedAsAsked, Call
  <2>0. PICK l \in Logs : \E n \in DOMAIN kafka[l] : IsCallOf(handed[i], kafka[l][n])
    BY DEF Provenance
  <2>1. PICK n \in DOMAIN kafka[l] : IsCallOf(handed[i], kafka[l][n])
    BY <2>0
  <2> DEFINE r == Origin(kafka[l][n])
  <2>2. Logged(l, kafka[l][n]) /\ kafka[l][n].headers = Headers(r)
    BY <2>1, LoggedHeaders DEF Provenance
  <2>3. r \in Range(received) /\ Sent(r)
    BY <2>1, <2>2 DEF Logged, Sent
  <2>4. i \in Place(r)
    BY <2>1, <2>2 DEF Place, IsCallOf, Call, EmptyMessage
  <2>5. Cardinality(Place(r)) <= assigns
    <3>1. /\ IsFiniteSet(Place(r)) /\ Cardinality(Place(r)) + Due(l, n) <= assigns
      BY <2>1 DEF Once
    <3>2. Cardinality(Place(r)) \in Nat /\ Due(l, n) \in Nat /\ assigns \in Nat
      BY <3>1, FS_CardinalityType DEF Due, Types
    <3>3. QED
      BY <3>1, <3>2
  <2>6. kafka[l][n].url = asked[r].url /\ kafka[l][n].data = asked[r].data
    <3>1. kafka[l][n] = ToJSON(MadeOf(r)) /\ kafka[l][n].topic # Empty
      BY <2>2 DEF Logged
    <3>2. Body(asked[r]).acl.topic # Empty
      BY <3>1, MadeShape DEF MadeOf
    <3>3. QED
      BY <3>1, <3>2, MadeShape, ParsedBody DEF MadeOf
  <2>7. QED
    BY <2>1, <2>2, <2>3, <2>4, <2>5, <2>6 DEF IsCallOf
<1>2. QED
  BY <1>1, OnceInv, ProvenanceInv, TypesInv, PTL

-----------------------------------------------------------------------------
(* The order in which requests of one log are handed on.  If a later one   *)
(* was handed on, an earlier one was before it, or it has been passed for  *)
(* good: the group will not go back to it.                                 *)

Passed(l, n) == IF committed[l] # None THEN n <= committed[l]
                ELSE position[l] # None => n <= position[l]

\* What lies between the commit and the position was handed on.
NoGap ==
    ~crashed => \A l \in Logs : \A n \in DOMAIN kafka[l] :
        /\ position[l] # None /\ n <= position[l]
        /\ committed[l] # None /\ committed[l] < n
        => Place(Origin(kafka[l][n])) # {}

Follows(q, r, passed) ==
    \A j \in Place(r) : \/ \E i \in Place(q) : i < j
                        \/ Place(q) = {} /\ passed

InTurn ==
    \A l \in Logs : \A m, n \in DOMAIN kafka[l] :
        m < n => Follows(Origin(kafka[l][m]), Origin(kafka[l][n]), Passed(l, m))

\* A place that was passed stays so.
LEMMA PassedKept ==
    ASSUME Types, Within, [Next]_vars, NEW l \in Logs, NEW n \in DOMAIN kafka[l], Passed(l, n)
    PROVE  Passed(l, n)'
<1>0. /\ kafka \in [Logs -> Seq(Payload)] /\ None \notin Nat /\ Subscribed \subseteq Logs
      /\ position \in [Logs -> Offsets] /\ committed \in [Logs -> Offsets]
      /\ n \in Nat /\ n <= Len(kafka[l])
  BY DataPathAssumption DEF Types, Subscribed
<1>1. ASSUME UNCHANGED <<position, committed>> PROVE Passed(l, n)'
  BY <1>1 DEF Passed
<1>2. ASSUME NEW r \in Requests, Receive(r) PROVE Passed(l, n)'
  BY <1>1, <1>2, ReceiveEffect DEF groupVars
<1>3. CASE Push
  BY <1>1, <1>3, PushEffect DEF groupVars
<1>4. CASE Assign
  BY <1>0, <1>4 DEF Assign, Resumed, Passed
<1>5. CASE Unassign \/ Restart
  <2>1. UNCHANGED committed /\ position'[l] = None
    BY <1>5 DEF Unassign, Restart
  <2>2. QED
    BY <2>1 DEF Passed
<1>6. CASE Commit
  <2>1. /\ UNCHANGED position /\ committed' = position
        /\ \A k \in Subscribed : position[k] # None
    BY <1>6 DEF Commit
  <2>2. CASE position[l] # None
    BY <1>0, <2>1, <2>2 DEF Passed, Within, Offsets
  <2>3. CASE position[l] = None
    BY <2>1, <2>3 DEF Passed
  <2>4. QED
    BY <2>2, <2>3
<1>7. ASSUME NEW k \in Subscribed, ConsumeLoop(k) PROVE Passed(l, n)'
  <2>1. /\ position[k] \in Nat /\ position' = [position EXCEPT ![k] = position[k] + 1]
        /\ committed' \in {committed, position'}
    BY <1>7, ConsumeEffect
  <2>2. position[l] # None => /\ position'[l] # None /\ position[l] \in Nat
                              /\ position'[l] \in {position[l], position[l] + 1}
    BY <1>0, <2>1 DEF Offsets
  <2>3. position[l] = None => position'[l] = None
    BY <1>0, <2>1
  <2>4. committed'[l] \in {committed[l], position'[l]}
    BY <2>1
  <2>5. position[l] # None /\ committed[l] # None => committed[l] <= position[l]
    BY DEF Within
  <2>6. committed[l] # None => committed[l] \in Nat
    BY <1>0 DEF Offsets
  <2>7. CASE position[l] # None
    BY <1>0, <2>2, <2>4, <2>5, <2>6, <2>7 DEF Passed
  <2>8. CASE position[l] = None
    <3>1. committed'[l] = committed[l] \/ committed'[l] = None
      BY <2>3, <2>4, <2>8
    <3>2. QED
      BY <2>3, <2>8, <3>1 DEF Passed
  <2>9. QED
    BY <2>7, <2>8
<1>8. CASE UNCHANGED vars
  BY <1>1, <1>8 DEF vars, groupVars
<1>9. QED
  BY <1>2, <1>3, <1>4, <1>5, <1>6, <1>7, <1>8 DEF Next

\* What was handed on stays handed on.
LEMMA PlaceGrows ==
    ASSUME Types, [Next]_vars, NEW r
    PROVE  Place(r) \subseteq Place(r)'
<1>1. \A i \in DOMAIN handed : i \in DOMAIN handed' /\ handed'[i] = handed[i]
  <2>1. CASE UNCHANGED handed
    BY <2>1
  <2>2. ASSUME NEW c \in Given, handed' = Append(handed, c)
        PROVE  \A i \in DOMAIN handed : i \in DOMAIN handed' /\ handed'[i] = handed[i]
    BY <2>2, AppendElements DEF Types
  <2>3. ASSUME NEW l \in Subscribed, ConsumeLoop(l)
        PROVE  UNCHANGED handed \/ \E c \in Given : handed' = Append(handed, c)
    BY <2>3, ConsumeEffect
  <2>4. ASSUME NEW q \in Requests, Receive(q) PROVE UNCHANGED handed
    BY <2>4, ReceiveEffect
  <2>5. Push => UNCHANGED handed
    BY PushEffect
  <2>6. Assign \/ Unassign \/ Commit \/ Restart \/ UNCHANGED vars => UNCHANGED handed
    BY DEF Assign, Unassign, Commit, Restart, vars
  <2>7. QED
    BY <2>1, <2>2, <2>3, <2>4, <2>5, <2>6 DEF Next
<1>2. QED
  BY <1>1 DEF Place

LEMMA NoGapStep == Types /\ Within /\ Provenance /\ NoGap /\ [Next]_vars => NoGap'
<1> SUFFICES ASSUME Types, Within, Provenance, NoGap, [Next]_vars, ~crashed',
                    NEW l \in Logs, NEW n \in DOMAIN kafka'[l],
                    position'[l] # None, n <= position'[l],
                    committed'[l] # None, committed'[l] < n
             PROVE  Place(Origin(kafka[l][n]))' # {}
  BY DEF NoGap
<1>0. /\ kafka \in [Logs -> Seq(Payload)] /\ None \notin Nat /\ Subscribed \subseteq Logs
      /\ position \in [Logs -> Offsets] /\ committed \in [Logs -> Offsets]
      /\ handed \in Seq(Given)
  BY DataPathAssumption DEF Types, Subscribed
<1>1. ASSUME ~crashed, n \in DOMAIN kafka[l], kafka'[l][n] = kafka[l][n],
             position[l] # None, n <= position[l], committed[l] # None, committed[l] < n
      PROVE  Place(Origin(kafka[l][n]))' # {}
  BY <1>1, PlaceGrows DEF NoGap
<1>2. ASSUME UNCHANGED <<kafka, position, committed, crashed>>
      PROVE  Place(Origin(kafka[l][n]))' # {}
  BY <1>1, <1>2
<1>3. ASSUME NEW r \in Requests, Receive(r) PROVE Place(Origin(kafka[l][n]))' # {}
  BY <1>2, <1>3, ReceiveEffect DEF groupVars
<1>4. CASE Push
  <2>1. UNCHANGED <<position, committed>> /\ UNCHANGED crashed
    BY <1>4, PushEffect DEF groupVars, Crash
  <2>2. n \in DOMAIN kafka[l]
    <3>1. n \in Nat \ {0} /\ Len(kafka[l]) \in Nat /\ DOMAIN kafka[l] = 1..Len(kafka[l])
      BY <1>0, <1>4, KafkaGrows
    <3>2. position[l] \in Nat /\ position[l] <= Len(kafka[l])
      BY <1>0, <2>1 DEF Within, Offsets
    <3>3. QED
      BY <2>1, <3>1, <3>2
  <2>3. QED
    BY <1>1, <1>4, <2>1, <2>2, KafkaGrows
<1>5. CASE Assign
  <2>1. UNCHANGED <<kafka, committed>> /\ position' = Resumed
    BY <1>5 DEF Assign
  <2>2. position'[l] = committed[l]
    BY <2>1 DEF Resumed
  <2>3. n \in Nat /\ committed[l] \in Nat
    BY <1>0, <2>1 DEF Offsets
  <2>4. QED
    BY <2>1, <2>2, <2>3
<1>6. CASE Unassign \/ Restart
  BY <1>6 DEF Unassign, Restart
<1>7. CASE Commit
  <2>1. UNCHANGED <<kafka, position>> /\ committed'[l] = position[l]
    BY <1>7 DEF Commit
  <2>2. n \in Nat /\ position[l] \in Nat
    BY <1>0, <2>1 DEF Offsets
  <2>3. QED
    BY <2>1, <2>2
<1>8. ASSUME NEW k \in Subscribed, ConsumeLoop(k) PROVE Place(Origin(kafka[l][n]))' # {}
  <2>0. PICK m : m = position[k] + 1
    OBVIOUS
  <2> DEFINE p == kafka[k][m]
             c == Call(p.headers, p.url, p.data)
  <2>1. /\ k \in Logs /\ position[k] \in Nat /\ m \in DOMAIN kafka[k]
        /\ position' = [position EXCEPT ![k] = m] /\ UNCHANGED kafka
        /\ handed' = Append(handed, c) /\ c \in Given /\ UNCHANGED <<committed, crashed>>
    BY <1>8, <2>0, ConsumeEffect DEF Crash
  <2>2. /\ position'[k] = m /\ \A x \in Logs \ {k} : position'[x] = position[x]
    BY <1>0, <2>1
  <2>3. CASE l = k /\ n = m
    <3>1. Place(Origin(p))' = Place(Origin(p)) \cup {Len(handed) + 1}
      BY <2>1, PlaceStep DEF IsCallOf
    <3>2. kafka'[l][n] = p
      BY <2>1, <2>3
    <3>3. QED
      BY <2>1, <3>1, <3>2
  <2>4. CASE ~(l = k /\ n = m)
    <3>1. position[l] # None /\ n <= position[l]
      <4>1. n \in Nat
        BY <1>0, <2>1
      <4>2. QED
        BY <2>0, <2>1, <2>2, <2>4, <4>1, <1>0
    <3>2. QED
      BY <1>1, <2>1, <3>1
  <2>5. QED
    BY <2>3, <2>4
<1>9. CASE UNCHANGED vars
  BY <1>2, <1>9 DEF vars, groupVars
<1>10. QED
  BY <1>3, <1>4, <1>5, <1>6, <1>7, <1>8, <1>9 DEF Next

\* No request is in the logs twice.
LEMMA OneOfEach ==
    ASSUME Ordered,
           NEW k \in Logs, NEW t \in DOMAIN kafka[k],
           NEW l \in Logs, NEW n \in DOMAIN kafka[l],
           Origin(kafka[k][t]) = Origin(kafka[l][n])
    PROVE  k = l /\ t = n
BY DEF Ordered

LEMMA InTurnStep ==
    /\ Types /\ Within /\ Provenance /\ Ordered /\ Ordered' /\ NoGap /\ InTurn
    /\ [Next]_vars
    => InTurn'
<1> SUFFICES ASSUME Types, Within, Provenance, Ordered, Ordered', NoGap, InTurn, [Next]_vars,
                    NEW l \in Logs, NEW m \in DOMAIN kafka'[l], NEW n \in DOMAIN kafka'[l], m < n,
                    NEW q, q = Origin(kafka'[l][m]), NEW r, r = Origin(kafka'[l][n]),
                    NEW j \in Place(r)'
             PROVE  (\E i \in Place(q)' : i < j) \/ (Place(q)' = {} /\ Passed(l, m)')
  BY DEF InTurn, Follows
<1>0. /\ kafka \in [Logs -> Seq(Payload)] /\ None \notin Nat /\ Subscribed \subseteq Logs
      /\ position \in [Logs -> Offsets] /\ committed \in [Logs -> Offsets]
      /\ handed \in Seq(Given)
  BY DataPathAssumption DEF Types, Subscribed
<1>1. Place(q) \subseteq Place(q)'
  BY PlaceGrows
<1>2. ASSUME m \in DOMAIN kafka[l], n \in DOMAIN kafka[l], q = Origin(kafka[l][m]),
             r = Origin(kafka[l][n])
      PROVE  \A i \in Place(r) : \/ \E h \in Place(q) : h < i
                                 \/ Place(q) = {} /\ Passed(l, m) /\ Passed(l, m)'
  BY <1>2, PassedKept DEF InTurn, Follows
<1>3. ASSUME UNCHANGED <<kafka, handed>>
      PROVE  (\E i \in Place(q)' : i < j) \/ (Place(q)' = {} /\ Passed(l, m)')
  <2>1. Place(q)' = Place(q) /\ Place(r)' = Place(r)
    BY <1>3 DEF Place
  <2>2. QED
    BY <1>2, <1>3, <2>1
<1>4. ASSUME NEW x \in Requests, Receive(x)
      PROVE  (\E i \in Place(q)' : i < j) \/ (Place(q)' = {} /\ Passed(l, m)')
  BY <1>3, <1>4, ReceiveEffect
<1>5. CASE Push
  <2>1. UNCHANGED handed
    BY <1>5, PushEffect
  <2>2. Place(q)' = Place(q) /\ Place(r)' = Place(r)
    BY <2>1 DEF Place
  <2>3. PICK k \in Logs : \E x \in DOMAIN kafka[k] : Origin(kafka[k][x]) = r
    BY <2>2, PlaceInLog
  <2>4. PICK x \in DOMAIN kafka[k] : Origin(kafka[k][x]) = r
    BY <2>3
  <2>5. x \in DOMAIN kafka'[k] /\ Origin(kafka'[k][x]) = r
    BY <1>5, <2>4, KafkaGrows
  <2>6. k = l /\ x = n
    BY <2>5 DEF Ordered
  <2>7. n \in DOMAIN kafka[l] /\ r = Origin(kafka[l][n])
    BY <2>4, <2>6
  <2>8. m \in DOMAIN kafka[l] /\ q = Origin(kafka[l][m])
    <3>1. /\ kafka' \in [Logs -> Seq(Payload)]
          /\ Len(kafka[l]) \in Nat /\ DOMAIN kafka[l] = 1..Len(kafka[l])
      BY <1>0, <1>5, KafkaGrows
    <3>2. m \in Nat \ {0} /\ n \in Nat
      BY <3>1
    <3>3. m \in DOMAIN kafka[l]
      BY <2>7, <3>1, <3>2
    <3>4. QED
      BY <1>5, <3>3, KafkaGrows
  <2>9. QED
    BY <1>2, <2>2, <2>7, <2>8
<1>6. CASE Assign \/ Unassign \/ Commit \/ Restart
  BY <1>3, <1>6 DEF Assign, Unassign, Commit, Restart
<1>7. ASSUME NEW k \in Subscribed, ConsumeLoop(k), ~crashed
      PROVE  (\E i \in Place(q)' : i < j) \/ (Place(q)' = {} /\ Passed(l, m)')
  <2>0. PICK t : t = position[k] + 1
    OBVIOUS
  <2> DEFINE p == kafka[k][t]
             c == Call(p.headers, p.url, p.data)
  <2>1. /\ k \in Logs /\ position[k] \in Nat /\ t \in DOMAIN kafka[k]
        /\ position' = [position EXCEPT ![k] = t] /\ UNCHANGED kafka
        /\ \/ UNCHANGED handed
           \/ handed' = Append(handed, c) /\ c \in Given /\ UNCHANGED committed
    BY <1>7, <2>0, ConsumeEffect
  <2>2. CASE UNCHANGED handed
    BY <1>3, <2>1, <2>2
  <2>3. CASE handed' = Append(handed, c) /\ c \in Given /\ UNCHANGED committed
    <3> DEFINE e == Len(handed) + 1
               Old == Origin(p)
    <3>1. \A x : Place(x)' = IF x = Old THEN Place(x) \cup {e} ELSE Place(x)
      BY <2>1, <2>3, PlaceStep DEF IsCallOf
    <3>2. q = Origin(kafka[l][m]) /\ r = Origin(kafka[l][n]) /\ q # r
          /\ m \in DOMAIN kafka[l] /\ n \in DOMAIN kafka[l] /\ m \in Nat /\ n \in Nat
      <4>1. m \in DOMAIN kafka[l] /\ n \in DOMAIN kafka[l]
        BY <2>1
      <4>2. m \in Nat /\ n \in Nat /\ m # n
        BY <1>0, <4>1
      <4>3. q = Origin(kafka[l][m]) /\ r = Origin(kafka[l][n])
        BY <2>1
      <4>4. QED
        BY <4>1, <4>2, <4>3 DEF Ordered
    <3>3. \A i \in Place(r) : \/ \E h \in Place(q) : h < i
                              \/ Place(q) = {} /\ Passed(l, m) /\ Passed(l, m)'
      BY <1>2, <3>2
    <3>4. CASE j \in Place(r)
      <4>1. CASE Place(q) = {} /\ Passed(l, m) /\ Passed(l, m)'
        <5>1. q # Old
          <6> SUFFICES ASSUME q = Old PROVE FALSE
            OBVIOUS
          <6>0. Origin(kafka[k][t]) = Origin(kafka[l][m])
            BY <3>2
          <6>1. k = l /\ t = m
            BY <2>1, <3>2, <6>0, OneOfEach
          <6>2. position[l] # None /\ position[l] < m
            BY <1>0, <2>0, <2>1, <6>1
          <6>3. committed[l] # None => committed[l] \in Nat /\ committed[l] <= position[l]
            BY <1>0, <6>2 DEF Within, Offsets
          <6>4. position[l] \in Nat
            BY <2>1, <6>1
          <6>5. QED
            BY <3>2, <4>1, <6>2, <6>3, <6>4 DEF Passed
        <5>2. QED
          BY <3>1, <4>1, <5>1
      <4>2. CASE \E h \in Place(q) : h < j
        BY <1>1, <4>2
      <4>3. QED
        BY <3>3, <3>4, <4>1, <4>2
    <3>5. CASE j \notin Place(r)
      <4>1. r = Old /\ j = e
        BY <3>1, <3>5
      <4>2. k = l /\ t = n
        <5>1. Origin(kafka[k][t]) = Origin(kafka[l][n])
          BY <3>2, <4>1
        <5>2. QED
          BY <2>1, <3>2, <5>1, OneOfEach
      <4>3. CASE Place(q) # {}
        <5>1. PICK i \in Place(q) : TRUE
          BY <4>3
        <5>2. i < e
          BY <1>0 DEF Place
        <5>3. QED
          BY <1>1, <4>1, <5>1, <5>2
      <4>4. CASE Place(q) = {}
        <5>1. position[l] # None /\ m <= position[l] /\ position[l] \in Nat
              /\ position'[l] \in Nat /\ m <= position'[l]
          BY <1>0, <2>0, <2>1, <3>2, <4>2
        <5>2. committed[l] # None => committed[l] \in Nat /\ ~(committed[l] < m)
          BY <1>0, <1>7, <3>2, <4>4, <5>1 DEF NoGap, Offsets
        <5>3. Passed(l, m)'
          BY <1>0, <2>3, <3>2, <5>1, <5>2 DEF Passed
        <5>4. Place(q)' = {}
          BY <3>1, <3>2, <4>1, <4>4
        <5>5. QED
          BY <5>3, <5>4
      <4>5. QED
        BY <4>3, <4>4
    <3>6. QED
      BY <3>4, <3>5
  <2>4. QED
    BY <2>1, <2>2, <2>3
<1>8. CASE UNCHANGED vars
  BY <1>3, <1>8 DEF vars
<1>9. QED
  BY <1>4, <1>5, <1>6, <1>7, <1>8 DEF Next

LEMMA InTurnInv == Spec => [](NoGap /\ InTurn)
<1>1. Init => NoGap /\ InTurn
  BY DEF Init, NoGap, InTurn
<1>2. QED
  BY <1>1, NoGapStep, InTurnStep, OrderedInv, ProvenanceInv, TypesInv, PTL DEF Spec
-----------------------------------------------------------------------------
(* The order in which the requests of one key are handed on: they lie in   *)
(* one log, in the order they were received.                               *)

LEMMA LeastOfNat ==
    ASSUME NEW S \in SUBSET Nat, S # {}
    PROVE  \E i \in S : \A j \in S : i <= j
<1> DEFINE Less == {s \in Nat \X Nat : s[1] < s[2]}
<1>1. IsWellFoundedOn(Less, Nat)
  BY NatLessThanWellFounded DEF OpToRel, Less
<1>2. PICK i \in S : \A j \in S : ~(<<j, i>> \in Less)
  <2> HIDE DEF Less
  <2> QED
    BY <1>1, WFMin
<1>3. ASSUME NEW j \in S PROVE i <= j
  <2>1. i \in Nat /\ j \in Nat /\ ~(<<j, i>> \in Less)
    BY <1>2
  <2>2. QED
    BY <2>1
<1>4. QED
  BY <1>3

LEMMA FirstPlace ==
    ASSUME Types, NEW r, Place(r) # {}
    PROVE  First(r) \in Place(r) /\ \A i \in Place(r) : First(r) <= i
<1>1. Place(r) \in SUBSET Nat
  BY DEF Place, Types
<1>2. \E i \in Place(r) : \A j \in Place(r) : i <= j
  BY <1>1, LeastOfNat
<1>3. QED
  BY <1>2 DEF First

\* A request of a key that was handed on lies in the log that CalcPartition makes
\* of the key.
LEMMA RoutedPlace ==
    ASSUME Types, Provenance, NEW key \in Keys, NEW r, Routed(r, key), Place(r) # {},
           CalcPartition(PartitionsOf(ConsumerTopic), key) # {AnyPartition}
    PROVE  LET rem == Rem(ToInt(hash[key]), PartitionsOf(ConsumerTopic)) IN
           \E l \in Logs : \E n \in DOMAIN kafka[l] :
               Origin(kafka[l][n]) = r /\ l = <<ConsumerTopic, rem>>
<1> DEFINE rem == Rem(ToInt(hash[key]), PartitionsOf(ConsumerTopic))
<1>1. PICK l \in Logs : \E n \in DOMAIN kafka[l] : Origin(kafka[l][n]) = r
  BY PlaceInLog
<1>2. PICK n \in DOMAIN kafka[l] : Origin(kafka[l][n]) = r
  BY <1>1
<1>3. Logged(l, kafka[l][n])
  BY <1>2 DEF Provenance
<1>4. /\ kafka[l][n].topic = Body(asked[r]).acl.topic
      /\ MadeOf(r).topic = Body(asked[r]).acl.topic
      /\ MadeOf(r).partitionKey = Body(asked[r]).partitionKey
  BY <1>2, <1>3, MadeShape DEF Logged, MadeOf
<1>5. Body(asked[r]).acl.topic # Empty
  BY <1>3, <1>4 DEF Logged
<1>6. MadeOf(r).topic = ConsumerTopic /\ MadeOf(r).partitionKey = key /\ key # Empty
  BY <1>4, <1>5, ParsedBody, DataPathAssumption DEF Routed
<1>7. l[1] = ConsumerTopic /\ RoutedTo(l, MadeOf(r))
  BY <1>2, <1>3, <1>4, <1>6 DEF Logged
<1>8. CalcPartition(PartitionsOf(ConsumerTopic), key) \in {{}, {rem}}
  BY <1>6 DEF CalcPartition
<1>9. l[2] = rem
  <2> HIDE DEF rem
  <2> QED
    BY <1>6, <1>7, <1>8 DEF RoutedTo
<1>10. l = <<l[1], l[2]>>
  BY DEF Logs
<1>11. QED
  BY <1>2, <1>7, <1>9, <1>10

\* Neither a rebalance nor a crash makes ConsumeLoop hand on a request to AsyncCall
\* for the first time before an earlier one of its topic and key.
THEOREM KeyOrderCorrect == Spec => []KeyOrder
<1>1. Types /\ Provenance /\ Ordered /\ InTurn => KeyOrder
  <2> SUFFICES ASSUME Types, Provenance, Ordered, InTurn, NEW key \in Keys,
                      CalcPartition(PartitionsOf(ConsumerTopic), key) # {AnyPartition},
                      NEW a \in DOMAIN received, NEW b \in DOMAIN received, a < b,
                      NEW q, q = received[a], NEW r, r = received[b],
                      Routed(q, key), Routed(r, key), Place(q) # {}, Place(r) # {}
               PROVE  First(q) < First(r)
    BY DEF KeyOrder
  <2>0. /\ Before(q, r)
        /\ kafka \in [Logs -> Seq(Payload)]
    BY DEF Before, Types
  <2> DEFINE log == <<ConsumerTopic, Rem(ToInt(hash[key]), PartitionsOf(ConsumerTopic))>>
  <2>1. /\ log \in Logs
        /\ \E m \in DOMAIN kafka[log] : Origin(kafka[log][m]) = q
        /\ \E n \in DOMAIN kafka[log] : Origin(kafka[log][n]) = r
    <3>1. \E l \in Logs : \E m \in DOMAIN kafka[l] : Origin(kafka[l][m]) = q /\ l = log
      BY RoutedPlace
    <3>2. \E l \in Logs : \E n \in DOMAIN kafka[l] : Origin(kafka[l][n]) = r /\ l = log
      BY RoutedPlace
    <3>3. QED
      BY <3>1, <3>2
  <2> HIDE DEF log
  <2>2. PICK m \in DOMAIN kafka[log], n \in DOMAIN kafka[log] :
             Origin(kafka[log][m]) = q /\ Origin(kafka[log][n]) = r
    BY <2>1
  <2>3. m < n
    <3>1. m \in Nat /\ n \in Nat
      BY <2>0, <2>1
    <3>2. m # n /\ ~(n < m)
      BY <2>0, <2>1, <2>2, BeforeIsOrder DEF Ordered
    <3>3. QED
      BY <3>1, <3>2
  <2>4. First(r) \in Place(r)
    BY FirstPlace
  <2>5. PICK i \in Place(q) : i < First(r)
    BY <2>1, <2>2, <2>3, <2>4 DEF InTurn, Follows
  <2>6. First(q) \in Place(q) /\ First(q) <= i
    BY FirstPlace
  <2>7. Place(q) \subseteq Nat /\ Place(r) \subseteq Nat
    <3>1. DOMAIN handed \subseteq Nat
      BY DEF Types
    <3>2. Place(q) \subseteq DOMAIN handed /\ Place(r) \subseteq DOMAIN handed
      BY DEF Place
    <3>3. QED
      BY <3>1, <3>2
  <2>8. QED
    BY <2>4, <2>5, <2>6, <2>7
<1>2. QED
  BY <1>1, InTurnInv, OrderedInv, ProvenanceInv, TypesInv, PTL
=============================================================================

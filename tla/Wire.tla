-------------------------------- MODULE Wire --------------------------------
(***************************************************************************)
(* The types of proto/, as pure operators.  An object is a record of its   *)
(* members, which the getters read; a setter assigns its parameter to      *)
(* itself, so an object is filled by its constructor and by parsing alone. *)
(* A JSON text is a function from the keys it has to their strings, or     *)
(* NotJson.  asString() converts numbers and booleans, and throws on null, *)
(* arrays and objects: such a value is a key the text does not have.       *)
(*                                                                         *)
(* FromJSON returns the object as it leaves it, and whether it throws:     *)
(* members are assigned in the order of the code, up to the first that     *)
(* throws.  RequestBody and RequestMessage open their argument as a file:  *)
(* content is what the file of that name holds, and NotJson where there is *)
(* none, for parseJson throws on the empty text an unopened file reads as. *)
(***************************************************************************)
EXTENDS Integers, Sequences, Functions

CONSTANTS Empty,    \* the empty string
          NotJson   \* a text that parseJson throws on

KeysOf(json) == IF json = NotJson THEN {} ELSE DOMAIN json

\* g, with what f has assigned over it.
Over(f, g) == [x \in DOMAIN f \cup DOMAIN g |-> IF x \in DOMAIN f THEN f[x] ELSE g[x]]

\* The keys read before the first that is not there, and the members they fill.
ReadUpTo(json, keys) ==
    {keys[i] : i \in {j \in DOMAIN keys : \A h \in 1..j : keys[h] \in KeysOf(json)}}
Filled(self, json, keys) == Over([f \in ReadUpTo(json, keys) |-> json[f]], self)
Throws(json, keys) == ~(Range(keys) \subseteq KeysOf(json))

-----------------------------------------------------------------------------
(* AccessControlList.  What throws past parseJson is caught, and the false *)
(* that FromJSON then returns is tested by no caller.                      *)

AccessControlList == [topic |-> Empty, name |-> Empty, secret |-> Empty]

TopicFirst(acl, json) ==                                          \* a mutant
    [self |-> Filled(acl, json, <<"topic", "name", "secret">>),
     throws |-> json = NotJson]
ACLFromJSON(acl, json) ==
    [self |-> Filled(acl, json, <<"name", "secret", "topic">>),
     throws |-> json = NotJson]

-----------------------------------------------------------------------------
(* RequestBody.                                                            *)

RequestBody ==
    [acl |-> AccessControlList, partitionKey |-> Empty, url |-> Empty, data |-> Empty]

BodyKeys == <<"url", "data", "partitionKey">>
ACLBeforeBody(self, content) ==                                   \* a mutant
    LET acl == ACLFromJSON(self.acl, IF "acl" \in KeysOf(content) THEN content.acl
                                                                   ELSE NotJson)
    IN  [self |-> [Filled(self, content, BodyKeys) EXCEPT !.acl = acl.self],
         throws |-> Throws(content, BodyKeys) \/ acl.throws]
ParseFromJSON(self, content) ==
    LET body == Filled(self, content, BodyKeys)
    IN  IF Throws(content, BodyKeys \o <<"acl">>)
        THEN [self |-> body, throws |-> TRUE]
        ELSE LET acl == ACLFromJSON(self.acl, content.acl)
             IN  [self |-> [body EXCEPT !.acl = acl.self], throws |-> acl.throws]

-----------------------------------------------------------------------------
(* RequestMessage.  Headers are a function from names to values.           *)

EmptyMessage == [headers |-> <<>>, partitionKey |-> Empty, topic |-> Empty,
                 url |-> Empty, data |-> Empty]

RequestMessage(headers, body) ==
    [headers |-> headers, partitionKey |-> body.partitionKey,
     topic |-> body.acl.topic, url |-> body.url, data |-> body.data]

\* Neither the topic nor the partition key is read back.
MessageKeys == <<"url", "data", "headers">>
FromJSON(self, content) ==
    LET strings == Filled(self, content, <<"url", "data">>)
    IN  IF Throws(content, MessageKeys)
        THEN [self |-> strings, throws |-> TRUE]
        ELSE [self |-> [strings EXCEPT !.headers = Over(content.headers, @)],
              throws |-> FALSE]

URLTwice(msg) == [headers |-> msg.headers, url |-> msg.url, data |-> msg.url,
                  topic |-> msg.topic]                            \* a mutant
ToJSON(msg) == [headers |-> msg.headers, url |-> msg.url, data |-> msg.data,
                topic |-> msg.topic]

\* CallResp, of which a client tells apart the errno.
Misnamed(errcode) == [err |-> errcode]                            \* a mutant
CallResp(errcode) == [errno |-> errcode]
=============================================================================

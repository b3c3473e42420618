---------------------------- MODULE BoundedFifo ----------------------------
(***************************************************************************)
(* What a bounded blocking queue promises its callers, with no mutex and   *)
(* no condition variable in sight: a call of put takes effect at one       *)
(* instant at which there is room, a call of take at one instant at which  *)
(* there is an element, elements leave in the order they came, and         *)
(*  - while there is room and somebody is putting, some put takes effect;  *)
(*  - while there is an element and somebody is taking, some take does.    *)
(***************************************************************************)
EXTENDS Naturals, Sequences

CONSTANTS Capacity, Putters, Takers, Values, None, MaxPuts

VARIABLES items,      \* the elements of the queue
          putting,    \* the argument of each putter's call of put, or None
          taking,     \* the takers with a call of take in progress
          accepted,   \* every element a put has added, in order
          delivered   \* every element a take has returned, in order

vars == <<items, putting, taking, accepted, delivered>>

Init == /\ items = <<>> /\ accepted = <<>> /\ delivered = <<>>
        /\ putting = [p \in Putters |-> None]
        /\ taking = {}

CallPut(p, x) == /\ putting[p] = None
                 /\ Len(accepted) < MaxPuts
                 /\ putting' = [putting EXCEPT ![p] = x]
                 /\ UNCHANGED <<items, taking, accepted, delivered>>

Put(p) == /\ putting[p] # None
          /\ Len(items) < Capacity
          /\ items' = Append(items, putting[p])
          /\ accepted' = Append(accepted, putting[p])
          /\ putting' = [putting EXCEPT ![p] = None]
          /\ UNCHANGED <<taking, delivered>>

CallTake(t) == /\ t \notin taking
               /\ taking' = taking \cup {t}
               /\ UNCHANGED <<items, putting, accepted, delivered>>

Take(t) == /\ t \in taking
           /\ items # <<>>
           /\ items' = Tail(items)
           /\ delivered' = Append(delivered, Head(items))
           /\ taking' = taking \ {t}
           /\ UNCHANGED <<putting, accepted>>

Next == \/ \E p \in Putters : Put(p) \/ \E x \in Values : CallPut(p, x)
        \/ \E t \in Takers : Take(t) \/ CallTake(t)

Safety == Init /\ [][Next]_vars

Spec == /\ Safety
        /\ WF_vars(\E p \in Putters : Put(p))
        /\ WF_vars(\E t \in Takers : Take(t))
=============================================================================

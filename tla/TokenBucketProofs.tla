------------------------- MODULE TokenBucketProofs -------------------------
(***************************************************************************)
(* No call of GetToken sleeps at a rate of at least the tokens it asks     *)
(* for, which is what AsyncClient does with any rate of 1 or more.  (It is *)
(* also what keeps the bucket from limiting anything.)                     *)
(***************************************************************************)
EXTENDS TokenBucket, TLAPS

Rated == /\ rate \in Nat /\ Second \in Nat /\ MaxTime \in Nat
         /\ Counts \subseteq Nat /\ \A count \in Counts : count <= rate

\* The numbers are numbers, and nobody holds the mutex between two calls.
IInv == /\ now \in Int /\ lastFillTime \in Int /\ tokenCount \in Int
        /\ NeverSleeps

\* A bucket is filled up to its capacity or beyond: max where min is meant.
LEMMA FullAtLeast ==
    ASSUME Rated, IInv
    PROVE  Refilled \in Int /\ Refilled >= capacity
<1> DEFINE passed == now - lastFillTime
<1>1. passed * rate \in Int
    BY DEF Rated, IInv
<1>2. passed * rate + tokenCount \in Int /\ capacity \in Int
    BY <1>1 DEF Rated, IInv, capacity
<1> QED
    BY <1>2 DEF Refilled, tokenPerMicroSecond

\* More of one factor is no less of the product.
LEMMA Monotone ==
    ASSUME NEW a \in Nat, NEW b \in Nat, NEW c \in Nat, a <= b
    PROVE  a * c <= b * c /\ a * c \in Nat /\ b * c \in Nat
<1> DEFINE d == b - a
<1>1. d \in Nat /\ b = a + d
    OBVIOUS
<1> HIDE DEF d
<1>2. b * c = a * c + d * c
    BY <1>1
<1>3. d * c \in Nat /\ a * c \in Nat
    BY <1>1
<1> QED
    BY <1>2, <1>3

\* No call of GetToken ever sleeps with the mutex held, whatever the callers and
\* the times of their calls, at a rate of at least the tokens a call asks for.
THEOREM NeverSleepsCorrect ==
    ASSUME Rated
    PROVE  Spec => []NeverSleeps
<1>1. Init => IInv
    BY DEF Init, IInv, NeverSleeps, Rated, capacity
<1>2. IInv /\ [Next]_vars => IInv'
  <2> SUFFICES ASSUME IInv, [Next]_vars PROVE IInv'
      OBVIOUS
  <2>1. CASE \E c \in Callers, count \in Counts : GetToken(c, count)
    <3>1. PICK c \in Callers, count \in Counts : GetToken(c, count)
        BY <2>1
    <3>2. count * Second <= capacity /\ count * Second \in Nat /\ capacity \in Nat
        BY Monotone DEF Rated, capacity
    <3>3. Refilled \in Int /\ ~(Refilled < count * Second)
        BY <3>2, FullAtLeast
    <3>4. tokenCount' = Refilled - count * Second /\ UNCHANGED <<holder, now>>
        BY <3>1, <3>3 DEF GetToken
    <3> QED
        BY <3>1, <3>2, <3>3, <3>4 DEF GetToken, tryFillBucket, IInv, NeverSleeps
  <2>2. CASE WakeUp
      BY <2>2 DEF WakeUp, IInv, NeverSleeps
  <2>3. CASE Tick
      BY <2>3 DEF Tick, IInv, NeverSleeps, Rated
  <2>4. CASE UNCHANGED vars
      BY <2>4 DEF vars, IInv, NeverSleeps
  <2> QED
      BY <2>1, <2>2, <2>3, <2>4 DEF Next
<1>3. IInv => NeverSleeps
    BY DEF IInv
<1> QED
    BY <1>1, <1>2, <1>3, PTL DEF Spec
=============================================================================

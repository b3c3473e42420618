---------------------------- MODULE TokenBucket ----------------------------
(***************************************************************************)
(* The class TokenBucket of client/rate_limit.h, and the callers of        *)
(* GetToken.  A critical section is one step, except that GetToken sleeps  *)
(* with the mutex held.                                                    *)
(*                                                                         *)
(* Time is in microseconds, a number of tokens in 1/Second: the doubles of *)
(* the code are exact then.  AsyncClient asks for one token at a time.     *)
(***************************************************************************)
EXTENDS Integers

CONSTANTS Callers, None,
          rate,         \* tokens per second
          Counts,       \* how many tokens a caller asks for
          Second,       \* microseconds in a second
          Millisecond,  \* microseconds in a millisecond
          MaxTime       \* bound: when the clock stops

VARIABLES now,           \* external: the steady clock
          lastFillTime, tokenCount,
          holder,        \* who sleeps with the mutex, or None
          wanted,        \* the tokens it has asked for
          wakeTime,      \* when its sleep is over
          granted        \* history: the tokens GetToken has returned with

vars == <<now, lastFillTime, tokenCount, holder, wanted, wakeTime, granted>>

tokenPerMicroSecond == rate
capacity == rate * Second

Init == /\ now = 0 /\ lastFillTime = now /\ tokenCount = capacity
        /\ holder = None /\ wanted = 0 /\ wakeTime = 0 /\ granted = 0

-----------------------------------------------------------------------------
\* std::max(passedMs * tokenPerMicroSecond + tokenCount, capacity)
Refilled == LET sum == (now - lastFillTime) * tokenPerMicroSecond + tokenCount
            IN  IF sum > capacity THEN sum ELSE capacity
tryFillBucket == lastFillTime' = now

\* int(std::abs(count - tokenCount / tokenPerMicroSecond)); with a rate of 0 it
\* is int(NaN), which is undefined.
Abs(x) == IF x < 0 THEN -x ELSE x
WaitTimes(count, tokens) ==
    IF rate = 0 THEN Nat
    ELSE {Abs(count * tokenPerMicroSecond - tokens) \div Abs(tokenPerMicroSecond)}

GetToken(c, count) ==
    /\ holder = None
    /\ tryFillBucket
    /\ \/ /\ Refilled >= count * Second
          /\ tokenCount' = Refilled - count * Second
          /\ granted' = granted + count
          /\ UNCHANGED <<holder, wanted, wakeTime>>
       \/ /\ Refilled < count * Second
          /\ tokenCount' = Refilled
          /\ holder' = c /\ wanted' = count
          /\ \E waittime \in WaitTimes(count, Refilled) :
                 wakeTime' = now + waittime * Millisecond
          /\ UNCHANGED granted
    /\ UNCHANGED now

\* The sleep is over; lastFillTime stays at its beginning.
WakeUp == /\ holder # None /\ now >= wakeTime
          /\ tokenCount' = 0
          /\ granted' = granted + wanted
          /\ holder' = None /\ wanted' = 0 /\ wakeTime' = 0
          /\ UNCHANGED <<now, lastFillTime>>

\* External: std::chrono::steady_clock.
Tick == /\ \E t \in (now + 1)..MaxTime : now' = t
        /\ UNCHANGED <<lastFillTime, tokenCount, holder, wanted, wakeTime, granted>>

Next == \/ \E c \in Callers, count \in Counts : GetToken(c, count)
        \/ WakeUp \/ Tick

Spec == Init /\ [][Next]_vars

-----------------------------------------------------------------------------
\* rate_limit.h:42, "the number of tokens filled in per microsecond", and :44,
\* "the capacity of the bucket": from its start on, the bucket has handed out no
\* more than it could hold, and what it was filled with since.
RateLimited == granted * Second <= capacity + now * tokenPerMicroSecond

\* With a rate of at least the tokens asked for, no caller of GetToken sleeps.
NeverSleeps == holder = None
=============================================================================

---------------------------- MODULE HealthStats ----------------------------
(***************************************************************************)
(* The class HealthStats of client/circuit_breaker.hpp: a window of one    *)
(* bucket per second.  CircuitBreaker holds its mutex around each call, so *)
(* a call is one step.                                                     *)
(***************************************************************************)
EXTENDS Integers, Sequences, FiniteSetsExt

CONSTANTS maxBuckets,    \* WinSize, in seconds
          bucketThresh,  \* MinStats
          healthThresh,  \* HealthRate, an integer in 1..100 after ParseConfig
          MaxTime,       \* bound: the clock runs up to this second
          MaxCalls       \* bound: the calls counted in a second

VARIABLES now,         \* external: std::time
          buckets, updateTime,
          crashed,     \* the process was terminated
          calls        \* history: the outcomes of each second

vars == <<now, buckets, updateTime, crashed, calls>>

StatsBucket == [nSuccess: Nat, nFail: Nat]

Init == /\ now = 0 /\ updateTime = now /\ buckets = <<>> /\ crashed = FALSE
        /\ calls = [s \in 0..MaxTime |-> [nSuccess |-> 0, nFail |-> 0]]

-----------------------------------------------------------------------------
\* What is left of the window, whose front buckets are the oldest.  The clock may
\* have been set back.
UpToDate == LET bucketsToClean == now - updateTime
            IN  IF bucketsToClean <= 0 THEN buckets
                ELSE IF bucketsToClean >= Len(buckets) THEN <<>>
                ELSE SubSeq(buckets, bucketsToClean + 1, Len(buckets))
UpdateBuckets == updateTime' = IF now > updateTime THEN now ELSE updateTime

SumOf(B, field, S) == MapThenSumSet(LAMBDA i : B[i][field], S)

\* rate >= healthThresh: the rate is at most 1.
Verdict(B) == LET TotalSuccess == SumOf(B, "nSuccess", DOMAIN B)
                  Total == TotalSuccess + SumOf(B, "nFail", DOMAIN B)
              IN  \/ Total = 0 \/ Total < bucketThresh
                  \/ TotalSuccess >= healthThresh * Total
IsHealthy == /\ UpdateBuckets /\ buckets' = UpToDate
             /\ UNCHANGED <<now, crashed, calls>>

\* buckets.back() of an empty deque is undefined: the process ends, or some
\* memory that is not a bucket is changed.
Count(outcome) ==
    /\ calls[now].nSuccess + calls[now].nFail < MaxCalls
    /\ calls' = [calls EXCEPT ![now][outcome] = @ + 1]
    /\ UpdateBuckets
    /\ \/ /\ UpToDate # <<>>
          /\ buckets' = [UpToDate EXCEPT ![Len(UpToDate)][outcome] = @ + 1]
          /\ UNCHANGED crashed
       \/ UpToDate = <<>> /\ buckets' = <<>> /\ crashed' \in BOOLEAN
    /\ UNCHANGED now

OnSuccess == Count("nSuccess")
OnFail == Count("nFail")

\* External: std::time, which can be set back.
Tick == /\ \E t \in (0..MaxTime) \ {now} : now' = t
        /\ UNCHANGED <<buckets, updateTime, crashed, calls>>

Next == ~crashed /\ (IsHealthy \/ OnSuccess \/ OnFail \/ Tick)

Spec == Init /\ [][Next]_vars

-----------------------------------------------------------------------------
\* circuit_breaker.hpp:77, "a sliding window, one bucket per second", and :79,
\* "with fewer than this many counts, healthy at once": what IsHealthy says is
\* what the outcomes of the last maxBuckets seconds say, with the threshold in
\* per cent as ParseConfig takes it.
Window == {s \in 0..now : s > now - maxBuckets}
WindowVerdict == LET Successes == SumOf(calls, "nSuccess", Window)
                     All == Successes + SumOf(calls, "nFail", Window)
                 IN  All < bucketThresh \/ 100 * Successes >= healthThresh * All
VerdictOfWindow == ~crashed => (Verdict(UpToDate) <=> WindowVerdict)

\* No bucket is ever pushed: the window is empty, whatever is counted.
NothingRecorded == buckets = <<>>
=============================================================================

--------------------------- MODULE CircuitBreaker ---------------------------
(***************************************************************************)
(* The class CircuitBreaker of client/circuit_breaker.hpp, and the workers *)
(* of AsyncClient that wait for it in Call.  IsBreak holds the mutex, and  *)
(* is one step, by the case of the switch it takes.                        *)
(*                                                                         *)
(* The verdict of HealthStats is an input, and may be anything at any      *)
(* time: the class must be right for every HealthStats.  (Today's has no   *)
(* bucket in its window, so its only verdict is healthy.)                  *)
(*                                                                         *)
(* The code compares std::time values with breakTime only, so the model    *)
(* keeps their difference, up to MaxAge.  The wall clock may be set back.  *)
(***************************************************************************)
EXTENDS Integers

CONSTANTS Callers, breakPeriod, recoverPeriod, \* in seconds, not validated
          Verdicts,     \* what HealthStats::IsHealthy can say
          MaxAge,       \* bound: a difference that large, or larger
          MaxSetBacks   \* bound: how often the clock is set back by a second

ASSUME BreakerAssumption ==
    /\ breakPeriod \in Int /\ recoverPeriod \in Int
    /\ Verdicts \subseteq BOOLEAN /\ TRUE \in Verdicts
    /\ MaxAge \in Int /\ MaxAge >= breakPeriod
    /\ MaxAge >= breakPeriod + recoverPeriod /\ MaxAge >= 0
    /\ MaxSetBacks \in Nat

VARIABLES status,
          since,     \* now - breakTime, by the wall clock
          caller,    \* "idle": without a task; "gate": in the loop on IsBreak;
                     \* "calling": past it
          healthy,   \* the verdict of HealthStats
          setBacks,  \* how often the clock was set back
          crashed,   \* the process was terminated
          age        \* history: the time since the circuit last opened

CircuitStatus == {"NORMAL", "BREAK", "RECOVER"}

clockVars == <<since, setBacks, age>>
vars == <<clockVars, status, caller, healthy, crashed>>

Init == /\ status = "NORMAL"
        /\ since = MaxAge /\ age = MaxAge /\ setBacks = 0
        /\ caller = [c \in Callers |-> "idle"]
        /\ healthy = TRUE /\ crashed = FALSE

-----------------------------------------------------------------------------
(* IsBreak, called by c.                                                   *)

Pass(c) == caller' = [caller EXCEPT ![c] = "calling"] /\ UNCHANGED clockVars
Wait(c) == UNCHANGED <<caller, clockVars>>

Normal(c) == status = "NORMAL" /\ healthy /\ Pass(c) /\ UNCHANGED status

OpenForgets(c) == /\ status \in {"NORMAL", "RECOVER"} /\ ~healthy \* a mutant
                  /\ status' = "BREAK" /\ age' = 0
                  /\ since' = IF status = "NORMAL" THEN 0 ELSE since
                  /\ UNCHANGED <<caller, setBacks>>
Open(c) == /\ status \in {"NORMAL", "RECOVER"} /\ ~healthy
           /\ status' = "BREAK"
           /\ since' = 0 /\ age' = 0
           /\ UNCHANGED <<caller, setBacks>>

StayOpen(c) == /\ status = "BREAK"
               /\ since < breakPeriod \/ ~healthy
               /\ Wait(c) /\ UNCHANGED status

BeginRecovery(c) == /\ status = "BREAK"
                    /\ since >= breakPeriod /\ healthy
                    /\ status' = "RECOVER" /\ Pass(c)

\* passPercent * 100 < rand() % 100, in exact fractions of the two periods.
Below(r) == LET periods == breakPeriod + recoverPeriod
            IN  IF periods < 0 THEN 100 * since > r * periods
                               ELSE 100 * since < r * periods
RecoveringAnew(c) == /\ status = "RECOVER" /\ healthy             \* a mutant
                     /\ since < breakPeriod + recoverPeriod
                     /\ \/ since >= 0 /\ Pass(c)
                        \/ since' = 0 /\ UNCHANGED <<caller, setBacks, age>>
                     /\ UNCHANGED status
Recovering(c) == /\ status = "RECOVER" /\ healthy
                 /\ since < breakPeriod + recoverPeriod
                 /\ \E r \in 0..99 : IF Below(r) THEN Wait(c) ELSE Pass(c)
                 /\ UNCHANGED status

RecoveredEarly(c) == /\ status = "RECOVER" /\ healthy             \* a mutant
                     /\ since >= recoverPeriod
                     /\ status' = "NORMAL" /\ Pass(c)
Recovered(c) == /\ status = "RECOVER" /\ healthy
                /\ since >= breakPeriod + recoverPeriod
                /\ status' = "NORMAL" /\ Pass(c)

IsBreak(c) == /\ ~crashed /\ caller[c] = "gate"
              /\ \/ Normal(c) \/ Open(c) \/ StayOpen(c) \/ BeginRecovery(c)
                 \/ Recovering(c) \/ Recovered(c)
              /\ UNCHANGED <<healthy, crashed>>

-----------------------------------------------------------------------------
\* The worker takes a task, and begins a Call.
NextTask(c) == /\ ~crashed /\ caller[c] = "idle"
               /\ caller' = [caller EXCEPT ![c] = "gate"]
               /\ UNCHANGED <<clockVars, status, healthy, crashed>>

\* OnSuccess or OnFail.  buckets.back() of an empty deque is undefined: the
\* process ends, or some memory the breaker does not read is changed.
Record == crashed' \in BOOLEAN

\* Then the call goes on to another attempt, without a new IsBreak, or ends, and
\* the worker is back in ThreadPool::take.
Notify(c) == /\ ~crashed /\ caller[c] = "calling"
             /\ Record
             /\ caller' \in {caller, [caller EXCEPT ![c] = "idle"]}
             /\ UNCHANGED <<clockVars, status, healthy>>

\* External: the window of HealthStats moves on, and with it its verdict.
Judge == /\ ~crashed /\ healthy' \in Verdicts
         /\ UNCHANGED <<clockVars, status, caller, crashed>>

\* External: std::time.
Older(x) == IF x < MaxAge THEN x + 1 ELSE x
Tick == /\ ~crashed
        /\ since' = Older(since) /\ age' = Older(age)
        /\ UNCHANGED <<status, caller, healthy, setBacks, crashed>>
SetBack == /\ ~crashed /\ setBacks < MaxSetBacks
           /\ setBacks' = setBacks + 1
           /\ since' \in {since - 1} \cup {x \in {MaxAge} : since = MaxAge}
           /\ UNCHANGED <<status, caller, healthy, age, crashed>>

Next == \/ \E c \in Callers : NextTask(c) \/ IsBreak(c) \/ Notify(c)
        \/ Judge \/ Tick \/ SetBack

Spec == Init /\ [][Next]_vars

\* Time passes, and a worker that waits asks again every second.  Messages need
\* not come, a call may make attempts for ever, and the verdict stay as it is.
FairSpec == /\ Spec
            /\ WF_vars(Tick)
            /\ \A c \in Callers : WF_vars(IsBreak(c))

-----------------------------------------------------------------------------
\* Every variable has its type, and outside NORMAL breakTime is the time of the
\* last opening, which a clock that was set back makes look more recent.
TypeOK == /\ status \in CircuitStatus
          /\ since \in Int /\ since <= MaxAge
          /\ age \in 0..MaxAge /\ setBacks \in 0..MaxSetBacks
          /\ caller \in [Callers -> {"idle", "gate", "calling"}]
          /\ healthy \in BOOLEAN /\ crashed \in BOOLEAN
          /\ status # "NORMAL" => since <= age

LetsThrough(c) == caller[c] = "gate" /\ caller'[c] = "calling"

\* An open circuit holds: whichever worker asks, and whatever the verdicts were
\* in between, none is let through for breakPeriod after the last opening.
BreakHolds ==
    [][\A c \in Callers : LetsThrough(c) => age >= breakPeriod]_vars

\* The way back to NORMAL takes the whole of both periods since the last
\* opening: a verdict that flaps begins the wait anew.
NormalLate ==
    [][(status' = "NORMAL" /\ status # "NORMAL")
            => age >= breakPeriod + recoverPeriod]_vars

\* If the verdict stays healthy from some time on, and workers go on coming to the
\* gate, the circuit closes for good.  Only IsBreak moves the status on: without
\* messages to call, BREAK and RECOVER last as long as the silence does.
Recovers == <>[]healthy /\ []<>(\E c \in Callers : caller[c] = "gate")
                => <>[](status = "NORMAL" \/ crashed)
=============================================================================

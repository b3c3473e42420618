------------------------ MODULE CircuitBreakerProofs ------------------------
(***************************************************************************)
(* The safety of CircuitBreaker for all periods (zero and negative ones,   *)
(* which ParseConfig lets through), any number of workers, any verdicts    *)
(* and any number of times the clock is set back.                          *)
(***************************************************************************)
EXTENDS CircuitBreaker, TLAPS

\* A circuit that lets calls through last opened breakPeriod ago or earlier.
Rested == status # "BREAK" => age >= breakPeriod

IInv == TypeOK /\ Rested

THEOREM InitInv == Init => IInv
<1> SUFFICES ASSUME Init PROVE IInv
  OBVIOUS
<1>1. healthy \in BOOLEAN /\ crashed \in BOOLEAN
  BY DEF Init
<1>2. since \in Int /\ since <= MaxAge /\ age \in 0..MaxAge
  BY BreakerAssumption DEF Init
<1>3. setBacks \in 0..MaxSetBacks
  BY BreakerAssumption DEF Init
<1>4. caller \in [Callers -> {"idle", "gate", "calling"}]
  BY DEF Init
<1>5. QED
  BY <1>1, <1>2, <1>3, <1>4, BreakerAssumption DEF Init, IInv, TypeOK, CircuitStatus, Rested

\* The cases of IsBreak.
LEMMA IsBreakStep == ASSUME IInv, NEW c \in Callers, IsBreak(c) PROVE IInv'
<1> USE BreakerAssumption DEF IInv, TypeOK, CircuitStatus, Rested, clockVars, IsBreak
<1>1. CASE Normal(c)
  BY <1>1 DEF Normal, Pass
<1>2. CASE Open(c)
  BY <1>2 DEF Open
<1>3. CASE StayOpen(c)
  BY <1>3 DEF StayOpen, Wait
<1>4. CASE BeginRecovery(c)
  BY <1>4 DEF BeginRecovery, Pass
<1>5. CASE Recovering(c)
  BY <1>5 DEF Recovering, Pass, Wait
<1>6. CASE Recovered(c)
  BY <1>6 DEF Recovered, Pass
<1>7. QED
  BY <1>1, <1>2, <1>3, <1>4, <1>5, <1>6

\* Every step keeps the invariant: the clock only matters in Tick and SetBack.
THEOREM StepInv == IInv /\ [Next]_vars => IInv'
<1> SUFFICES ASSUME IInv, [Next]_vars PROVE IInv'
  OBVIOUS
<1> USE BreakerAssumption
<1>1. ASSUME NEW c \in Callers, IsBreak(c) PROVE IInv'
  BY <1>1, IsBreakStep
<1>2. ASSUME NEW c \in Callers, NextTask(c) \/ Notify(c) PROVE IInv'
  BY <1>2 DEF NextTask, Notify, Record, IInv, TypeOK, Rested, clockVars
<1>3. CASE Judge
  BY <1>3 DEF Judge, IInv, TypeOK, Rested, clockVars
<1>4. CASE Tick
  BY <1>4 DEF Tick, Older, IInv, TypeOK, Rested
<1>5. CASE SetBack
  BY <1>5 DEF SetBack, IInv, TypeOK, Rested
<1>6. CASE UNCHANGED vars
  BY <1>6 DEF vars, clockVars, IInv, TypeOK, Rested
<1>7. QED
  BY <1>1, <1>2, <1>3, <1>4, <1>5, <1>6 DEF Next

LEMMA Invariant == Spec => []IInv
  BY InitInv, StepInv, PTL DEF Spec

-----------------------------------------------------------------------------
\* Every variable keeps its type, and outside NORMAL the code's difference
\* now - breakTime is at most the time since the circuit last opened.
THEOREM TypeCorrect == Spec => []TypeOK
<1>1. IInv => TypeOK
  BY DEF IInv
<1>2. QED
  BY <1>1, Invariant, PTL

\* No worker is let through within breakPeriod of the last opening.
THEOREM BreakHoldsCorrect == Spec => BreakHolds
<1> DEFINE Held == \A c \in Callers : LetsThrough(c) => age >= breakPeriod
<1>1. ASSUME IInv, [Next]_vars PROVE [Held]_vars
  <2> SUFFICES ASSUME Next, NEW c \in Callers, LetsThrough(c)
               PROVE  age >= breakPeriod
    BY <1>1
  <2>1. status = "BREAK" => since >= breakPeriod
    <3>1. PICK d \in Callers : IsBreak(d)
      <4>1. ASSUME NEW d \in Callers, NextTask(d) \/ Notify(d) PROVE FALSE
        BY <1>1, <4>1 DEF LetsThrough, NextTask, Notify, Record, IInv, TypeOK
      <4>2. QED
        BY <4>1 DEF Next, LetsThrough, Judge, Tick, SetBack
    <3>2. d = c
      BY <1>1, <3>1 DEF LetsThrough, IsBreak, Normal, Open, StayOpen,
                BeginRecovery, Recovering, Recovered, Pass, Wait, IInv, TypeOK
    <3>3. QED
      BY <1>1, <3>1, <3>2, BreakerAssumption
         DEF LetsThrough, IsBreak, Normal, Open, StayOpen,
             BeginRecovery, Recovering, Recovered, Pass, Wait, IInv, TypeOK
  <2>2. QED
    BY <1>1, <2>1, BreakerAssumption DEF IInv, TypeOK, Rested
<1>2. QED
  BY <1>1, Invariant, PTL DEF Spec, BreakHolds

\* The circuit closes only when both periods have passed since it last opened.
THEOREM NormalLateCorrect == Spec => NormalLate
<1> DEFINE Late == (status' = "NORMAL" /\ status # "NORMAL")
                       => age >= breakPeriod + recoverPeriod
<1>1. ASSUME IInv, [Next]_vars PROVE [Late]_vars
  <2> SUFFICES ASSUME Next, status' = "NORMAL", status # "NORMAL"
               PROVE  age >= breakPeriod + recoverPeriod
    BY <1>1
  <2>1. PICK c \in Callers : IsBreak(c)
    BY DEF Next, NextTask, Notify, Judge, Tick, SetBack
  <2>2. Recovered(c)
    BY <2>1 DEF IsBreak, Normal, Open, StayOpen, BeginRecovery, Recovering
  <2>3. QED
    BY <1>1, <2>2, BreakerAssumption DEF Recovered, IInv, TypeOK
<1>2. QED
  BY <1>1, Invariant, PTL DEF Spec, NormalLate

-----------------------------------------------------------------------------
(* HealthStats, which CircuitBreaker calls and takes any verdict of.  The  *)
(* window stays empty, for every size, threshold and clock: the verdict of *)
(* today's HealthStats is that of no calls at all.                         *)

CONSTANTS maxBuckets, bucketThresh, healthThresh, MaxTime, MaxCalls
VARIABLES now, buckets, updateTime, calls

Stats == INSTANCE HealthStats

StatsInv == Stats!NothingRecorded /\ now \in Int /\ updateTime \in Int

\* Nothing is left of a window that held nothing.
LEMMA EmptyStaysEmpty ==
    ASSUME StatsInv
    PROVE  Stats!UpToDate = <<>>
BY DEF StatsInv, Stats!NothingRecorded, Stats!UpToDate

\* No sequence of calls and no clock puts a bucket into the window.
THEOREM NothingRecordedCorrect ==
    ASSUME MaxTime \in Nat
    PROVE  Stats!Spec => []Stats!NothingRecorded
<1>1. Stats!Init => StatsInv
  BY DEF Stats!Init, StatsInv, Stats!NothingRecorded
<1>2. StatsInv /\ [Stats!Next]_(Stats!vars) => StatsInv'
  <2> SUFFICES ASSUME StatsInv, [Stats!Next]_(Stats!vars) PROVE StatsInv'
    OBVIOUS
  <2>1. Stats!UpToDate = <<>>
    BY EmptyStaysEmpty
  <2>2. CASE Stats!IsHealthy
    BY <2>1, <2>2 DEF Stats!IsHealthy, Stats!UpdateBuckets, StatsInv, Stats!NothingRecorded
  <2>3. ASSUME NEW outcome, Stats!Count(outcome) PROVE StatsInv'
    BY <2>1, <2>3 DEF Stats!Count, Stats!UpdateBuckets, StatsInv, Stats!NothingRecorded
  <2>4. CASE Stats!Tick
    BY <2>4 DEF Stats!Tick, StatsInv, Stats!NothingRecorded
  <2>5. CASE UNCHANGED Stats!vars
    BY <2>5 DEF Stats!vars, StatsInv, Stats!NothingRecorded
  <2> QED
    BY <2>2, <2>3, <2>4, <2>5 DEF Stats!Next, Stats!OnSuccess, Stats!OnFail
<1>3. StatsInv => Stats!NothingRecorded
  BY DEF StatsInv
<1> QED
  BY <1>1, <1>2, <1>3, PTL DEF Stats!Spec
=============================================================================

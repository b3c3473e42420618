\* The process may end by a crash, hence no deadlock check.
SPECIFICATION FairSpec
CONSTANTS
  Callers = {c1, c2}
  breakPeriod = 2
  recoverPeriod = 2
  Verdicts = {TRUE, FALSE}
  MaxAge = 5
  MaxSetBacks = 2
CHECK_DEADLOCK FALSE
INVARIANT TypeOK
PROPERTIES BreakHolds NormalLate Recovers

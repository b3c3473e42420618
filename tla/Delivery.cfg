\* The process may end, by Stop or by a crash, hence no deadlock check.
SPECIFICATION FairSpec
CONSTANTS
  Capacity = 1
  maxThreads = 2
  Exit = Exit
  None = None
  NMessages = 4
  Retries <- NoneOrOne
CHECK_DEADLOCK FALSE
INVARIANTS TypeOK AsyncCallAsserts OwnOrLater OneSuccessPerTask FewTasksUnderWay
PROPERTY EveryMessageCalled

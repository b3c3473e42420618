\* Two workers, and a queue that cannot fill up.
SPECIFICATION FairSpec
CONSTANTS
  Capacity = 4
  maxThreads = 2
  Tasks = {a}
  Endless = {}
  Exit = Exit
  None = None
CHECK_DEADLOCK FALSE
PROPERTY StopReturns

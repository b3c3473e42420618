\* main returns, or the process ends, hence no deadlock check.
SPECIFICATION FairSpec
CONSTANTS
  Topics = {"t1", "t2"}
  Null = Null
CHECK_DEADLOCK FALSE
PROPERTY AcceptedIsServed

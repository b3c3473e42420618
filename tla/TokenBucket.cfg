\* A second of four microseconds: the bucket starts with two tokens.
SPECIFICATION Spec
CONSTANTS
  Callers = {c1, c2}
  None = None
  rate = 2
  Counts = {1}
  Second = 4
  Millisecond = 1
  MaxTime = 8
CHECK_DEADLOCK FALSE
INVARIANT RateLimited

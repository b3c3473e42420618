\* The pool may stop for good once Stop has returned (or, with two workers,
\* once it hangs), hence no deadlock check.
SPECIFICATION FairSpec
CONSTANTS
  Capacity = 2
  maxThreads = 2
  Tasks = {a, b, c}
  Endless = {c}
  Exit = Exit
  None = None
CHECK_DEADLOCK FALSE
INVARIANTS TypeOK TaskInOnePlace OneMoreAtMost QuietAfterStop
PROPERTY TasksStart

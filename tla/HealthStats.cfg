\* A window of two seconds; two calls are enough for a verdict.
SPECIFICATION Spec
CONSTANTS
  maxBuckets = 2
  bucketThresh = 2
  healthThresh = 50
  MaxTime = 3
  MaxCalls = 2
CHECK_DEADLOCK FALSE
INVARIANT VerdictOfWindow

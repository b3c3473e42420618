\* One taker, as the Pushing thread is the only taker of taskchan.
SPECIFICATION FairSpec
CONSTANTS
  Capacity = 2
  Putters = {p1, p2, p3}
  Takers = {t1}
  Values = {v1}
  None = None
  MaxPuts = 4
PROPERTY FifoPromise

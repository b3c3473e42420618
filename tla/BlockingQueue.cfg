\* Two takers, and more elements than takers.
SPECIFICATION FairSpec
CONSTANTS
  Putters = {p1, p2}
  Takers = {t1, t2}
  Values = {v1, v2}
  None = None
  MaxPuts = 3
INVARIANTS TypeOK NoLostElement
PROPERTY FifoPromise

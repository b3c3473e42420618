\* Two putters and two takers on a ring of two: every interleaving of sleeping,
\* waking and barging of threads that outnumber the places.
SPECIFICATION Spec
CONSTANTS
  Capacity = 2
  Putters = {p1, p2, p3}
  Takers = {t1, t2}
  Values = {v1, v2}
  None = None
  MaxPuts = 4
SYMMETRY Symmetry
INVARIANTS TypeOK FifoOrder SomeTakerAwake NoLostNotFull
PROPERTY FifoSafety

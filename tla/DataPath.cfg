\* The process may end by a crash, or have no more requests, hence no deadlock
\* check.  An int of three bits: the hashes are the ints 2, -2, -1 and -3, of
\* which the remainders by 3 are 2, -2, -1 and 0.  The second assignment is after a
\* restart or a revocation.
SPECIFICATION Spec
CONSTANTS
  Requests = {r1, r2}
  t = t
  n = n
  u = u
  Topics = {t, n, u}
  Keys = {k}
  Partitions <- Configured
  KafkaTopics <- InKafka
  ConsumerTopic = t
  Hashes = {2, 6, 7, 13}
  IntWidth = 3
  None = None
  MaxAssigns = 2
  Empty = Empty
  NotJson = NotJson
CHECK_DEADLOCK FALSE
SYMMETRY Symmetry
INVARIANTS TypeOK RefusedNeverSent OnlyCompleteSent HandedAsAsked KeyOrder OneForgottenPerCrash

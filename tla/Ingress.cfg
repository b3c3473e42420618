\* The process may end, by Stop or by a crash, hence no deadlock check.
SPECIFICATION FairSpec
CONSTANTS
  Capacity = 2
  Requests = {f, g, h, m, n}
  Malformed = {m}
  NoTopic = {n}
  Unroutable = {h}
  Exit = Exit
  None = None
  OutQueueLimit = 2
  MaxSignals = 1
CHECK_DEADLOCK FALSE
INVARIANTS TypeOK ProducedInOrder HandlerSleepsOnlyAtStop
PROPERTIES AnsweredByFate NothingProducedAfterJoin AckedIsProduced HandlerAnswers StopReturns

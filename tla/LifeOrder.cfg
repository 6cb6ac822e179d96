\* Both signals, at any moment, on top of any thread: the order of the
\* teardown, and the end of the process after one signal that finds main() in Wait().
CONSTANTS
  r1 = r1  r2 = r2  SIGINT = SIGINT  SIGTERM = SIGTERM  Free = Free
  Rpcs = {r1, r2}
  Signals = {SIGINT, SIGTERM}
  HandlerThreads <- OnAnyThread
  EarlySignals = TRUE
SPECIFICATION FairSpec
INVARIANTS
  TypeOK
  ClientServesItsUsers
  NothingBlocksTheStop
PROPERTIES
  ImplementsModes
  SignalEndsInOrder
CHECK_DEADLOCK FALSE

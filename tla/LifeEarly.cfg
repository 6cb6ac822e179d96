\* A signal before global_server_ptr is set.
CONSTANTS
  r1 = r1  r2 = r2  SIGINT = SIGINT  SIGTERM = SIGTERM  Free = Free
  Rpcs = {r1, r2}
  Signals = {SIGTERM}
  HandlerThreads <- OnMain
  EarlySignals = TRUE
SPECIFICATION FairSpec
PROPERTIES
  EarlySignalEndsProcess

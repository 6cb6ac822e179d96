\* A second signal while the first one's handler runs.
CONSTANTS
  r1 = r1  r2 = r2  SIGINT = SIGINT  SIGTERM = SIGTERM  Free = Free
  Rpcs = {r1, r2}
  Signals = {SIGINT, SIGTERM}
  HandlerThreads <- OnMain
  EarlySignals = FALSE
SPECIFICATION FairSpec
PROPERTIES
  SignalEndsProcess

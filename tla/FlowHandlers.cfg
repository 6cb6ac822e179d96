\* Two handler threads over a short queue: accepted requests and orderly stops.
CONSTANTS
  h1 = h1  h2 = h2  s1 = s1  s2 = s2
  empty = empty  clean = clean  rude = rude
  None = None  BadKey = BadKey  Reported = Reported
  Ids <- MCIds
  Texts <- MCTexts
  EmptyText = empty
  FlaggedTexts <- MCFlaggedTexts
  Handlers = {h1, h2}
  Slots = {s1, s2}
  GrpcRequests <- MCRequests
  ForeignMessages <- KeylessOrClean
  MaxRequests = 2
  MaxSessions = 2
  Faults = {"crash", "expire", "produce"}
SPECIFICATION Spec
SYMMETRY Symmetry
INVARIANTS
  AcceptedAccounted
PROPERTIES
  OrderlyStopLosesNothing
  ImplementsModes

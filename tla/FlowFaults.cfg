\* Every fault, two sessions: the promise, the accounts, and how
\* often a message is recorded or forgotten.
CONSTANTS
  h1 = h1  h2 = h2  s1 = s1  s2 = s2
  empty = empty  clean = clean  rude = rude
  None = None  BadKey = BadKey  Reported = Reported
  Ids <- MCIds
  Texts <- MCTexts
  EmptyText = empty
  FlaggedTexts <- MCFlaggedTexts
  Handlers = {h1}
  Slots = {s1, s2}
  GrpcRequests <- OneRequest
  ForeignMessages <- MCForeign
  MaxRequests = 2
  MaxSessions = 2
  Faults = {"crash", "rejoin", "expire", "ack", "produce", "text", "db", "flush", "commit"}
SPECIFICATION Spec
SYMMETRY Symmetry
INVARIANTS
  TypeOK
  AcceptedAccounted
  HandledAccounted
  RowsBoundedBySessions
  LossBoundedByCrashes
PROPERTIES
  ImplementsPromise

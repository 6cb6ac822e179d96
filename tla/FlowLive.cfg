\* Progress of the consumer, the producer, the stop and every message, under faults.
CONSTANTS
  h1 = h1  h2 = h2  s1 = s1  s2 = s2
  empty = empty  clean = clean  rude = rude
  None = None  BadKey = BadKey  Reported = Reported
  Ids <- MCIds
  Texts <- MCTexts
  EmptyText = empty
  FlaggedTexts <- MCFlaggedTexts
  Handlers = {h1}
  Slots = {s1, s2}
  GrpcRequests <- OneRequest
  ForeignMessages <- KeylessOrClean
  MaxRequests = 2
  MaxSessions = 2
  Faults = {"rejoin", "expire", "text", "commit"}
SPECIFICATION FairSpec
PROPERTIES
  ConsumerProgress
  AcceptedSettles
  StopCompletes
  AskedIsAnswered

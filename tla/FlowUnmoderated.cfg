\* An accepted request is never moderated.
CONSTANTS
  h1 = h1  h2 = h2  s1 = s1  s2 = s2
  empty = empty  clean = clean  rude = rude
  None = None  BadKey = BadKey  Reported = Reported
  Ids <- MCIds
  Texts <- MCTexts
  EmptyText = empty
  FlaggedTexts <- MCFlaggedTexts
  Handlers = {h1}
  Slots = {s1, s2}
  GrpcRequests <- OneRequest
  ForeignMessages <- NoMessages
  MaxRequests = 1
  MaxSessions = 1
  Faults = {}
SPECIFICATION FairSpec
PROPERTIES
  AcceptedIsModerated

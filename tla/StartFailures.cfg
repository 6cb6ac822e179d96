SPECIFICATION FairSpec
CONSTANTS
  Environments <- DefectiveEnvironments
  MayThrow <- Anything
INVARIANTS
  TypeOK
  NothingUsedAfterFree
  ServesWhole
  CleanFailure
  CallsFindTheirHandler
PROPERTIES
  StartEnds

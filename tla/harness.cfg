CONSTANTS
  NSubs = 2
  NPubs = 2
  ActiveSubs = 2
  ActivePubs = 2
  MaxRows = 2
  PipeSize = 3
  MaxRounds = 2
SPECIFICATION FairSpec
INVARIANTS
  EveryClientReported
  CompleteLog
PROPERTIES
  ImplementsContainer
  MainEnds
  HangsOnFullPipe

CONSTANTS
  s1 = s1
  s2 = s2
  p1 = p1
  Subs <- MCSubs
  Pubs <- MCPubs
  Configurations <- MCConfigurations
  SubCount = 2
  PubCount = 2
  MaxInbox = 3
  MaxRounds = 2
  PipeSize = 1
SPECIFICATION FairSpec
INVARIANTS
  ReportedOnceComplete
  DeadlockNarrowed
  StatisticsOfAll
  MeanOverAll
  CsvComplete
  DeafNeverFinishes
PROPERTIES
  ImplementsContainer
  MainEnds
  TimersFinish

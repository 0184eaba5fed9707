CONSTANTS
  MaxCount = 5
  NTopics = 3
  QoS = 1
  MaxLosses = 2
SPECIFICATION FairSpec
INVARIANTS
  EvenShare
  CleanExitDelivers
  ResultsAreRounds
PROPERTIES
  WorkerUntilLoss
  EndsOnceReported

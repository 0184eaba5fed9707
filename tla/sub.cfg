CONSTANTS
  MaxCount = 2
  QoS = 0
  Pings = FALSE
  MaxInbox = 4
SPECIFICATION FairSpec
INVARIANTS
  ResultAfterMaxCount
  StopsAtMaxCount
  NeverJoinsBlockedThread
PROPERTIES
  ImplementsWorker
  EndsOnceStarted

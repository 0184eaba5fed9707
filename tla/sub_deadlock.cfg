CONSTANTS
  MaxCount = 2
  QoS = 1
  Pings = FALSE
  MaxInbox = 4
SPECIFICATION FairSpec
PROPERTIES
  CompletesAfterMaxCount
CHECK_DEADLOCK FALSE

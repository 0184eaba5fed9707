CONSTANTS
  MaxCount = 3
  NTopics = 2
  QoS = 0
  MaxLosses = 0
SPECIFICATION FairSpec
PROPERTIES
  TimeoutEndsClient

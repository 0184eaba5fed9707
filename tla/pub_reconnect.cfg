CONSTANTS
  MaxCount = 3
  NTopics = 2
  QoS = 0
  MaxLosses = 1
SPECIFICATION Spec
INVARIANTS
  OneDurationPerClient

CONSTANTS
  None = None
  Bad = Bad
  a = a
  b = b
  Orchestrators = {"subscribers"}
  MaxIndex = 3
  Configs <- MCConfigs
  CommandLines <- MCCommandLines
  Sections <- MCSections
SPECIFICATION Spec
INVARIANTS
  NumberOfContainers
  BrokersDistinct
  CheckedDocumentsAccepted
  AllClientsLaunched
  SameIdOnlyAtTheSeam
  ResultsOfLaunched
  TopicsMeet
  ParametersReach

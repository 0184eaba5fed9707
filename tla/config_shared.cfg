CONSTANTS
  None = None
  Bad = Bad
  a = a
  b = b
  Orchestrators = {"subscribers", "publishers"}
  MaxIndex = 3
  Configs <- MCTwoConfigs
  CommandLines <- MCNoLines
  Sections <- MCTwoSections
SPECIFICATION Spec
INVARIANTS
  OwnDocument

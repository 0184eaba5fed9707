CONSTANTS
  old = old
  template1 = template1
  template2 = template2
  template3 = template3
  N = 3
  Foreign <- MCForeign
  Old <- MCOld
  Templates <- MCTemplates
  MaxRuns = 2
SPECIFICATION Spec
INVARIANTS
  OneCluster
  NoForeignNode

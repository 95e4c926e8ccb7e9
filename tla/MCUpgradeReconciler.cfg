CONSTANTS
  Policies <- MCOnePolicy
  Nodes = {n1, n2}
  NoPolicy = NoPolicy
  MaxErrors = 2
  MaxEnv = 3
  MaxRestarts = 1
SPECIFICATION Spec
CHECK_DEADLOCK FALSE
INVARIANTS TypeOK
PROPERTIES UpgradeLabelsCleared

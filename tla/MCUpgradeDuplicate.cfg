CONSTANTS
  Policies <- MCTwoPolicies
  Nodes = {n1}
  NoPolicy = NoPolicy
  MaxErrors = 0
  MaxEnv = 0
  MaxRestarts = 0
SPECIFICATION Spec
CHECK_DEADLOCK FALSE
PROPERTIES LabelsSettle

CONSTANTS
  Policies = {p1, p2}
  Nodes = {n1}
  NoPolicy = NoPolicy
  NumStages = 3
  StageEnabled <- MCStageEnabled
  SandboxEnabled = FALSE
  InitLabels <- MCInitLabels
  EnvEdits <- MCEnvEdits
  StatusWriteFails = FALSE
  MaxErrors = 1
  MaxEnv = 3
  MaxRestarts = 1
SPECIFICATION Spec
CHECK_DEADLOCK FALSE
INVARIANTS TypeOK ReadyOnlyAfterFullWalk
PROPERTIES ImplementsPolicyLatch

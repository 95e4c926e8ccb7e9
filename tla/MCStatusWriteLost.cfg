CONSTANTS
  Policies = {p1}
  Nodes = {n1}
  NoPolicy = NoPolicy
  NumStages = 3
  StageEnabled <- MCStageEnabled
  SandboxEnabled = FALSE
  InitLabels <- MCInitLabels
  EnvEdits <- MCEnvEdits
  StatusWriteFails = TRUE
  MaxErrors = 1
  MaxEnv = 2
  MaxRestarts = 1
SPECIFICATION Spec
CHECK_DEADLOCK FALSE
PROPERTIES StatusConverges

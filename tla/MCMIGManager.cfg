CONSTANTS
  Nodes = {n1}
  SandboxEnabled = TRUE
  InitLabels <- MCInitLabels
  EnvEdits <- MCEnvEdits
  MaxEdits = 4
SPECIFICATION Spec
INVARIANTS MIGManagerExact

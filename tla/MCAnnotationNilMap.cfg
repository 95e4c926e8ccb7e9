CONSTANTS
  Nodes = {n1}
  SandboxEnabled = FALSE
  NilAnnotations = TRUE
  MaxErrors = 0
  MaxEnv = 1
SPECIFICATION Spec
CHECK_DEADLOCK FALSE
INVARIANTS PassNeverPanics

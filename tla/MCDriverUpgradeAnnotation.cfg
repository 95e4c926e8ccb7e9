CONSTANTS
  Nodes = {n1, n2}
  SandboxEnabled = FALSE
  NilAnnotations = FALSE
  MaxErrors = 1
  MaxEnv = 3
SPECIFICATION Spec
CHECK_DEADLOCK FALSE
INVARIANTS TypeOK
PROPERTIES AnnotationFollowsPolicy

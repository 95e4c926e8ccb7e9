CONSTANTS
  MaxNodes = 3
SPECIFICATION Spec
CHECK_DEADLOCK FALSE
INVARIANTS TypeOK RuntimeAsSpecified

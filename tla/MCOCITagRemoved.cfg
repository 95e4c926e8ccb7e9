CONSTANTS
  MaxEntries = 3
SPECIFICATION Spec
CHECK_DEADLOCK FALSE
INVARIANTS TagRemoved

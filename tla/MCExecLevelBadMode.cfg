SPECIFICATION Spec
CONSTANTS
  Task = {a, b}
CHECK_DEADLOCK FALSE
INVARIANTS
  BadModeImpossible

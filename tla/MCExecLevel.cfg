SPECIFICATION Spec
CONSTANTS
  Task = {a, b, c}
CHECK_DEADLOCK FALSE
INVARIANTS
  TypeOK
  LevelFromFailedExec

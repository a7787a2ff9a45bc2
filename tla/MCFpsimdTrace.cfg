SPECIFICATION Spec
CONSTANTS
  t1 = t1
  t2 = t2
  c1 = c1
  c2 = c2
  None = None
  Task = {t1, t2}
  CPU = {c1}
  Val = {0, 1}
  Zero = 0
  Vl = {1, 2}
  Boot = {t1, t2}
  Tracer = {t2}
  TraceCalls = FALSE
  Does <- Traced
  Noise <- MCNoise
INVARIANTS
  SavesReachTheTask
  SveTrapFollowsFlag
PROPERTIES
  TasksOwnTheirRegisters

SPECIFICATION Spec
CONSTANTS
  t1 = t1
  t2 = t2
  c1 = c1
  c2 = c2
  None = None
  Task = {t1}
  CPU = {c1, c2}
  Val = {0, 1}
  Zero = 0
  Vl = {1, 2}
  Boot = {t1}
  Tracer = {}
  TraceCalls = FALSE
  Does <- Everything
  Noise <- MCNoise
INVARIANTS
  TypeOK
  SavesReachTheTask
  SveTrapFollowsFlag
  FrameHoldsRegisters
PROPERTIES
  TasksOwnTheirRegisters
  NewDataKept
SYMMETRY CpuSymmetry

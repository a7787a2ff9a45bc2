SPECIFICATION Spec
CONSTANTS
  Reader = {}
  Writer = {w}
  Unsplicer = {u}
  Splicer = {s}
  ReadPoll = {}
  WritePoll = {}
  NonBlock = {}
  Signals = {}
  Data <- Different
  Want = {2}
  Page = 3
  DefBuffers = 2
  Sizes = {1, 2}
  None = None
CHECK_DEADLOCK FALSE
INVARIANTS
  TypeOK
  WakeupComing
PROPERTIES
  BytesInOrder

SPECIFICATION FairSpec
CONSTANTS
  Reader = {r}
  Writer = {w}
  Unsplicer = {}
  Splicer = {}
  ReadPoll = {rp}
  WritePoll = {wp}
  NonBlock = {r}
  Signals = {r, w}
  Data <- Same
  Want = {1, 3}
  Page = 2
  DefBuffers = 1
  Sizes = {1}
  None = None
CHECK_DEADLOCK FALSE
INVARIANTS
  WakeupComing
PROPERTIES
  MergingEnds
  HangupEndsCalls

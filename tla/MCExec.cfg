SPECIFICATION FairSpec
CONSTANTS
  Thread = {t1, t2, t3}
  NoThread = NoThread
CHECK_DEADLOCK FALSE
INVARIANTS
  TypeOK
  MutexFollowsCred
  MarkKept
  AloneAfterDeThread
  DeThreadAccounts
  FatalUnlessNoMemory
PROPERTIES
  ExecEnds

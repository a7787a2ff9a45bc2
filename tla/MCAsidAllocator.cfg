SPECIFICATION Spec
CONSTANTS
  NumCpus = 2
  NumUserAsids = 4
  m1 = m1
  m2 = m2
  m3 = m3
  MM <- Mms
  InitMm = InitMm
  Gone = Gone
  Idmap = Idmap
  Affinity <- Shared
  Mortal <- Exiting
  IdmapCpus = {}
  MaxGeneration = 4
INVARIANTS
  TypeOK
  TlbIsolation
  RunningAsidsUnique
  CommittedIdHeld
  RolloverFindsIndex
  IndInv
PROPERTIES
  RunningAsidStable

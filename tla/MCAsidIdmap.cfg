SPECIFICATION FairSpec
CONSTANTS
  NumCpus = 2
  NumUserAsids = 4
  m1 = m1
  m2 = m2
  m3 = m3
  MM <- Mms
  InitMm = InitMm
  Gone = Gone
  Idmap = Idmap
  Affinity <- Separate
  Mortal <- Exiting
  IdmapCpus = {0}
  MaxGeneration = 2
INVARIANTS
  TlbIsolation
  IndInv
PROPERTIES
  SwitchCompletes

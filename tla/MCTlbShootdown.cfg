SPECIFICATION ShootdownSpec
CONSTANTS
  NumCpus = 2
  NumUserAsids = 4
  m1 = m1
  m2 = m2
  MM <- Mms
  InitMm = InitMm
  Gone = Gone
  Idmap = Idmap
  Affinity <- Pinned
  Mortal <- Exiting
  IdmapCpus = {}
  MaxGeneration = 2
  Unmapped = {m1}
INVARIANTS
  ShootdownTypeOK
  StaleHitsOnlyIfRaced

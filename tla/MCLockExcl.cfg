SPECIFICATION LockFairSpec
CONSTANTS
  Process = {p1, p2, p3}
  NoFile = NoFile
  MaxMishaps = 2
INVARIANTS
  LockInv
  ExclusiveAmongLive
PROPERTY
  NamedLockGoes

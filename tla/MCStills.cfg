SPECIFICATION StillsSpec
CONSTANTS
  Recorder = {r1, r2}
  Name = {n1, n2}
  Inode = {i1, i2, i3, i4}
  Nothing = Nothing
  Keep = {1, 2}
SYMMETRY Alike
INVARIANTS
  StillsInv
  OneInEach
PROPERTY
  PruneSpares

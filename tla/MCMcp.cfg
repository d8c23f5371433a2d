SPECIFICATION Spec
CONSTANTS
  Call = {c1, c2}
  Display = {d1}
  All = All
  Native = Native
  None = None
  Sessions <- MCSessions
  TTL = 2
  Slow = 1
  MaxRecs = 2
  MaxFaults = 1
  MaxFlips = 1
SYMMETRY Alike
INVARIANTS
  ViewInv
  HandInv
  TapeInv

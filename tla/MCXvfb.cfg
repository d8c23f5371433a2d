SPECIFICATION Spec
CONSTANTS
  Mcp = {m1, m2}
  Cli = {c1}
  Display = {d1, d2}
  Server = {s1, s2}
  Foreign = {f1}
  None = None
  ProcFs = {TRUE, FALSE}
  Moods <- MCMoods
  MaxFaults <- MCMaxFaults
SYMMETRY Alike
INVARIANTS
  XvfbInv
  OneKnownXvfb
  NoOrphan
PROPERTIES
  LastUserStops

SPECIFICATION Spec
CONSTANTS
  Shell = {a, b}
  small = small
  large = large
  d1 = d1
  d2 = d2
  Screen <- Screens
  Command <- Commands
  None = None
  MaxRuns = 3
  MaxServers = 2
  MaxFaults = 1
SYMMETRY Alike
INVARIANTS
  TurnInv
  ViewInv

SPECIFICATION Spec
CONSTANTS
  Topology <- MCTopology
  Live <- MCLive
  Layout <- MCLayout
  NoLayout = NoLayout
  Fits <- MCFits
  Rect <- MCRect
  NoRect = NoRect
  Display = {1, 2}
  Desktop <- MCDesktop
  PrimaryOf <- MCPrimaryOf
  MaxChanges = 3
  MaxFaults = 1
  MaxTimeouts = 1
  MaxCrashes = 1
  MaxTroubles = 2
INVARIANTS
  CuadInv
  PointerTracksDesktop
  StatusCoherent
  ReadsAreFresh
  AckedLayoutSaved

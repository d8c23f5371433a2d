SPECIFICATION FairSpec
CONSTANTS
  Topology <- MCTopology
  Live <- MCLive
  Layout <- MCLayout
  NoLayout = NoLayout
  Fits <- MCFits
  Rect <- MCRect
  NoRect = NoRect
  Display = {1, 2}
  Desktop <- MCDesktop
  PrimaryOf <- MCPrimaryOf
  MaxChanges = 1
  MaxFaults = 1
  MaxTimeouts = 0
  MaxCrashes = 1
  MaxTroubles = 2
PROPERTY
  RequestsAnswered

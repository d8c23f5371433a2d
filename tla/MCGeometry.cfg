SPECIFICATION GeometrySpec
CONSTANTS
  Topology <- MCTopology
  Layout <- MCLayout
  Region <- MCRegion
  MaxSide = {0, 5, 20}
  NoRect = NoRect
  NoShot = NoShot
INVARIANTS
  PlacedInv
  NoGap
  ToldInv

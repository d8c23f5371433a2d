SPECIFICATION Spec
CONSTANTS
  Call = {c1, c2}
  Server = {s1, s2}
  button = button
  spare = spare
  Input = {button, spare}
  Binding = {spare}
  Chord <- Chords
  None = None
  MaxCuts = 1
SYMMETRY Alike
INVARIANTS
  BackendInv
  InputKnows
  ExitClean
PROPERTIES
  HeldSpec

SPECIFICATION Spec
CONSTANTS
  Client = {c1, c2}
  button = button
  letter = letter
  shift = shift
  Key = {letter, shift}
  Button = {button}
  Shift = shift
  Request <- Requests
  None = None
  MaxCalls = 3
  MaxFaults = 1
  MaxMoves = 1
INVARIANT
  InputInv
PROPERTIES
  HeldSpec
  Drains

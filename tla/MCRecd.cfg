SPECIFICATION Spec
CONSTANTS
  Start = {s1, s2}
  Hand = {h1}
  Stop = {t1}
  Note = {n1, n2}
  None = None
  MaxExtra = 2
SYMMETRY Alike
VIEW Told
INVARIANTS
  RecdInv
  OneRecorder
  NotesInv
  ToldInv

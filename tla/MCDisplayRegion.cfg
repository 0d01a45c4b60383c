CONSTANTS
  None = None
  m1 = m1
  m2 = m2
  Modes = {m1, m2}
  MaxBuffers = 2
  LeftWords <- MCLeftWords
  MaxSeq = 3
  MaxCopies = 2
CHECK_DEADLOCK FALSE
SPECIFICATION Spec
SYMMETRY ModeSymmetry
INVARIANTS
  TypeOK
  SettledGeometry
  PictureWhole
  ForcedStopQuiet

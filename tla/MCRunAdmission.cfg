CONSTANTS
  r1 = r1
  r2 = r2
  Runs = {r1, r2}
  NoRun = NoRun
  MaxBoots = 2
SPECIFICATION Spec
SYMMETRY RunSymmetry
INVARIANTS
  IInv
PROPERTIES
  ImplementsContract

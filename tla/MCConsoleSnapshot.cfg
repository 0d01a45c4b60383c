CONSTANTS
  Clients = {c1, c2, c3, c4}
  Buffers = {b1, b2, b3, b4}
  None = None
  OpenLimit = 3
  BufferLimit = 3
  MaxEpoch = 3
  MaxSequence = 2
  MaxStrays = 1
SPECIFICATION Spec
SYMMETRY Symmetric
INVARIANTS TypeOK LeaseSound InAgreement
PROPERTY PoisonedForGood
CHECK_DEADLOCK FALSE

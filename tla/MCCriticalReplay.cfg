CONSTANTS
  p = p
  q = q
  Producers = {p, q}
  MaxAppends = 1
  Capacity = 2
  ReplayLimit = 1
  AttemptLimit = 2
  TokenLength = 2
  RxLimit = 2
  MaxStalls = 1
  Tolerant = TRUE
  Patience = {TRUE}
CHECK_DEADLOCK FALSE
SPECIFICATION Spec
SYMMETRY ProducerSymmetry
INVARIANTS
  TypeOK
  AckFresh
  CaptureSound

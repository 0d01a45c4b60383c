CONSTANTS
  p = p
  q = q
  Producers = {p, q}
  MaxAppends = 1
  Capacity = 1
  ReplayLimit = 1
  AttemptLimit = 3
  TokenLength = 2
  RxLimit = 2
  MaxStalls = 0
  Tolerant = FALSE
  Patience = {TRUE, FALSE}
CHECK_DEADLOCK FALSE
SPECIFICATION FairSpec
INVARIANTS
  AckFresh
  HandshakeSound
PROPERTIES
  Answered

CONSTANTS
  q1 = q1
  kiqQueue = kiqQueue
  Queues = {q1}
  Mec1Queues = {}
  Kiq = kiqQueue
  MaxAttempts = 2
  MayIgnore = {"me", "mec1", "mec2", "sdma", "ih", "poll", "doorbell", "hqd"}
CHECK_DEADLOCK FALSE
SPECIFICATION Spec
INVARIANT ForcedNeverAuthorizes

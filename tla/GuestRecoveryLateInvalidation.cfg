CONSTANTS
  r1 = r1
  r2 = r2
  e1 = e1
  e2 = e2
  ReadyCalls = {r1, r2}
  EnableCalls = {e1, e2}
  BarMayFail = TRUE
SPECIFICATION Spec
INVARIANT InvalidationStartsAbort

CONSTANTS
  Slot = {h1, h2}
  Message = {m1}
  Kid = {k1, k2}
  None = None
  Throttle = 2
  FetchTime = 1
  Early = 1
  Window = 1
  TTL = 3
  Token = 3
  Rate = 2
  Burst = 6
  Idle = 1
  MaxTime = 4
SYMMETRY Symmetry
SPECIFICATION Spec
INVARIANTS GateTypeOK KnownInTime ServedOnce RetryAfterHolds BoundedRate
CHECK_DEADLOCK FALSE

CONSTANTS
  Process = {p1, p2}
  Id = {i1}
  Key = {k1, k2}
  Slot = {s1, s2}
  None = None
  Empty = Empty
  Torn = Torn
  Faults = {}
  MaxLate = 0
SPECIFICATION Spec
PROPERTY KeyNeverChanges
CHECK_DEADLOCK FALSE

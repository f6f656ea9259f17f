CONSTANTS
  Process = {p1, p2}
  Id = {i1, i2}
  Key = {k1, k2}
  Slot = {s1, s2}
  None = None
  Empty = Empty
  Torn = Torn
  Faults = {"wipe", "kill"}
  MaxLate = 1
SYMMETRY Symmetry
SPECIFICATION Spec
INVARIANT RegisteredWasSigned

SPECIFICATION Spec
CONSTANTS
  Slot = {s1, s2}
  Commit = {c1}
  Project = {p1, p2}
  Body = {b1, b2}
  None = None
  Faults = {"create", "get", "settle", "undo", "store", "disconnect", "crash", "refuse"}
  MaxLate = 1
SYMMETRY Symmetry
INVARIANTS TypeOK AckedIsStored DoneIsStored KeyExclusive
PROPERTY StoresOnce

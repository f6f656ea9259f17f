SPECIFICATION Spec
CONSTANTS
  Slot = {s1, s2}
  Commit = {c1}
  Project = {p1}
  Body = {b1}
  None = None
  Faults = {"disconnect"}
  MaxLate = 0
PROPERTY RetryReturnsCommit

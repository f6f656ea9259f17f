SPECIFICATION PipelineSpec
CONSTANTS
  Slot = {s1, s2}
  Commit = {1, 2}
  Project = {1, 2}
  Body = {b1}
  None = None
  Process = {h1}
  RootsOf <- MCRootsOf
  MaxAttempts = 2
  Faults = {"crash", "refuse", "disconnect"}
  MaxLate = 1
SYMMETRY SlotSymmetry
INVARIANTS PipelineTypeOK PushedIsStoredOrGaveUp

SPECIFICATION PipelineSpec
CONSTANTS
  Slot = {s1}
  Commit = {1, 2}
  Project = {1, 2}
  Body = {b1}
  None = None
  Process = {h1}
  RootsOf <- MCRootsOf
  MaxAttempts = 5
  Faults = {"refuse"}
  MaxLate = 0
INVARIANT PushedIsStored

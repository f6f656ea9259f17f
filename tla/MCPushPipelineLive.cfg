SPECIFICATION FairSpec
CONSTANTS
  Slot = {s1,s2}
  Commit = {1}
  Project = {2}
  Body = {b1}
  None = None
  Process = {h1}
  RootsOf <- MCRootsOf
  MaxAttempts = 2
  Faults = {"create", "get", "store", "refuse", "disconnect", "settle", "undo", "crash"}
  MaxLate = 2
INVARIANT RowHasOwner
PROPERTY EventuallyPushed

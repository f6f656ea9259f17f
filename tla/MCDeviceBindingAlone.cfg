CONSTANTS
  Process = {p1}
  Id = {i1, i2}
  Key = {k1, k2}
  Slot = {s1, s2}
  None = None
  Empty = Empty
  Torn = Torn
  Faults = {"gate", "upsert", "keyring", "kill", "crash"}
  MaxLate = 4
SPECIFICATION FairSpec
INVARIANTS BindingTypeOK BindingAgrees NeverRefused
PROPERTY EventuallyServed

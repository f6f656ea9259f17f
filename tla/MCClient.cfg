SPECIFICATION FairSpec
CONSTANTS
  Proc = {p1, p2}
  None = None
  AllowFile = TRUE
  Faults = {"network", "keychain", "kill"}
  Callback = {c1, c2, c3}
  Code = {k1, k2}
  NoCode = NoCode
  Terminal = {t1, t2}
  Id = {1, 2, 3}
  NoConf = NoConf
  Torn = Torn
  Mishaps = {"keychain", "kill"}
  Tree <- MCTree
  File <- MCFile
  NeverEnter = {"dist"}
INVARIANTS ClientTypeOK StoredIsLatest AcceptsFirst SecretNamed FindsEnvFiles
PROPERTIES SessionUsable LoginFinishes
CHECK_DEADLOCK FALSE

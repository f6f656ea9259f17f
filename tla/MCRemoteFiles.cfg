CONSTANTS
  Device = {d1, d2}
  Key = {k1, k2}
  None = None
  Faults = {"vault", "passphrase", "upload", "post", "fetch", "kill", "torn"}
  NoKeychain = {d2}
  Author = {d1}
  File = {1, 2}
  Content = {c1}
  Torn = Torn
  Bucket = {b1}
  Row = Row
  MaxCommits = 1
SPECIFICATION FairSpec
INVARIANTS RemoteTypeOK KeysAgree Portable CommitHasObjects WritesPrefix
PROPERTIES EventuallySynced

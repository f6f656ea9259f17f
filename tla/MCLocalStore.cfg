CONSTANTS
  Process = {p1, p2}
  File = {f1, f2}
  Hash = {h1}
  CommitId = {c1, c2}
  None = None
  Saver = {s1, s2}
  Version = {v1, v2}
  Inode = {n1, n2, n3}
  Empty = Empty
  Torn = Torn
  Nothing = Nothing
SYMMETRY Symmetry
SPECIFICATION MCSpec
INVARIANTS LocalTypeOK NoEmptyCommit PruneRepairs FileTypeOK IndexWhole
PROPERTIES UnstagedIsCommitted CommitOnlyAdvances SaveIsAtomic

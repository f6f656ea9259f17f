--------------------------- MODULE LocalStoreProofs ---------------------------
(***************************************************************************)
(* Proofs about LocalStore for any number of commands, files, contents and *)
(* IDs: the types, that no commit is ever empty (NoEmptyCommit), and what  *)
(* a command whose copies nobody outdated does to index and commits.  At   *)
(* the end, proofs about IndexFile, the file the index is kept in.         *)
(*                                                                         *)
(* push and prune write commits back from their lists, which other         *)
(* commands outdate, so NoEmptyCommit needs the same of every list in      *)
(* memory: ListsFull.  The other properties need what Current says of a    *)
(* quiet command: its copy is what the files hold, or was made from it.    *)
(***************************************************************************)
EXTENDS LocalStore, IndexFile, TLAPS

\* A command writes back only commits it listed, and listed no empty one.
ListsFull ==
  \A p \in Process :
    /\ mode[p] \in {"push", "root", "prune"} => queue[p] \subseteq Listed(view[p])
    /\ \A c \in Listed(view[p]) : Present(view[p][c].files) # {}

StoreInv == LocalTypeOK /\ ListsFull /\ NoEmptyCommit

-----------------------------------------------------------------------------
\* There is nothing staged, committed or listed at the start.
LEMMA InitStore == Init => StoreInv
  BY LocalStoreAssumption
  DEF Init, StoreInv, LocalTypeOK, ListsFull, NoEmptyCommit, Listed, Hashes,
      NoHashes, NoCommits

\* What a command may take into memory without harm.
LEMMA MemoryStep ==
  ASSUME StoreInv, NEW p \in Process,
         NEW m \in {"idle", "load", "stage", "save", "clear", "push", "root", "prune",
                    "remove"},
         NEW h \in Hashes, m \in {"load", "stage", "save"} => Present(h) # {},
         NEW v \in [CommitId -> CommitFile \cup {None}],
         NEW Q \in SUBSET CommitId,
         m \in {"push", "root", "prune"} => Q \subseteq Listed(v),
         \A c \in Listed(v) : Present(v[c].files) # {},
         Memory(p, m, h, v, Q),
         disk' \in Hashes, staged' \in Hashes, used' \subseteq CommitId,
         commits' \in [CommitId -> CommitFile \cup {None}], NoEmptyCommit',
         quiet' \subseteq Process
  PROVE  StoreInv'
<1>1. LocalTypeOK'
  BY DEF Memory, StoreInv, LocalTypeOK
<1>2. ListsFull'
  BY DEF Memory, StoreInv, LocalTypeOK, ListsFull, Listed
<1> QED BY <1>1, <1>2 DEF StoreInv

\* A command that ends remembers nothing.
LEMMA ExitStep ==
  ASSUME StoreInv, NEW p \in Process, Exit(p),
         disk' \in Hashes, staged' \in Hashes, UNCHANGED <<commits, used>>,
         quiet' \subseteq Process
  PROVE  StoreInv'
<1>1. NoHashes \in Hashes /\ NoCommits \in [CommitId -> CommitFile \cup {None}]
  BY DEF NoHashes, Hashes, NoCommits
<1>2. Listed(NoCommits) = {}
  BY DEF Listed, NoCommits
<1>3. Memory(p, "idle", NoHashes, NoCommits, {})
  BY DEF Exit
<1>4. NoEmptyCommit' /\ used' \subseteq CommitId
      /\ commits' \in [CommitId -> CommitFile \cup {None}]
  BY DEF StoreInv, NoEmptyCommit, LocalTypeOK, Listed
<1> QED BY <1>1, <1>2, <1>3, <1>4, MemoryStep

\* Writing a full commit, or none, over a commit of the list keeps them full.
LEMMA WriteStep ==
  ASSUME StoreInv, NEW p \in Process, NEW c \in CommitId, DoneWith(p, c),
         NEW x \in CommitFile \cup {None}, x # None => Present(x.files) # {},
         commits' = [commits EXCEPT ![c] = x],
         UNCHANGED <<disk, staged, used>>, quiet' \subseteq Process
  PROVE  StoreInv'
<1>1. LocalTypeOK'
  BY DEF DoneWith, StoreInv, LocalTypeOK
<1>2. ListsFull'
  BY DEF DoneWith, StoreInv, LocalTypeOK, ListsFull, Listed
<1>3. NoEmptyCommit'
  BY DEF StoreInv, LocalTypeOK, NoEmptyCommit, Listed
<1> QED BY <1>1, <1>2, <1>3 DEF StoreInv

\* The writes keep quiet a set of processes.
LEMMA QuietStays ==
  ASSUME StoreInv, NEW p \in Process, Reads(p) \/ Writes(p) \/ UNCHANGED quiet
  PROVE  quiet' \subseteq Process
BY DEF StoreInv, LocalTypeOK, Reads, Writes

\* add stages what its scan found, so something.
LEMMA AddKeeps ==
  ASSUME StoreInv, NEW p \in Process, AddScan(p) \/ AddLoad(p) \/ AddSave(p)
  PROVE  StoreInv'
<1> USE DEF StoreInv, LocalTypeOK
<1>0. NoCommits \in [CommitId -> CommitFile \cup {None}] /\ Listed(NoCommits) = {}
  BY DEF NoCommits, Listed
<1>1. CASE AddScan(p)
  BY <1>0, <1>1, MemoryStep DEF AddScan, storeVars, NoEmptyCommit, Listed
<1>2. CASE AddLoad(p)
  <2>1. PICK F \in {Present(copy[p])} \cup {{f} : f \in Present(copy[p])} :
          Memory(p, "stage", [f \in File |-> IF f \in F THEN copy[p][f] ELSE staged[f]],
                 NoCommits, {})
    BY <1>2 DEF AddLoad
  <2> DEFINE h == [f \in File |-> IF f \in F THEN copy[p][f] ELSE staged[f]]
  <2>2. h \in Hashes
    BY DEF Hashes
  <2>3. Present(copy[p]) # {} => Present(h) # {}
    BY <2>1 DEF Present
  <2>4. Present(copy[p]) # {}
    BY <1>2 DEF AddLoad
  <2> QED BY <1>0, <1>2, <2>1, <2>2, <2>3, <2>4, MemoryStep, QuietStays
          DEF AddLoad, storeVars, NoEmptyCommit, Listed
<1>3. CASE AddSave(p)
  BY <1>3, ExitStep, QuietStays DEF AddSave
<1> QED BY <1>1, <1>2, <1>3

\* commit turns a non-empty index into a non-empty commit.
LEMMA CommitKeeps ==
  ASSUME StoreInv, NEW p \in Process,
         CommitLoad(p) \/ CommitSave(p) \/ CommitClear(p)
  PROVE  StoreInv'
<1> USE DEF StoreInv, LocalTypeOK
<1>0. NoCommits \in [CommitId -> CommitFile \cup {None}] /\ Listed(NoCommits) = {}
  BY DEF NoCommits, Listed
<1>1. CASE CommitLoad(p)
  BY <1>0, <1>1, MemoryStep, QuietStays DEF CommitLoad, storeVars, NoEmptyCommit, Listed
<1>2. CASE CommitSave(p)
  <2>1. PICK c \in CommitId :
          /\ commits' = [commits EXCEPT ![c] = [files |-> copy[p], pushed |-> FALSE]]
          /\ used' = used \cup {c}
    BY <1>2 DEF CommitSave
  <2>2. [files |-> copy[p], pushed |-> FALSE] \in CommitFile
    BY DEF CommitFile
  <2>3. Present(copy[p]) # {}
    BY <1>2 DEF CommitSave
  <2>4. commits' \in [CommitId -> CommitFile \cup {None}] /\ NoEmptyCommit'
    BY <2>1, <2>2, <2>3 DEF NoEmptyCommit, Listed
  <2>5. /\ copy[p] \in Hashes
        /\ Memory(p, "clear", copy[p], NoCommits, {})
        /\ Writes(p) /\ UNCHANGED <<disk, staged>>
    BY <1>2 DEF CommitSave
  <2>6. disk' \in Hashes /\ staged' \in Hashes /\ used' \subseteq CommitId
        /\ quiet' \subseteq Process
    BY <2>1, <2>5, QuietStays
  <2> HIDE DEF StoreInv, LocalTypeOK
  <2> QED BY <1>0, <2>4, <2>5, <2>6, MemoryStep
<1>3. CASE CommitClear(p)
  BY <1>3, ExitStep, QuietStays DEF CommitClear, NoHashes, Hashes
<1> QED BY <1>1, <1>2, <1>3

\* push writes back the files of its list.
LEMMA PushKeeps ==
  ASSUME StoreInv, NEW p \in Process,
         PushList(p) \/ PushMark(p) \/ PushFails(p) \/ Stop(p)
  PROVE  StoreInv'
<1> USE DEF StoreInv, LocalTypeOK
<1>1. CASE PushList(p)
  <2>1. Memory(p, "push", NoHashes, commits, Pending(commits))
    BY <1>1 DEF PushList
  <2>2. NoHashes \in Hashes /\ Pending(commits) \subseteq Listed(commits)
        /\ Pending(commits) \in SUBSET CommitId
    BY DEF NoHashes, Hashes, Pending, Listed
  <2>3. \A c \in Listed(commits) : Present(commits[c].files) # {}
    BY DEF NoEmptyCommit
  <2> QED BY <1>1, <2>1, <2>2, <2>3, MemoryStep, QuietStays
          DEF PushList, storeVars, NoEmptyCommit, Listed
<1>2. CASE PushMark(p)
  <2>1. PICK c \in queue[p] :
          /\ commits' = [commits EXCEPT ![c] = [view[p][c] EXCEPT !.pushed = TRUE]]
          /\ DoneWith(p, c)
    BY <1>2 DEF PushMark
  <2>2. view[p][c] \in CommitFile /\ Present(view[p][c].files) # {}
    BY <1>2 DEF PushMark, ListsFull, Listed
  <2>3. /\ [view[p][c] EXCEPT !.pushed = TRUE] \in CommitFile
        /\ [view[p][c] EXCEPT !.pushed = TRUE].files = view[p][c].files
    BY <2>2 DEF CommitFile
  <2>4. c \in CommitId
    OBVIOUS
  <2> QED BY <1>2, <2>1, <2>2, <2>3, <2>4, WriteStep, QuietStays DEF PushMark
<1>3. CASE PushFails(p) \/ Stop(p)
  BY <1>3, ExitStep DEF PushFails, Stop, storeVars
<1> QED BY <1>1, <1>2, <1>3

\* Asking for the scan root leaves a list as it is.
LEMMA RootKeeps ==
  ASSUME StoreInv, NEW p \in Process, AskRoot(p) \/ SaveRoot(p)
  PROVE  StoreInv'
<1> USE DEF StoreInv, LocalTypeOK
<1>0. /\ NoCommits \in [CommitId -> CommitFile \cup {None}] /\ Listed(NoCommits) = {}
      /\ NoHashes \in Hashes
  BY DEF NoCommits, Listed, NoHashes, Hashes
<1>1. \A c \in Listed(view[p]) : Present(view[p][c].files) # {}
  BY DEF ListsFull
<1>2. CASE AskRoot(p)
  <2>1. PICK v \in {NoCommits, view[p]}, Q \in {{}, queue[p]} :
          Memory(p, "root", staged, v, Q) /\ Q \subseteq Listed(v)
    BY <1>2 DEF AskRoot, ListsFull
  <2>2. quiet' \subseteq Process
    BY <1>2, QuietStays DEF AskRoot
  <2>3. /\ v \in [CommitId -> CommitFile \cup {None}] /\ Q \in SUBSET CommitId
        /\ \A c \in Listed(v) : Present(v[c].files) # {}
    <3>1. CASE v = NoCommits BY <1>0, <2>1, <3>1
    <3>2. CASE v = view[p] BY <1>1, <2>1, <3>2
    <3> QED BY <2>1, <3>1, <3>2
  <2>4. UNCHANGED storeVars /\ staged \in Hashes
    BY <1>2 DEF AskRoot
  <2>5. /\ disk' \in Hashes /\ staged' \in Hashes /\ used' \subseteq CommitId
        /\ commits' \in [CommitId -> CommitFile \cup {None}] /\ NoEmptyCommit'
    BY <2>4 DEF storeVars, NoEmptyCommit, Listed
  <2> HIDE DEF StoreInv, LocalTypeOK
  <2> QED BY <2>1, <2>2, <2>3, <2>4, <2>5, MemoryStep
<1>3. CASE SaveRoot(p)
  <2>1. queue[p] \subseteq Listed(view[p])
    BY <1>3 DEF SaveRoot, ListsFull
  <2>2. PICK m \in {"idle", "push"} : Memory(p, m, NoHashes, view[p], queue[p])
    BY <1>3 DEF SaveRoot
  <2> QED BY <1>0, <1>1, <1>3, <2>1, <2>2, MemoryStep, QuietStays
          DEF SaveRoot, NoEmptyCommit, Listed
<1> QED BY <1>2, <1>3

\* prune writes back what is left of a listed commit, if anything is.
LEMMA PruneKeeps ==
  ASSUME StoreInv, NEW p \in Process,
         PruneList(p) \/ PruneKeep(p) \/ PruneUpdate(p) \/ PruneDelete(p)
  PROVE  StoreInv'
<1> USE DEF StoreInv, LocalTypeOK
<1>1. CASE PruneList(p)
  <2>1. PICK Q \in {Pending(commits)} \cup {{c} : c \in Listed(commits)} :
          Memory(p, "prune", NoHashes,
                 [c \in CommitId |-> IF c \in Q THEN commits[c] ELSE None], Q)
    BY <1>1 DEF PruneList
  <2> DEFINE v == [c \in CommitId |-> IF c \in Q THEN commits[c] ELSE None]
  <2>2. Q \subseteq Listed(commits) /\ Q \in SUBSET CommitId /\ NoHashes \in Hashes
    BY DEF NoHashes, Hashes, Pending, Listed
  <2>3. v \in [CommitId -> CommitFile \cup {None}]
    OBVIOUS
  <2>4. Q \subseteq Listed(v) /\ \A c \in Listed(v) : Present(v[c].files) # {}
    BY <2>2 DEF Listed, NoEmptyCommit
  <2> HIDE DEF v
  <2> QED BY <1>1, <2>1, <2>2, <2>3, <2>4, MemoryStep, QuietStays
          DEF PruneList, storeVars, NoEmptyCommit, Listed, v
<1>2. CASE PruneKeep(p)
  BY <1>2 DEF PruneKeep, DoneWith, storeVars, ListsFull, NoEmptyCommit, Listed
<1>3. CASE PruneUpdate(p)
  <2>1. PICK c \in queue[p] :
          LET left == Without(view[p][c].files, Missing(view[p][c].files))
          IN /\ Present(left) # {}
             /\ commits' = [commits EXCEPT ![c] = [view[p][c] EXCEPT !.files = left]]
             /\ DoneWith(p, c)
    BY <1>3 DEF PruneUpdate
  <2> DEFINE left == Without(view[p][c].files, Missing(view[p][c].files))
  <2>2. c \in CommitId /\ view[p][c] \in CommitFile
    BY <1>3 DEF PruneUpdate, ListsFull, Listed
  <2>3. left \in Hashes
    BY <2>2 DEF Without, Hashes, CommitFile
  <2>4. /\ [view[p][c] EXCEPT !.files = left] \in CommitFile
        /\ [view[p][c] EXCEPT !.files = left].files = left
    BY <2>2, <2>3 DEF CommitFile
  <2> QED BY <1>3, <2>1, <2>2, <2>4, WriteStep, QuietStays DEF PruneUpdate
<1>4. CASE PruneDelete(p)
  <2>1. PICK c \in queue[p] : /\ \/ commits[c] = None /\ Exit(p)
                               \/ DoneWith(p, c)
                            /\ commits' = [commits EXCEPT ![c] = None]
    BY <1>4 DEF PruneDelete
  <2>2. CASE commits[c] = None /\ Exit(p)
    BY <1>4, <2>1, <2>2, ExitStep, QuietStays DEF PruneDelete
  <2>3. CASE DoneWith(p, c)
    BY <1>4, <2>1, <2>3, WriteStep, QuietStays DEF PruneDelete
  <2> QED BY <2>1, <2>2, <2>3
<1> QED BY <1>1, <1>2, <1>3, <1>4

\* Removing commits leaves the others as they are.
LEMMA RemoveKeeps ==
  ASSUME StoreInv, NEW p \in Process, RemoveList(p) \/ RemoveNext(p)
  PROVE  StoreInv'
<1> USE DEF StoreInv, LocalTypeOK
<1>1. CASE RemoveList(p)
  <2>1. PICK Q \in {Listed(commits)} \cup {{c} : c \in Listed(commits)} :
          Memory(p, "remove", NoHashes, NoCommits, Q)
    BY <1>1 DEF RemoveList
  <2>2. /\ NoHashes \in Hashes /\ Q \in SUBSET CommitId
        /\ NoCommits \in [CommitId -> CommitFile \cup {None}]
        /\ Listed(NoCommits) = {}
    BY DEF NoHashes, Hashes, NoCommits, Listed
  <2> QED BY <1>1, <2>1, <2>2, MemoryStep DEF RemoveList, storeVars, NoEmptyCommit, Listed
<1>2. CASE RemoveNext(p)
  <2>1. PICK c \in queue[p] : /\ commits' = [commits EXCEPT ![c] = None]
                            /\ DoneWith(p, c)
    BY <1>2 DEF RemoveNext
  <2> QED BY <1>2, <2>1, WriteStep, QuietStays DEF RemoveNext
<1> QED BY <1>1, <1>2

\* Every step of the specification keeps the invariant.
LEMMA StepStore == StoreInv /\ [Next]_vars => StoreInv'
<1> SUFFICES ASSUME StoreInv, [Next]_vars PROVE StoreInv'
  OBVIOUS
<1>1. ASSUME NEW p \in Process, Command(p) \/ Stop(p) PROVE StoreInv'
  BY <1>1, AddKeeps, CommitKeeps, RootKeeps, PushKeeps, PruneKeeps, RemoveKeeps
     DEF Command
<1>2. ASSUME NEW f \in File, NEW h \in Hash \cup {None}, Edit(f, h) PROVE StoreInv'
  BY <1>2 DEF Edit, localVars, StoreInv, LocalTypeOK, ListsFull, NoEmptyCommit,
              Listed, Hashes
<1>3. CASE UNCHANGED vars
  BY <1>3 DEF vars, storeVars, localVars, StoreInv, LocalTypeOK, ListsFull,
              NoEmptyCommit, Listed
<1> QED BY <1>1, <1>2, <1>3 DEF Next

-----------------------------------------------------------------------------
\* Whatever commands race, stop or fail, index and commits have their types.
THEOREM LocalTypeCorrect == Spec => []LocalTypeOK
<1>1. StoreInv => LocalTypeOK
  BY DEF StoreInv
<1> QED BY <1>1, InitStore, StepStore, PTL DEF Spec

\* No commit file is ever without files (log.go:276-285, commit.go:36-38), so
\* push can always tell the roots of a commit (push_build.go:99-101).
THEOREM NoEmptyCommitAlways == Spec => []NoEmptyCommit
<1>1. StoreInv => NoEmptyCommit
  BY DEF StoreInv
<1> QED BY <1>1, InitStore, StepStore, PTL DEF Spec

-----------------------------------------------------------------------------
\* What command p knows while nobody outdates its copies: what it will save
\* has all that is staged, the index it took is the index still, its commit
\* is saved, the commits left on its list are as listed, and push can build
\* those that its prune is done with.
Current(p) ==
  /\ mode[p] = "stage" => \A f \in File : staged[f] # None => copy[p][f] # None
  /\ mode[p] \in {"save", "clear", "root"} => copy[p] = staged
  /\ mode[p] = "clear" => \E c \in Listed(commits) : commits[c].files = copy[p]
  /\ mode[p] \in {"push", "root", "prune"} =>
       \A c \in queue[p] : view[p][c] = commits[c]
  /\ mode[p] = "prune" => \A c \in Listed(view[p]) \ queue[p] :
                            commits[c] # None => Missing(commits[c].files) = {}

QuietInv ==
  /\ \A p \in quiet : Current(p)
  /\ \A p \in Process : mode[p] = "save" => queue[p] = {}

\* The step is one of p: no other command's memory changes.
Only(p) == \A q \in Process \ {p} :
  /\ mode'[q] = mode[q]
  /\ copy'[q] = copy[q]
  /\ view'[q] = view[q]
  /\ queue'[q] = queue[q]

LEMMA MemoryIsOwn ==
  ASSUME LocalTypeOK, NEW p \in Process, NEW m, NEW h, NEW v, NEW Q,
         Memory(p, m, h, v, Q)
  PROVE  /\ Only(p)
         /\ mode'[p] = m /\ copy'[p] = h /\ view'[p] = v /\ queue'[p] = Q
BY DEF Memory, Only, LocalTypeOK

LEMMA ExitIsOwn ==
  ASSUME LocalTypeOK, NEW p \in Process, Exit(p)
  PROVE  Only(p) /\ mode'[p] = "idle" /\ queue'[p] = {}
BY MemoryIsOwn DEF Exit

LEMMA DoneIsOwn ==
  ASSUME LocalTypeOK, NEW p \in Process, NEW c, DoneWith(p, c)
  PROVE  /\ Only(p)
         /\ mode'[p] = mode[p] /\ copy'[p] = copy[p] /\ view'[p] = view[p]
         /\ queue'[p] = queue[p] \ {c}
BY DEF DoneWith, Only, LocalTypeOK

\* Who writes outdates the others, who does not leaves them what they know.
LEMMA OthersCurrent ==
  ASSUME StoreInv, QuietInv, NEW p \in Process, Only(p),
         Writes(p) \/ (UNCHANGED storeVars /\ quiet' \subseteq quiet \cup {p}),
         p \in quiet' => Current(p)', mode'[p] = "save" => queue'[p] = {}
  PROVE  QuietInv'
<1>1. ASSUME NEW q \in quiet', q # p PROVE Current(q)'
  <2>1. q \in quiet /\ q \in Process /\ UNCHANGED storeVars
    BY <1>1 DEF Writes, StoreInv, LocalTypeOK
  <2>2. Current(q)
    BY <2>1 DEF QuietInv
  <2>3. /\ mode'[q] = mode[q] /\ copy'[q] = copy[q]
        /\ view'[q] = view[q] /\ queue'[q] = queue[q]
    BY <1>1, <2>1 DEF Only
  <2> QED BY <2>1, <2>2, <2>3 DEF Current, storeVars, Listed, Missing
<1>2. \A q \in Process : mode'[q] = "save" => queue'[q] = {}
  BY DEF Only, QuietInv
<1> QED BY <1>1, <1>2 DEF QuietInv

\* A step to a mode that promises nothing about copies.
LEMMA FreeStep ==
  ASSUME StoreInv, QuietInv, NEW p \in Process, Only(p),
         Writes(p) \/ (UNCHANGED storeVars /\ quiet' \subseteq quiet \cup {p}),
         mode'[p] \in {"idle", "load", "remove"}
  PROVE  QuietInv'
<1>1. Current(p)'
  BY DEF Current
<1> QED BY <1>1, OthersCurrent

LEMMA AddCurrent ==
  ASSUME StoreInv, QuietInv, NEW p \in Process, AddScan(p) \/ AddLoad(p) \/ AddSave(p)
  PROVE  QuietInv'
<1>0. LocalTypeOK
  BY DEF StoreInv
<1>1. CASE AddScan(p)
  BY <1>0, <1>1, MemoryIsOwn, FreeStep DEF AddScan
<1>2. CASE AddLoad(p)
  <2>1. PICK F \in {Present(copy[p])} \cup {{f} : f \in Present(copy[p])} :
          Memory(p, "stage", [f \in File |-> IF f \in F THEN copy[p][f] ELSE staged[f]],
                 NoCommits, {})
    BY <1>2 DEF AddLoad
  <2>2. /\ Only(p) /\ mode'[p] = "stage"
        /\ copy'[p] = [f \in File |-> IF f \in F THEN copy[p][f] ELSE staged[f]]
    BY <1>0, <2>1, MemoryIsOwn
  <2>3. UNCHANGED storeVars /\ quiet' = quiet \cup {p}
    BY <1>2 DEF AddLoad, Reads
  <2>4. F \subseteq Present(copy[p])
    BY <2>1
  <2>5. Current(p)'
    BY <2>2, <2>3, <2>4 DEF Current, Present, storeVars
  <2> QED BY <2>2, <2>3, <2>5, OthersCurrent
<1>3. CASE AddSave(p)
  BY <1>0, <1>3, ExitIsOwn, FreeStep DEF AddSave
<1> QED BY <1>1, <1>2, <1>3

LEMMA CommitCurrent ==
  ASSUME StoreInv, QuietInv, NEW p \in Process,
         CommitLoad(p) \/ CommitSave(p) \/ CommitClear(p)
  PROVE  QuietInv'
<1>0. LocalTypeOK
  BY DEF StoreInv
<1>1. CASE CommitLoad(p)
  <2>1. /\ Only(p) /\ mode'[p] = "save" /\ copy'[p] = staged /\ queue'[p] = {}
        /\ UNCHANGED storeVars /\ quiet' = quiet \cup {p}
    BY <1>0, <1>1, MemoryIsOwn DEF CommitLoad, Reads
  <2>2. Current(p)'
    BY <2>1 DEF Current, storeVars
  <2> QED BY <2>1, <2>2, OthersCurrent
<1>2. CASE CommitSave(p)
  <2>1. PICK c \in CommitId :
          commits' = [commits EXCEPT ![c] = [files |-> copy[p], pushed |-> FALSE]]
    BY <1>2 DEF CommitSave
  <2>2. /\ Only(p) /\ mode'[p] = "clear" /\ copy'[p] = copy[p]
        /\ Writes(p) /\ staged' = staged
    BY <1>0, <1>2, MemoryIsOwn DEF CommitSave
  <2>3. p \in quiet => copy[p] = staged
    BY <1>2 DEF CommitSave, QuietInv, Current
  <2>4. [files |-> copy[p], pushed |-> FALSE] \in CommitFile
    BY <1>0 DEF LocalTypeOK, CommitFile
  <2>5. commits'[c] = [files |-> copy[p], pushed |-> FALSE] /\ c \in Listed(commits')
    BY <1>0, <2>1, <2>4, LocalStoreAssumption
       DEF LocalTypeOK, Listed, CommitFile, Hashes
  <2>6. \E d \in Listed(commits') : commits'[d].files = copy'[p]
    BY <2>2, <2>5
  <2>7. p \in quiet' => Current(p)'
    BY <2>2, <2>3, <2>6 DEF Current, Writes, Listed
  <2> QED BY <2>2, <2>7, OthersCurrent
<1>3. CASE CommitClear(p)
  BY <1>0, <1>3, ExitIsOwn, FreeStep DEF CommitClear
<1> QED BY <1>1, <1>2, <1>3

LEMMA PushCurrent ==
  ASSUME StoreInv, QuietInv, NEW p \in Process,
         PushList(p) \/ PushMark(p) \/ PushFails(p) \/ Stop(p)
  PROVE  QuietInv'
<1>0. LocalTypeOK
  BY DEF StoreInv
<1>1. CASE PushList(p)
  <2>1. /\ Only(p) /\ mode'[p] = "push" /\ view'[p] = commits
        /\ UNCHANGED storeVars /\ quiet' = quiet \cup {p}
    BY <1>0, <1>1, MemoryIsOwn DEF PushList, Reads
  <2>2. Current(p)'
    BY <2>1 DEF Current, storeVars
  <2> QED BY <2>1, <2>2, OthersCurrent
<1>2. CASE PushMark(p)
  <2>1. PICK c \in queue[p] :
          /\ commits' = [commits EXCEPT ![c] = [view[p][c] EXCEPT !.pushed = TRUE]]
          /\ DoneWith(p, c)
    BY <1>2 DEF PushMark
  <2>2. /\ Only(p) /\ mode[p] = "push" /\ mode'[p] = "push" /\ view'[p] = view[p]
        /\ queue'[p] = queue[p] \ {c} /\ Writes(p)
    BY <1>0, <1>2, <2>1, DoneIsOwn DEF PushMark
  <2>3. \A d \in queue'[p] : commits'[d] = commits[d]
    BY <1>0, <2>1, <2>2 DEF LocalTypeOK
  <2>4. p \in quiet' => Current(p)'
    BY <2>2, <2>3 DEF QuietInv, Current, Writes
  <2> QED BY <2>2, <2>4, OthersCurrent
<1>3. CASE PushFails(p) \/ Stop(p)
  BY <1>0, <1>3, ExitIsOwn, FreeStep DEF PushFails, Stop
<1> QED BY <1>1, <1>2, <1>3

LEMMA RootCurrent ==
  ASSUME StoreInv, QuietInv, NEW p \in Process, AskRoot(p) \/ SaveRoot(p)
  PROVE  QuietInv'
<1>0. LocalTypeOK
  BY DEF StoreInv
<1>1. CASE mode[p] = "idle" /\ AskRoot(p)
  <2>1. /\ Only(p) /\ mode'[p] = "root" /\ copy'[p] = staged /\ queue'[p] = {}
        /\ UNCHANGED storeVars /\ quiet' = quiet \cup {p}
    BY <1>0, <1>1, MemoryIsOwn DEF AskRoot, Reads
  <2>2. Current(p)'
    BY <2>1 DEF Current, storeVars
  <2> QED BY <2>1, <2>2, OthersCurrent
<1>2. CASE mode[p] = "push" /\ AskRoot(p)
  <2>1. /\ Only(p) /\ mode'[p] = "root" /\ copy'[p] = staged
        /\ queue'[p] = queue[p] /\ view'[p] = view[p]
        /\ UNCHANGED storeVars /\ quiet' = quiet
    BY <1>0, <1>2, MemoryIsOwn DEF AskRoot
  <2>2. p \in quiet' => Current(p)'
    BY <1>2, <2>1 DEF QuietInv, Current, storeVars
  <2> QED BY <2>1, <2>2, OthersCurrent
<1>3. CASE SaveRoot(p)
  <2>1. /\ Only(p) /\ mode[p] = "root" /\ mode'[p] \in {"idle", "push"}
        /\ queue'[p] = queue[p] /\ view'[p] = view[p]
        /\ Writes(p) /\ commits' = commits
    BY <1>0, <1>3, MemoryIsOwn DEF SaveRoot
  <2>2. p \in quiet' => Current(p)'
    BY <2>1 DEF QuietInv, Current, Writes
  <2> QED BY <2>1, <2>2, OthersCurrent
<1> QED BY <1>1, <1>2, <1>3 DEF AskRoot

\* prune is done with commit c of its list, which push can build now.
LEMMA PruneDone ==
  ASSUME StoreInv, QuietInv, NEW p \in Process, NEW c \in CommitId,
         mode[p] = "prune", DoneWith(p, c), UNCHANGED disk,
         \A d \in CommitId \ {c} : commits'[d] = commits[d],
         p \in quiet' => p \in quiet,
         p \in quiet /\ commits'[c] # None => Missing(commits'[c].files) = {}
  PROVE  p \in quiet' => Current(p)'
<1>0. LocalTypeOK
  BY DEF StoreInv
<1>1. /\ mode'[p] = "prune" /\ view'[p] = view[p] /\ queue'[p] = queue[p] \ {c}
  BY <1>0, DoneIsOwn
<1>2. SUFFICES ASSUME p \in quiet PROVE Current(p)'
  OBVIOUS
<1>3. Current(p)
  BY <1>2 DEF QuietInv
<1>4. queue[p] \subseteq CommitId
  BY <1>0 DEF LocalTypeOK
<1>5. \A d \in queue'[p] : view'[p][d] = commits'[d]
  BY <1>1, <1>3, <1>4 DEF Current
<1>6. \A d \in Listed(view'[p]) \ queue'[p] :
        commits'[d] # None => Missing(commits[d].files)' = {}
  <2> SUFFICES ASSUME NEW d \in Listed(view[p]) \ queue'[p], commits'[d] # None
               PROVE  Missing(commits[d].files)' = {}
    BY <1>1 DEF Listed
  <2>1. d \in CommitId
    BY DEF Listed
  <2>2. CASE d = c
    BY <1>2, <2>2 DEF Missing
  <2>3. CASE d # c
    BY <1>1, <1>3, <2>1, <2>3 DEF Current, Missing
  <2> QED BY <2>2, <2>3
<1> QED BY <1>1, <1>5, <1>6 DEF Current, Listed

LEMMA PruneCurrent ==
  ASSUME StoreInv, QuietInv, NEW p \in Process,
         PruneList(p) \/ PruneKeep(p) \/ PruneUpdate(p) \/ PruneDelete(p)
  PROVE  QuietInv'
<1>0. LocalTypeOK
  BY DEF StoreInv
<1>1. CASE PruneList(p)
  <2>1. PICK Q \in {Pending(commits)} \cup {{c} : c \in Listed(commits)} :
          Memory(p, "prune", NoHashes,
                 [c \in CommitId |-> IF c \in Q THEN commits[c] ELSE None], Q)
    BY <1>1 DEF PruneList
  <2>2. /\ Only(p) /\ mode'[p] = "prune" /\ queue'[p] = Q
        /\ view'[p] = [c \in CommitId |-> IF c \in Q THEN commits[c] ELSE None]
    BY <1>0, <2>1, MemoryIsOwn
  <2>3. UNCHANGED storeVars /\ quiet' = quiet \cup {p}
    BY <1>1 DEF PruneList, Reads
  <2>4. Q \subseteq CommitId /\ Listed(view'[p]) \ queue'[p] = {}
    BY <2>1, <2>2 DEF Listed, Pending
  <2>5. \A c \in queue'[p] : view'[p][c] = commits'[c]
    BY <2>2, <2>3, <2>4 DEF storeVars
  <2>6. Current(p)'
    BY <2>2, <2>4, <2>5 DEF Current, Listed
  <2> QED BY <2>2, <2>3, <2>6, OthersCurrent
<1>2. CASE PruneKeep(p)
  <2>1. PICK c \in queue[p] : Missing(view[p][c].files) = {} /\ DoneWith(p, c)
    BY <1>2 DEF PruneKeep
  <2>2. UNCHANGED <<storeVars, quiet>> /\ mode[p] = "prune"
    BY <1>2 DEF PruneKeep
  <2>3. p \in quiet => view[p][c] = commits[c]
    BY <2>1, <2>2 DEF QuietInv, Current
  <2>4. c \in CommitId
    BY <1>0, <2>1 DEF LocalTypeOK
  <2>5. p \in quiet' => Current(p)'
    BY <2>1, <2>2, <2>3, <2>4, PruneDone DEF storeVars
  <2>6. Only(p) /\ mode'[p] = "prune"
    BY <1>0, <2>1, <2>2, DoneIsOwn
  <2> QED BY <2>2, <2>5, <2>6, OthersCurrent
<1>3. CASE PruneUpdate(p)
  <2> DEFINE left(c) == Without(view[p][c].files, Missing(view[p][c].files))
  <2>1. PICK c \in queue[p] :
          /\ commits' = [commits EXCEPT ![c] = [view[p][c] EXCEPT !.files = left(c)]]
          /\ DoneWith(p, c)
    BY <1>3 DEF PruneUpdate
  <2>2. mode[p] = "prune" /\ Writes(p) /\ UNCHANGED disk
    BY <1>3 DEF PruneUpdate
  <2>3. c \in CommitId /\ view[p][c] \in CommitFile
    BY <1>0, <2>1, <2>2 DEF StoreInv, LocalTypeOK, ListsFull, Listed
  <2>4. commits'[c].files = left(c) /\ \A d \in CommitId \ {c} : commits'[d] = commits[d]
    BY <1>0, <2>1, <2>3 DEF LocalTypeOK, CommitFile
  <2>5. Missing(left(c)) = {}
    BY DEF Missing, Without, Present
  <2>6. p \in quiet' => Current(p)'
    BY <2>1, <2>2, <2>3, <2>4, <2>5, PruneDone DEF Writes
  <2>7. Only(p) /\ mode'[p] = "prune"
    BY <1>0, <2>1, <2>2, DoneIsOwn
  <2> QED BY <2>2, <2>6, <2>7, OthersCurrent
<1>4. CASE PruneDelete(p)
  <2>1. PICK c \in queue[p] : /\ Exit(p) \/ DoneWith(p, c)
                            /\ commits' = [commits EXCEPT ![c] = None]
    BY <1>4 DEF PruneDelete
  <2>2. mode[p] = "prune" /\ Writes(p) /\ UNCHANGED disk
    BY <1>4 DEF PruneDelete
  <2>3. CASE Exit(p)
    BY <1>0, <2>2, <2>3, ExitIsOwn, FreeStep
  <2>4. CASE DoneWith(p, c)
    <3>1. c \in CommitId /\ commits'[c] = None
          /\ \A d \in CommitId \ {c} : commits'[d] = commits[d]
      BY <1>0, <2>1 DEF LocalTypeOK
    <3>2. p \in quiet' => Current(p)'
      BY <2>2, <2>4, <3>1, PruneDone DEF Writes
    <3>3. Only(p) /\ mode'[p] = "prune"
      BY <1>0, <2>2, <2>4, DoneIsOwn
    <3> QED BY <2>2, <3>2, <3>3, OthersCurrent
  <2> QED BY <2>1, <2>3, <2>4
<1> QED BY <1>1, <1>2, <1>3, <1>4

LEMMA RemoveCurrent ==
  ASSUME StoreInv, QuietInv, NEW p \in Process, RemoveList(p) \/ RemoveNext(p)
  PROVE  QuietInv'
<1>0. LocalTypeOK
  BY DEF StoreInv
<1>1. CASE RemoveList(p)
  BY <1>0, <1>1, MemoryIsOwn, FreeStep DEF RemoveList
<1>2. CASE RemoveNext(p)
  BY <1>0, <1>2, DoneIsOwn, FreeStep DEF RemoveNext
<1> QED BY <1>1, <1>2

\* Every step keeps what the quiet commands know.
LEMMA StepCurrent == StoreInv /\ QuietInv /\ [Next]_vars => QuietInv'
<1> SUFFICES ASSUME StoreInv, QuietInv, [Next]_vars PROVE QuietInv'
  OBVIOUS
<1>1. ASSUME NEW p \in Process, Command(p) \/ Stop(p) PROVE QuietInv'
  BY <1>1, AddCurrent, CommitCurrent, RootCurrent, PushCurrent, PruneCurrent,
     RemoveCurrent DEF Command
<1>2. ASSUME NEW f \in File, NEW h \in Hash \cup {None}, Edit(f, h) PROVE QuietInv'
  BY <1>2 DEF Edit, localVars, QuietInv, Current, Listed
<1>3. CASE UNCHANGED vars
  BY <1>3 DEF vars, storeVars, localVars, QuietInv, Current, Listed, Missing
<1> QED BY <1>1, <1>2, <1>3 DEF Next

\* At the start nobody has a copy.
LEMMA InitCurrent == Init => QuietInv
  BY DEF Init, QuietInv

\* The two invariants together, for the theorems below.
LEMMA StoreAndQuiet == Spec => [](StoreInv /\ QuietInv)
  BY InitStore, StepStore, InitCurrent, StepCurrent, PTL DEF Spec

-----------------------------------------------------------------------------
\* push can build every commit that a prune nobody disturbed is done with
\* (log.go:207), for any number of commands, files and commits.
THEOREM PruneRepairsAlways == Spec => []PruneRepairs
<1>1. QuietInv => PruneRepairs
  BY DEF QuietInv, Current, PruneRepairs
<1> QED BY <1>1, StoreAndQuiet, PTL

\* Only p's own list shrinks or grows in a step of p.
LEMMA OwnQueue ==
  ASSUME LocalTypeOK, NEW p \in Process, Command(p) \/ Stop(p)
  PROVE  \A q \in Process \ {p} : queue'[q] = queue[q] /\ mode'[q] = mode[q]
<1>1. (\E m, h, v, Q : Memory(p, m, h, v, Q)) => Only(p)
  BY MemoryIsOwn
<1>2. (\E c : DoneWith(p, c)) => Only(p)
  BY DoneIsOwn
<1>3. (\E m, h, v, Q : Memory(p, m, h, v, Q)) \/ Exit(p) \/ \E c : DoneWith(p, c)
  <2>1. AddScan(p) \/ AddLoad(p) \/ CommitLoad(p) \/ CommitSave(p) \/ PushList(p)
        \/ AskRoot(p) \/ SaveRoot(p)
        \/ PruneList(p) \/ RemoveList(p) => \E m, h, v, Q : Memory(p, m, h, v, Q)
    BY DEF AddScan, AddLoad, CommitLoad, CommitSave, AskRoot, SaveRoot, PushList,
           PruneList, RemoveList
  <2>2. AddSave(p) \/ CommitClear(p) \/ PushFails(p) \/ Stop(p) => Exit(p)
    BY DEF AddSave, CommitClear, PushFails, Stop
  <2>3. PushMark(p) \/ PruneKeep(p) \/ PruneUpdate(p) \/ RemoveNext(p)
        => \E c : DoneWith(p, c)
    BY DEF PushMark, PruneKeep, PruneUpdate, RemoveNext
  <2>4. PruneDelete(p) => Exit(p) \/ \E c : DoneWith(p, c)
    BY DEF PruneDelete
  <2> QED BY <2>1, <2>2, <2>3, <2>4 DEF Command
<1> QED BY <1>1, <1>2, <1>3, ExitIsOwn DEF Only

\* A staged file leaves the index only for a commit that has it (commit.go
\* :48-57, add.go:70, 97, scan_root.go:41), whoever races, unless the copy was outdated.
THEOREM UnstagedIsCommittedAlways == Spec => UnstagedIsCommitted
<1>1. ASSUME StoreInv, QuietInv, [Next]_vars,
             NEW p \in quiet', NEW f \in File,
             mode'[p] # mode[p], staged[f] # None, staged'[f] = None
      PROVE  \E c \in Listed(commits) : commits[c].files[f] = staged[f]
  <2>0. LocalTypeOK /\ staged' # staged
    BY <1>1 DEF StoreInv
  <2>1. PICK q \in Process : Command(q) \/ Stop(q)
    BY <1>1, <2>0 DEF Next, Edit, vars, storeVars
  <2>2. AddSave(q) \/ CommitClear(q) \/ SaveRoot(q)
    BY <2>0, <2>1
    DEF Command, Stop, AddScan, AddLoad, CommitLoad, CommitSave, AskRoot, PushList, PushMark,
        PushFails, PruneList, PruneKeep, PruneUpdate, PruneDelete, RemoveList,
        RemoveNext, storeVars
  <2>3. p \in quiet /\ p = q
    BY <1>1, <2>2 DEF AddSave, CommitClear, SaveRoot, Writes
  <2>4. Current(p)
    BY <1>1, <2>3 DEF QuietInv
  <2>5. CASE AddSave(q)
    BY <1>1, <2>3, <2>4, <2>5 DEF AddSave, Current
  <2>6. CASE CommitClear(q)
    BY <2>3, <2>4, <2>6 DEF CommitClear, Current
  <2>7. CASE SaveRoot(q)
    BY <1>1, <2>3, <2>4, <2>7 DEF SaveRoot, Current
  <2> QED BY <2>2, <2>5, <2>6, <2>7
<1>2. StoreInv /\ QuietInv /\ [Next]_vars =>
        [\A p \in quiet', f \in File :
           (mode'[p] # mode[p] /\ staged[f] # None /\ staged'[f] = None)
             => \E c \in Listed(commits) : commits[c].files[f] = staged[f]]_vars
  BY <1>1
<1>3. Spec => [][\A p \in quiet', f \in File :
           (mode'[p] # mode[p] /\ staged[f] # None /\ staged'[f] = None)
             => \E c \in Listed(commits) : commits[c].files[f] = staged[f]]_vars
  BY <1>2, StoreAndQuiet, PTL DEF Spec
<1> QED BY <1>3 DEF UnstagedIsCommitted

\* A commit keeps its PushedAt and takes back no file that prune dropped
\* (push.go:266-271, log.go:283), unless the writer's list was outdated.
THEOREM CommitOnlyAdvancesAlways == Spec => CommitOnlyAdvances
<1>1. ASSUME StoreInv, QuietInv, [Next]_vars, NEW p \in quiet,
             NEW c \in Listed(commits) \cap Listed(commits'), queue'[p] # queue[p]
      PROVE  /\ commits[c].pushed => commits'[c].pushed
             /\ Present(commits'[c].files) \subseteq Present(commits[c].files)
  <2>0. LocalTypeOK /\ p \in Process /\ Current(p) /\ c \in CommitId
    BY <1>1 DEF StoreInv, LocalTypeOK, QuietInv, Listed
  <2>1. PICK q \in Process : Command(q) \/ Stop(q)
    BY <1>1 DEF Next, Edit, vars, localVars
  <2>2. p = q
    BY <1>1, <2>0, <2>1, OwnQueue
  <2>3. CASE commits'[c] = commits[c]
    BY <2>3
  <2>4. CASE CommitSave(p)
    <3>1. queue[p] = {} /\ queue'[p] = {}
      BY <2>0, <2>4, MemoryIsOwn, <1>1 DEF CommitSave, QuietInv
    <3> QED BY <1>1, <3>1
  <2>5. CASE PushMark(p)
    <3>1. PICK d \in queue[p] :
            commits' = [commits EXCEPT ![d] = [view[p][d] EXCEPT !.pushed = TRUE]]
      BY <2>5 DEF PushMark
    <3>2. view[p][d] = commits[d] /\ view[p][d] \in CommitFile /\ d \in CommitId
      BY <1>1, <2>0, <2>5 DEF PushMark, Current, StoreInv, ListsFull, LocalTypeOK, Listed
    <3> QED BY <2>0, <2>3, <3>1, <3>2 DEF LocalTypeOK, CommitFile
  <2>6. CASE PruneUpdate(p)
    <3> DEFINE left(d) == Without(view[p][d].files, Missing(view[p][d].files))
    <3>1. PICK d \in queue[p] :
            commits' = [commits EXCEPT ![d] = [view[p][d] EXCEPT !.files = left(d)]]
      BY <2>6 DEF PruneUpdate
    <3>2. view[p][d] = commits[d] /\ view[p][d] \in CommitFile /\ d \in CommitId
      BY <1>1, <2>0, <2>6 DEF PruneUpdate, Current, StoreInv, ListsFull, LocalTypeOK, Listed
    <3>3. Present(left(d)) \subseteq Present(view[p][d].files)
      BY DEF Present, Without
    <3> QED BY <2>0, <2>3, <3>1, <3>2, <3>3 DEF LocalTypeOK, CommitFile
  <2>7. CASE PruneDelete(p) \/ RemoveNext(p)
    <3>1. PICK d : commits' = [commits EXCEPT ![d] = None]
      BY <2>7 DEF PruneDelete, RemoveNext
    <3> QED BY <1>1, <2>0, <2>3, <3>1 DEF LocalTypeOK, Listed
  <2>8. CASE UNCHANGED commits
    BY <2>3, <2>8
  <2> QED BY <2>1, <2>2, <2>4, <2>5, <2>6, <2>7, <2>8
          DEF Command, Stop, AddScan, AddLoad, AddSave, CommitLoad, CommitClear,
              AskRoot, SaveRoot, PushList, PushFails, PruneList, PruneKeep, RemoveList, storeVars
<1>2. StoreInv /\ QuietInv /\ [Next]_vars =>
        [\A p \in quiet, c \in Listed(commits) \cap Listed(commits') :
           queue'[p] # queue[p] =>
             /\ commits[c].pushed => commits'[c].pushed
             /\ Present(commits'[c].files) \subseteq Present(commits[c].files)]_vars
  BY <1>1
<1>3. Spec => [][\A p \in quiet, c \in Listed(commits) \cap Listed(commits') :
           queue'[p] # queue[p] =>
             /\ commits[c].pushed => commits'[c].pushed
             /\ Present(commits'[c].files) \subseteq Present(commits[c].files)]_vars
  BY <1>2, StoreAndQuiet, PTL DEF Spec
<1> QED BY <1>3 DEF CommitOnlyAdvances

-----------------------------------------------------------------------------
(***************************************************************************)
(* IndexFile, for any number of commands, indexes and inodes: the types,   *)
(* and that without overlapping saves the index is whole and changes at    *)
(* once.  IndexWhole needs to know whose the temporary file is: nobody but *)
(* the one command that saves has its inode, and it holds what that        *)
(* command has written (Calm).                                             *)
(***************************************************************************)

\* No two commands save, and inodes that are read or live are not written.
Calm ==
  /\ \A p, q \in Saver : Saving(p) /\ Saving(q) => p = q
  /\ path # Nothing => path # tmp /\ data[path] \in Version
  /\ \A p \in Saver : step[p] = "read" => /\ data[file[p]] \in Version
                                            /\ file[p] # tmp
  /\ \A p \in Saver : Saving(p) =>
       /\ tmp \in {file[p], Nothing}
       /\ file[p] # path
       /\ \A q \in Saver : step[q] = "read" => file[q] # file[p]
  /\ \A p \in Saver : step[p] = "write" => data[file[p]] = Empty
  /\ \A p \in Saver : step[p] = "rename" => data[file[p]] = mem[p]

FileInv == FileTypeOK /\ (~overlapped => Calm)

-----------------------------------------------------------------------------
\* At the start there is no file.
LEMMA InitFile == IndexInit => FileInv
  BY IndexFileAssumption DEF IndexInit, FileInv, FileTypeOK, Calm, Saving

\* Loading opens what is live, and the names stay.
LEMMA LoadKeeps ==
  ASSUME FileInv, NEW p \in Saver, Load(p) \/ Halt(p)
  PROVE  FileInv'
<1> USE IndexFileAssumption DEF FileInv, FileTypeOK, Local, Quit, nameVars
<1>1. CASE OpenIndex(p)
  BY <1>1 DEF OpenIndex, Calm, Saving
<1>2. CASE ReadIndex(p)
  BY <1>2 DEF ReadIndex, Calm, Saving
<1>3. CASE ReadFails(p)
  BY <1>3 DEF ReadFails, Calm, Saving
<1>4. CASE Halt(p)
  BY <1>4 DEF Halt, Calm, Saving
<1> QED BY <1>1, <1>2, <1>3, <1>4 DEF Load

\* The temporary file is truncated, or new: nobody reads its inode.
LEMMA OpenTmpKeeps ==
  ASSUME FileInv, NEW p \in Saver, OpenTmp(p)
  PROVE  FileInv'
<1> USE IndexFileAssumption
<1>1. PICK c \in Version, n \in IF tmp = Nothing THEN Unused ELSE {tmp} :
        /\ tmp' = n
        /\ data' = [data EXCEPT ![n] = Empty]
        /\ Local(p, "write", n, c)
  BY DEF OpenTmp
<1>2. /\ n \in Inode
      /\ tmp = Nothing => n # path /\ \A q \in Saver : n # file[q]
      /\ path' = path /\ step[p] = "loaded"
      /\ overlapped' = (overlapped \/ \E q \in Saver : Saving(q))
  BY <1>1 DEF FileInv, FileTypeOK, Unused, OpenTmp
<1>3. FileTypeOK'
  BY <1>1, <1>2 DEF FileInv, FileTypeOK, Local
<1>4. ASSUME ~overlapped' PROVE Calm'
  <2>1. Calm /\ \A q \in Saver : ~Saving(q)
    BY <1>2, <1>4 DEF FileInv
  <2>2. /\ step'[p] = "write" /\ file'[p] = n
        /\ \A q \in Saver \ {p} : /\ step'[q] = step[q]
                                    /\ file'[q] = file[q]
                                    /\ mem'[q] = mem[q]
        /\ data'[n] = Empty
        /\ \A k \in Inode \ {n} : data'[k] = data[k]
    BY <1>1, <1>2 DEF Local, FileInv, FileTypeOK
  <2>3. path # Nothing => path # n
    BY <1>1, <1>2, <2>1 DEF Calm
  <2>4. \A q \in Saver : step[q] = "read" => file[q] # n /\ file[q] \in Inode
    BY <1>1, <1>2, <2>1 DEF Calm, FileInv, FileTypeOK
  <2> QED BY <1>1, <1>2, <2>1, <2>2, <2>3, <2>4 DEF Calm, Saving, FileInv, FileTypeOK
<1> QED BY <1>3, <1>4 DEF FileInv

\* Writing changes the one inode that is the command's own.
LEMMA WriteKeeps ==
  ASSUME FileInv, NEW p \in Saver, WriteAll(p) \/ WriteSome(p)
  PROVE  FileInv'
<1> USE IndexFileAssumption
<1>1. PICK d \in Version \cup {Torn}, s \in {"rename", "idle"} :
        /\ step[p] = "write"
        /\ data' = [data EXCEPT ![file[p]] = d]
        /\ \/ s = "rename" /\ Local(p, s, file[p], mem[p])
           \/ s = "idle" /\ Local(p, s, Nothing, Nothing)
        /\ s = "rename" /\ data[file[p]] = Empty => d = mem[p]
        /\ UNCHANGED <<path, tmp, overlapped>>
  BY DEF WriteAll, WriteSome, Quit, FileInv, FileTypeOK
<1>2. file[p] \in Inode /\ mem[p] \in Version
  BY <1>1 DEF FileInv, FileTypeOK
<1>3. FileTypeOK'
  BY <1>1, <1>2 DEF FileInv, FileTypeOK, Local
<1>4. ASSUME ~overlapped PROVE Calm'
  <2>1. Calm /\ Saving(p)
    BY <1>1, <1>4 DEF FileInv, Saving
  <2>2. /\ step'[p] = s
        /\ s = "rename" => file'[p] = file[p] /\ mem'[p] = mem[p]
        /\ \A q \in Saver \ {p} : /\ step'[q] = step[q]
                                    /\ file'[q] = file[q]
                                    /\ mem'[q] = mem[q]
        /\ data'[file[p]] = d
        /\ \A k \in Inode \ {file[p]} : data'[k] = data[k]
    BY <1>1, <1>2 DEF Local, FileInv, FileTypeOK
  <2>3. \A q \in Saver \ {p} : ~Saving(q)
    BY <2>1 DEF Calm
  <2> QED BY <1>1, <1>2, <2>1, <2>2, <2>3 DEF Calm, Saving, FileInv, FileTypeOK
<1> QED BY <1>1, <1>3, <1>4 DEF FileInv

\* The name moves to an inode that is written and nobody else's.
LEMMA RenameKeeps ==
  ASSUME FileInv, NEW p \in Saver, RenameTmp(p) \/ RenameFails(p)
  PROVE  FileInv'
<1> USE IndexFileAssumption
<1>1. FileTypeOK'
  BY DEF RenameTmp, RenameFails, Quit, Local, FileInv, FileTypeOK
<1>2. ASSUME ~overlapped PROVE Calm'
  <2>1. /\ Calm /\ Saving(p) /\ step[p] = "rename"
        /\ file[p] \in Inode /\ mem[p] \in Version
    BY <1>2 DEF RenameTmp, RenameFails, FileInv, FileTypeOK, Saving
  <2>2. /\ step'[p] = "idle"
        /\ \A q \in Saver \ {p} : /\ step'[q] = step[q]
                                    /\ file'[q] = file[q]
                                    /\ mem'[q] = mem[q]
        /\ data' = data /\ tmp' = Nothing
    BY DEF RenameTmp, RenameFails, Quit, Local, FileInv, FileTypeOK
  <2>3. \A q \in Saver : ~Saving(q)'
    BY <2>1, <2>2 DEF Calm, Saving
  <2>4. \/ path' = path
        \/ path' = file[p] /\ data[file[p]] \in Version
    BY <2>1 DEF RenameTmp, RenameFails, Calm
  <2> QED BY <2>1, <2>2, <2>3, <2>4 DEF Calm, Saving, FileInv, FileTypeOK
<1>3. overlapped' = overlapped
  BY DEF RenameTmp, RenameFails
<1> QED BY <1>1, <1>2, <1>3 DEF FileInv

\* Every step of the specification keeps the invariant.
LEMMA StepFile == FileInv /\ [IndexNext]_indexVars => FileInv'
<1> SUFFICES ASSUME FileInv, [IndexNext]_indexVars PROVE FileInv'
  OBVIOUS
<1>1. ASSUME NEW p \in Saver, Load(p) \/ Save(p) \/ Halt(p) PROVE FileInv'
  BY <1>1, LoadKeeps, OpenTmpKeeps, WriteKeeps, RenameKeeps DEF Save
<1>2. CASE Wipe
  BY <1>2, IndexFileAssumption
  DEF Wipe, memVars, FileInv, FileTypeOK, Calm, Saving
<1>3. CASE UNCHANGED indexVars
  BY <1>3 DEF indexVars, nameVars, memVars, FileInv, FileTypeOK, Calm, Saving
<1> QED BY <1>1, <1>2, <1>3 DEF IndexNext

-----------------------------------------------------------------------------
\* Whatever overlaps, no command takes for an index what is not one.
THEOREM FileTypeCorrect == IndexSpec => []FileTypeOK
<1>1. FileInv => FileTypeOK
  BY DEF FileInv
<1> QED BY <1>1, InitFile, StepFile, PTL DEF IndexSpec

\* As long as no two saves overlap, every load finds an index that parses
\* (index.go:33-36), whichever saves were killed before.
THEOREM IndexWholeAlways == IndexSpec => []IndexWhole
<1>1. FileInv => IndexWhole
  BY DEF FileInv, Calm, IndexWhole, Index
<1> QED BY <1>1, InitFile, StepFile, PTL DEF IndexSpec

\* As long as no two saves overlap, only a rename changes the index, and it
\* puts there what its command saves (index.go:69-77); LocalStore's saves in
\* one step rest on it.
THEOREM SaveIsAtomicAlways == IndexSpec => SaveIsAtomic
<1>1. ASSUME FileInv, [IndexNext]_indexVars, ~overlapped', Index' # Index
      PROVE  \/ \E p \in Saver : /\ step[p] = "rename"
                                 /\ step'[p] = "idle"
                                 /\ Index' = mem[p]
             \/ Index' = Nothing /\ UNCHANGED memVars
  <2>1. ASSUME NEW p \in Saver, Load(p) \/ Halt(p) \/ RenameFails(p) PROVE FALSE
    BY <1>1, <2>1 DEF Load, OpenIndex, ReadIndex, ReadFails, Halt, RenameFails,
                      nameVars, Index
  <2>2. ASSUME NEW p \in Saver, OpenTmp(p) PROVE FALSE
    <3>1. PICK n \in IF tmp = Nothing THEN Unused ELSE {tmp} :
            data' = [data EXCEPT ![n] = Empty] /\ path' = path
      BY <2>2 DEF OpenTmp
    <3>2. ~overlapped
      BY <1>1, <2>2 DEF OpenTmp
    <3>3. path # Nothing => path # n /\ path \in Inode
      BY <1>1, <3>1, <3>2 DEF FileInv, FileTypeOK, Calm, Unused
    <3> QED BY <1>1, <3>1, <3>3 DEF Index, FileInv, FileTypeOK
  <2>3. ASSUME NEW p \in Saver, WriteAll(p) \/ WriteSome(p) PROVE FALSE
    <3>1. PICK d : data' = [data EXCEPT ![file[p]] = d] /\ path' = path
                   /\ Saving(p) /\ ~overlapped
      BY <1>1, <2>3 DEF WriteAll, WriteSome, Saving
    <3>2. path # Nothing => path # file[p] /\ path \in Inode
      BY <1>1, <2>3, <3>1 DEF FileInv, FileTypeOK, Calm
    <3> QED BY <1>1, <3>1, <3>2 DEF Index, FileInv, FileTypeOK
  <2>4. ASSUME NEW p \in Saver, RenameTmp(p)
        PROVE  step[p] = "rename" /\ step'[p] = "idle" /\ Index' = mem[p]
    <3>1. /\ step[p] = "rename" /\ Saving(p) /\ ~overlapped /\ tmp # Nothing
          /\ path' = tmp /\ data' = data /\ step'[p] = "idle"
      BY <1>1, <2>4 DEF RenameTmp, Saving, Quit, Local, FileInv, FileTypeOK
    <3>2. tmp = file[p] /\ data[file[p]] = mem[p]
      BY <1>1, <3>1 DEF FileInv, Calm
    <3> QED BY <3>1, <3>2 DEF Index
  <2>5. CASE Wipe
    BY <1>1, <2>5 DEF Wipe, Index
  <2>6. CASE UNCHANGED indexVars
    BY <1>1, <2>6 DEF indexVars, nameVars, Index
  <2> QED BY <1>1, <2>1, <2>2, <2>3, <2>4, <2>5, <2>6 DEF IndexNext, Save
<1>2. FileInv /\ [IndexNext]_indexVars =>
        [(~overlapped' /\ Index' # Index) =>
           \/ \E p \in Saver : /\ step[p] = "rename"
                               /\ step'[p] = "idle"
                               /\ Index' = mem[p]
           \/ Index' = Nothing /\ UNCHANGED memVars]_indexVars
  BY <1>1
<1>3. IndexSpec => [][(~overlapped' /\ Index' # Index) =>
           \/ \E p \in Saver : /\ step[p] = "rename"
                               /\ step'[p] = "idle"
                               /\ Index' = mem[p]
           \/ Index' = Nothing /\ UNCHANGED memVars]_indexVars
  BY <1>2, InitFile, StepFile, PTL DEF IndexSpec
<1> QED BY <1>3 DEF SaveIsAtomic
=============================================================================

------------------------------ MODULE IndexFile ------------------------------
(***************************************************************************)
(* One save of index.json, call by call (index/index.go; commit.Save does  *)
(* the same with the file of a commit).  LocalStore takes it as one step.  *)
(*                                                                         *)
(* Save writes index.json.tmp, a name all processes share, and renames it. *)
(* A file is an inode: a rename moves the name, and whoever has the inode  *)
(* open goes on with it.                                                   *)
(***************************************************************************)
CONSTANTS Saver,       \* commands that can run at the same time
          Version,     \* indexes a command can save
          Inode,       \* Bound: more than there are savers
          Empty, Torn, \* what an inode holds that is not an index
          Nothing      \* no such name, no inode, no index

ASSUME IndexFileAssumption ==
  /\ Version \cap {Empty, Torn, Nothing} = {}
  /\ Nothing \notin Inode

VARIABLES path,       \* the inode of index.json
          tmp,        \* the inode of index.json.tmp
          data,       \* data[n]: what inode n holds
          step,       \* step[p]: the next call of process p
          file,       \* file[p]: the inode p has open, or has written
          mem,        \* mem[p]: the index p has in memory
          overlapped  \* history: two saves were under way at once

nameVars == <<path, tmp, data>>
memVars == <<step, file, mem>>
indexVars == <<nameVars, memVars, overlapped>>

FileTypeOK ==
  /\ path \in Inode \cup {Nothing}
  /\ tmp \in Inode \cup {Nothing}
  /\ data \in [Inode -> Version \cup {Empty, Torn}]
  /\ step \in [Saver -> {"idle", "read", "loaded", "write", "rename"}]
  /\ file \in [Saver -> Inode \cup {Nothing}]
  /\ mem \in [Saver -> Version \cup {Nothing}]
  /\ overlapped \in BOOLEAN
  /\ \A p \in Saver : step[p] \in {"read", "write", "rename"} => file[p] \in Inode
  /\ \A p \in Saver : step[p] \in {"write", "rename"} => mem[p] \in Version

IndexInit == /\ path = Nothing
             /\ tmp = Nothing
             /\ data = [n \in Inode |-> Empty]
             /\ step = [p \in Saver |-> "idle"]
             /\ file = [p \in Saver |-> Nothing]
             /\ mem = [p \in Saver |-> Nothing]
             /\ overlapped = FALSE

-----------------------------------------------------------------------------
Local(p, s, n, c) == /\ step' = [step EXCEPT ![p] = s]
                     /\ file' = [file EXCEPT ![p] = n]
                     /\ mem' = [mem EXCEPT ![p] = c]
Quit(p) == Local(p, "idle", Nothing, Nothing)

Saving(p) == step[p] \in {"write", "rename"}
Unused == Inode \ ({path, tmp} \cup {file[p] : p \in Saver})

(* Load: no index.json is an empty index, another one must parse.           *)
OpenIndex(p) ==
  /\ step[p] = "idle"
  /\ Local(p, IF path = Nothing THEN "loaded" ELSE "read", path, Nothing)
  /\ UNCHANGED <<nameVars, overlapped>>

ReadAnything(p) ==
  /\ step[p] = "read"
  /\ Local(p, "loaded", Nothing, data[file[p]])
  /\ UNCHANGED <<nameVars, overlapped>>
ReadIndex(p) ==
  /\ step[p] = "read"
  /\ data[file[p]] \in Version
  /\ Local(p, "loaded", Nothing, data[file[p]])
  /\ UNCHANGED <<nameVars, overlapped>>

ReadFails(p) ==
  /\ step[p] = "read"
  /\ data[file[p]] \notin Version
  /\ Quit(p)
  /\ UNCHANGED <<nameVars, overlapped>>

(* Save: os.WriteFile opens the temporary file, creating or truncating it   *)
(* whoever left it, and writes from its start ...                           *)
OpenTmpKeep(p) ==
  /\ step[p] = "loaded"
  /\ \E c \in Version, n \in IF tmp = Nothing THEN Unused ELSE {tmp} :
       /\ tmp' = n
       /\ data' = IF tmp = Nothing THEN [data EXCEPT ![n] = Empty] ELSE data
       /\ Local(p, "write", n, c)
  /\ overlapped' = (overlapped \/ \E q \in Saver : Saving(q))
  /\ UNCHANGED path
OpenTmp(p) ==
  /\ step[p] = "loaded"
  /\ \E c \in Version, n \in IF tmp = Nothing THEN Unused ELSE {tmp} :
       /\ tmp' = n
       /\ data' = [data EXCEPT ![n] = Empty]
       /\ Local(p, "write", n, c)
  /\ overlapped' = (overlapped \/ \E q \in Saver : Saving(q))
  /\ UNCHANGED path

\* ... over what another process wrote meanwhile, of which an end may stay.
WriteAll(p) ==
  /\ step[p] = "write"
  /\ \E d \in {mem[p]} \cup (IF data[file[p]] = Empty THEN {} ELSE {Torn}) :
       data' = [data EXCEPT ![file[p]] = d]
  /\ Local(p, "rename", file[p], mem[p])
  /\ UNCHANGED <<path, tmp, overlapped>>

\* The disk is full, or the command is killed in the write.
WriteSome(p) ==
  /\ step[p] = "write"
  /\ data' = [data EXCEPT ![file[p]] = Torn]
  /\ Quit(p)
  /\ UNCHANGED <<path, tmp, overlapped>>

\* The rename takes the inode that has the temporary name by now.
LinkTmp(p) ==
  /\ step[p] = "rename"
  /\ tmp # Nothing
  /\ path' = tmp
  /\ Quit(p)
  /\ UNCHANGED <<tmp, data, overlapped>>
RenameTmp(p) ==
  /\ step[p] = "rename"
  /\ tmp # Nothing
  /\ path' = tmp
  /\ tmp' = Nothing
  /\ Quit(p)
  /\ UNCHANGED <<data, overlapped>>

\* A rename that fails, because the name is gone or for another reason,
\* removes the temporary file, whoever's it is.
RenameFails(p) ==
  /\ step[p] = "rename"
  /\ tmp' = Nothing
  /\ Quit(p)
  /\ UNCHANGED <<path, data, overlapped>>

Halt(p) ==
  /\ step[p] # "idle"
  /\ Quit(p)
  /\ UNCHANGED <<nameVars, overlapped>>

\* `sentra wipe` removes ~/.sentra, name by name, under whoever works in it.
Wipe ==
  /\ \/ path' = Nothing /\ UNCHANGED tmp
     \/ tmp' = Nothing /\ UNCHANGED path
  /\ UNCHANGED <<data, memVars, overlapped>>

Save(p) == OpenTmp(p) \/ WriteAll(p) \/ WriteSome(p) \/ RenameTmp(p) \/ RenameFails(p)
Load(p) == OpenIndex(p) \/ ReadIndex(p) \/ ReadFails(p)

IndexNext == \/ \E p \in Saver : Load(p) \/ Save(p) \/ Halt(p)
             \/ Wipe

IndexSpec == IndexInit /\ [][IndexNext]_indexVars

-----------------------------------------------------------------------------
\* The index as a command finds it that loads it now.
Index == IF path = Nothing THEN Nothing ELSE data[path]

\* As long as no two saves overlap, the index parses (index.go:33-36), also
\* for a command that opened it before it was replaced, and whatever a killed
\* or failed save has left in the temporary file.
IndexWhole ==
  ~overlapped => /\ Index \in Version \cup {Nothing}
                 /\ \A p \in Saver : step[p] = "read" => data[file[p]] \in Version

\* As long as no two saves overlap, the index changes all at once, to what
\* the command saves whose rename it is (index.go:69-77), or in a wipe.
SaveIsAtomic ==
  [][(~overlapped' /\ Index' # Index) =>
       \/ \E p \in Saver : /\ step[p] = "rename"
                           /\ step'[p] = "idle"
                           /\ Index' = mem[p]
       \/ Index' = Nothing /\ UNCHANGED memVars]_indexVars
===============================================================================

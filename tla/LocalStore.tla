------------------------------ MODULE LocalStore ------------------------------
(***************************************************************************)
(* The files of ~/.sentra that `sentra add`, `commit`, `push` and `log`    *)
(* share: index.json (index/index.go) and one file per commit              *)
(* (commit/commit.go).                                                     *)
(*                                                                         *)
(* No command locks anything.  Each loads a copy, works on it (commit runs *)
(* formatters and linters, push talks to the server) and writes the copy   *)
(* back; it can be killed, or fail, between any two of these steps, and a  *)
(* second terminal can run another command meanwhile.  One file is         *)
(* replaced atomically (write to a temporary name, then rename).           *)
(***************************************************************************)
CONSTANTS Process,   \* commands that can run at the same time
          File,      \* env files below the scan root
          Hash,      \* contents an env file can have
          CommitId,  \* the IDs uuid.NewString can return
          None       \* no file, no entry, no commit

ASSUME LocalStoreAssumption ==
  /\ None \notin Hash \cup [files : [File -> Hash \cup {None}], pushed : BOOLEAN]
  /\ File # {}

VARIABLES disk,     \* disk[f]: what env file f holds, or None
          staged,   \* index.json: staged[f] is the hash f was added with
          commits,  \* the commit files
          used,     \* IDs given to a commit so far
          mode,     \* mode[p]: the next step of process p
          copy,     \* copy[p]: hashes p has in memory, of a scan or of the index
          view,     \* view[p]: commits p has listed
          queue,    \* queue[p]: commits p has still to deal with
          quiet     \* history: processes whose copies nobody outdated

storeVars == <<disk, staged, commits, used>>
localVars == <<mode, copy, view, queue>>
vars == <<storeVars, localVars, quiet>>

Hashes == [File -> Hash \cup {None}]
NoHashes == [f \in File |-> None]
Present(h) == {f \in File : h[f] # None}

CommitFile == [files : Hashes, pushed : BOOLEAN]
NoCommits == [c \in CommitId |-> None]
Listed(v) == {c \in CommitId : v[c] # None}
Pending(v) == {c \in Listed(v) : ~v[c].pushed}

LocalTypeOK ==
  /\ disk \in Hashes
  /\ staged \in Hashes
  /\ commits \in [CommitId -> CommitFile \cup {None}]
  /\ used \subseteq CommitId
  /\ mode \in [Process -> {"idle", "load", "stage", "save", "clear", "push",
                           "root", "prune", "remove"}]
  /\ copy \in [Process -> Hashes]
  /\ view \in [Process -> [CommitId -> CommitFile \cup {None}]]
  /\ queue \in [Process -> SUBSET CommitId]
  /\ quiet \subseteq Process
  /\ \A p \in Process : mode[p] \in {"load", "stage", "save"} => Present(copy[p]) # {}

Init == /\ disk \in [File -> Hash]
        /\ staged = NoHashes
        /\ commits = NoCommits
        /\ used = {}
        /\ mode = [p \in Process |-> "idle"]
        /\ copy = [p \in Process |-> NoHashes]
        /\ view = [p \in Process |-> NoCommits]
        /\ queue = [p \in Process |-> {}]
        /\ quiet = {}

-----------------------------------------------------------------------------
\* What process p has in memory from here on.
Memory(p, m, h, v, q) == /\ mode' = [mode EXCEPT ![p] = m]
                         /\ copy' = [copy EXCEPT ![p] = h]
                         /\ view' = [view EXCEPT ![p] = v]
                         /\ queue' = [queue EXCEPT ![p] = q]
Exit(p) == Memory(p, "idle", NoHashes, NoCommits, {})

\* p reads what it will write back, or p writes and outdates the others.
Reads(p) == quiet' = quiet \cup {p}
Writes(p) == quiet' = quiet \cap {p}

\* p is done with commit c of its list.
DoneWith(p, c) == /\ queue' = [queue EXCEPT ![p] = @ \ {c}]
                  /\ UNCHANGED <<mode, copy, view>>

-----------------------------------------------------------------------------
(* `sentra add`: scan the env files, load the index, save it with the files *)
(* added, all of them or one.                                               *)
AddScan(p) ==
  /\ mode[p] = "idle"
  /\ Present(disk) # {}
  /\ Memory(p, "load", disk, NoCommits, {})
  /\ UNCHANGED <<storeVars, quiet>>

AddLoad(p) ==
  /\ mode[p] = "load"
  /\ \E F \in {Present(copy[p])} \cup {{f} : f \in Present(copy[p])} :
       Memory(p, "stage", [f \in File |-> IF f \in F THEN copy[p][f] ELSE staged[f]],
              NoCommits, {})
  /\ Reads(p)
  /\ UNCHANGED storeVars

AddSave(p) ==
  /\ mode[p] = "stage"
  /\ staged' = copy[p]
  /\ Writes(p)
  /\ Exit(p)
  /\ UNCHANGED <<disk, commits, used>>

-----------------------------------------------------------------------------
(* `sentra commit`: load the index, run the checks, save the commit, save   *)
(* the index with nothing staged.                                           *)
CommitLoadAndClear(p) ==
  /\ mode[p] = "idle"
  /\ Present(staged) # {}
  /\ Memory(p, "save", staged, NoCommits, {})
  /\ staged' = NoHashes
  /\ Reads(p)
  /\ UNCHANGED <<disk, commits, used>>
CommitLoadEmpty(p) ==
  /\ mode[p] = "idle"
  /\ Memory(p, "save", staged, NoCommits, {})
  /\ Reads(p)
  /\ UNCHANGED storeVars
CommitLoad(p) ==
  /\ mode[p] = "idle"
  /\ Present(staged) # {}
  /\ Memory(p, "save", staged, NoCommits, {})
  /\ Reads(p)
  /\ UNCHANGED storeVars

CommitSave(p) ==
  /\ mode[p] = "save"
  /\ \E c \in CommitId \ used :
       /\ commits' = [commits EXCEPT ![c] = [files |-> copy[p], pushed |-> FALSE]]
       /\ used' = used \cup {c}
  /\ Memory(p, "clear", copy[p], NoCommits, {})
  /\ Writes(p)
  /\ UNCHANGED <<disk, staged>>

CommitClear(p) ==
  /\ mode[p] = "clear"
  /\ staged' = NoHashes
  /\ Writes(p)
  /\ Exit(p)
  /\ UNCHANGED <<disk, commits, used>>

-----------------------------------------------------------------------------
(* `sentra push`, as the commit files see it: list the pending commits,     *)
(* push one after the other, and write each back from the list.             *)
PushList(p) ==
  /\ mode[p] = "idle"
  /\ Pending(commits) # {}
  /\ Memory(p, "push", NoHashes, commits, Pending(commits))
  /\ Reads(p)
  /\ UNCHANGED storeVars

Missing(h) == {f \in Present(h) : disk[f] = None}

\* The next commit can be built and the server took it.  The order of the
\* IDs, random as they are, is any order.
PushMark(p) ==
  /\ mode[p] = "push"
  /\ \E c \in queue[p] :
       /\ Missing(view[p][c].files) = {}
       /\ commits' = [commits EXCEPT ![c] = [view[p][c] EXCEPT !.pushed = TRUE]]
       /\ DoneWith(p, c)
  /\ Writes(p)
  /\ UNCHANGED <<disk, staged, used>>

\* A commit that cannot be built, or that the server refuses, ends the push.
PushFails(p) ==
  /\ mode[p] = "push"
  /\ Exit(p)
  /\ UNCHANGED <<storeVars, quiet>>

-----------------------------------------------------------------------------
(* The first command that needs the scan root (add, status, sync, and push  *)
(* once it has its list) loads the index, asks the user for the directory   *)
(* and saves what it loaded with the answer in it.                          *)
AskRoot(p) ==
  /\ \/ /\ mode[p] = "idle"
        /\ Memory(p, "root", staged, NoCommits, {})
        /\ Reads(p)
     \/ /\ mode[p] = "push" /\ queue[p] = Pending(view[p])
        /\ Memory(p, "root", staged, view[p], queue[p])
        /\ UNCHANGED quiet
  /\ UNCHANGED storeVars

SaveRoot(p) ==
  /\ mode[p] = "root"
  /\ staged' = copy[p]
  /\ Writes(p)
  /\ Memory(p, IF queue[p] = {} THEN "idle" ELSE "push", NoHashes, view[p], queue[p])
  /\ UNCHANGED <<disk, commits, used>>

-----------------------------------------------------------------------------
(* `sentra log prune <id|all>`: drop the files that are gone from disk from *)
(* the pending commits, or from one commit, and drop a commit left empty.   *)
PruneList(p) ==
  /\ mode[p] = "idle"
  /\ \E Q \in {Pending(commits)} \cup {{c} : c \in Listed(commits)} :
       /\ Q # {}
       /\ Memory(p, "prune", NoHashes,
                 [c \in CommitId |-> IF c \in Q THEN commits[c] ELSE None], Q)
  /\ Reads(p)
  /\ UNCHANGED storeVars

Without(h, F) == [f \in File |-> IF f \in F THEN None ELSE h[f]]

PruneKeepPartial(p) ==
  /\ mode[p] = "prune"
  /\ \E c \in queue[p] :
       /\ Missing(view[p][c].files) # Present(view[p][c].files)
       /\ DoneWith(p, c)
  /\ UNCHANGED <<storeVars, quiet>>
PruneKeep(p) ==
  /\ mode[p] = "prune"
  /\ \E c \in queue[p] : /\ Missing(view[p][c].files) = {}
                         /\ DoneWith(p, c)
  /\ UNCHANGED <<storeVars, quiet>>

PruneUpdateAny(p) ==
  /\ mode[p] = "prune"
  /\ \E c \in queue[p] :
       LET left == Without(view[p][c].files, Missing(view[p][c].files))
       IN /\ Missing(view[p][c].files) # {}
          /\ commits' = [commits EXCEPT ![c] = [view[p][c] EXCEPT !.files = left]]
          /\ DoneWith(p, c)
  /\ Writes(p)
  /\ UNCHANGED <<disk, staged, used>>
PruneUpdateUnmarked(p) ==
  /\ mode[p] = "prune"
  /\ \E c \in queue[p] :
       LET left == Without(view[p][c].files, Missing(view[p][c].files))
       IN /\ Missing(view[p][c].files) # {}
          /\ Present(left) # {}
          /\ commits' = [commits EXCEPT ![c] = [files |-> left, pushed |-> FALSE]]
          /\ DoneWith(p, c)
  /\ Writes(p)
  /\ UNCHANGED <<disk, staged, used>>
PruneUpdate(p) ==
  /\ mode[p] = "prune"
  /\ \E c \in queue[p] :
       LET left == Without(view[p][c].files, Missing(view[p][c].files))
       IN /\ Missing(view[p][c].files) # {}
          /\ Present(left) # {}
          /\ commits' = [commits EXCEPT ![c] = [view[p][c] EXCEPT !.files = left]]
          /\ DoneWith(p, c)
  /\ Writes(p)
  /\ UNCHANGED <<disk, staged, used>>

\* Deleting a commit that somebody else deleted first ends the command.
PruneDelete(p) ==
  /\ mode[p] = "prune"
  /\ \E c \in queue[p] :
       /\ Missing(view[p][c].files) = Present(view[p][c].files)
       /\ IF commits[c] = None THEN Exit(p) ELSE DoneWith(p, c)
       /\ commits' = [commits EXCEPT ![c] = None]
  /\ Writes(p)
  /\ UNCHANGED <<disk, staged, used>>

-----------------------------------------------------------------------------
(* `sentra log rm <id>` removes one commit file, `sentra log clear` all     *)
(* that were there when it began, one by one.                               *)
RemoveList(p) ==
  /\ mode[p] = "idle"
  /\ \E Q \in {Listed(commits)} \cup {{c} : c \in Listed(commits)} :
       /\ Q # {}
       /\ Memory(p, "remove", NoHashes, NoCommits, Q)
  /\ UNCHANGED <<storeVars, quiet>>

RemoveNext(p) ==
  /\ mode[p] = "remove"
  /\ \E c \in queue[p] : /\ commits' = [commits EXCEPT ![c] = None]
                         /\ DoneWith(p, c)
  /\ Writes(p)
  /\ UNCHANGED <<disk, staged, used>>

-----------------------------------------------------------------------------
\* The command is killed, fails before its next step, or has no next step.
Stop(p) ==
  /\ mode[p] # "idle"
  /\ Exit(p)
  /\ UNCHANGED <<storeVars, quiet>>

\* The user changes, deletes or restores an env file; a prune under way has
\* looked at the files already.
Edit(f, h) ==
  /\ disk[f] # h
  /\ disk' = [disk EXCEPT ![f] = h]
  /\ quiet' = {p \in quiet : mode[p] # "prune"}
  /\ UNCHANGED <<staged, commits, used, localVars>>

Command(p) == \/ AddScan(p) \/ AddLoad(p) \/ AddSave(p)
              \/ CommitLoad(p) \/ CommitSave(p) \/ CommitClear(p)
              \/ AskRoot(p) \/ SaveRoot(p)
              \/ PushList(p) \/ PushMark(p) \/ PushFails(p)
              \/ PruneList(p) \/ PruneKeep(p) \/ PruneUpdate(p) \/ PruneDelete(p)
              \/ RemoveList(p) \/ RemoveNext(p)

Next == \/ \E p \in Process : Command(p) \/ Stop(p)
        \/ \E f \in File, h \in Hash \cup {None} : Edit(f, h)

Spec == Init /\ [][Next]_vars

-----------------------------------------------------------------------------
\* No commit is empty, whatever commands race and stop: push cannot send an
\* empty commit (push_build.go:99-101), and every commit behind it would wait.
NoEmptyCommit ==
  \A c \in Listed(commits) : Present(commits[c].files) # {}

\* A staged file leaves the index only for a commit that has it (commit.go
\* :48-57, add.go:70, 97, scan_root.go:41), wherever the command stops, as long as nobody
\* outdated the copy the command writes back.
UnstagedIsCommitted ==
  [][\A p \in quiet', f \in File :
       (mode'[p] # mode[p] /\ staged[f] # None /\ staged'[f] = None)
         => \E c \in Listed(commits) : commits[c].files[f] = staged[f]]_vars

\* A commit keeps its PushedAt until it is removed (push.go:266-271, log.go
\* :283), and never takes back a file that prune dropped, as long as nobody
\* outdated the list of the command that writes it.
CommitOnlyAdvances ==
  [][\A p \in quiet, c \in Listed(commits) \cap Listed(commits') :
       queue'[p] # queue[p] =>
         /\ commits[c].pushed => commits'[c].pushed
         /\ Present(commits'[c].files) \subseteq Present(commits[c].files)]_vars

\* "fix: sentra log prune" (log.go:207): push can build every commit that
\* prune is done with, unless somebody changed files or commits meanwhile.
PruneRepairs ==
  \A p \in quiet : mode[p] = "prune" =>
    \A c \in Listed(view[p]) \ queue[p] :
      commits[c] # None => Missing(commits[c].files) = {}
===============================================================================

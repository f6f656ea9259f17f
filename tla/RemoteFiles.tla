----------------------------- MODULE RemoteFiles -----------------------------
(***************************************************************************)
(* What `sentra push` stores and `sentra sync` and `sentra export` read    *)
(* back, on several devices of one user and for one project.               *)
(*                                                                         *)
(* push reads the env files of a commit one by one, encrypts each with the *)
(* vault key and, with storage of the user's own (BYOS), uploads it under  *)
(* a name made of path and content (push_build.go), then sends the commit. *)
(* sync (sync.go) lists the files of the last commit, export (export.go)   *)
(* those of any commit; each then downloads, decrypts and writes them one  *)
(* by one and stops at the first that fails.                               *)
(***************************************************************************)
EXTENDS VaultKey, Naturals, Sequences, SequencesExt

CONSTANTS Author,    \* devices the env files are edited on
          File,      \* env files of the project, numbered in the order of their paths
          Content,   \* contents an env file can have
          Torn,      \* what a killed os.WriteFile leaves behind
          Bucket,    \* S3 buckets of the user
          Row,       \* the place of a blob the server stores itself
          MaxCommits \* bound: commits stored

\* "upload", "post", "fetch": a call of the storage or of the server fails;
\* "torn": a kill hits a file being written.  The others are VaultKey's.
ASSUME RemoteAssumption ==
  /\ File \subseteq Nat /\ File # {}
  /\ Author \subseteq Device
  /\ None \notin Content \cup {Torn, Row} \cup Bucket
  /\ Row \notin Bucket

VARIABLES disk,     \* disk[d][f]: env file f on device d, None if there is none
          place,    \* place[d]: where d pushes to, its bucket or Row
          objects,  \* objects[<<b, f, v>>]: key of the object for content v of file f
          commits,  \* the commits stored, in order
          latePush, \* commits nobody waits for that the server may store
          cmd,      \* cmd[d]: the command device d runs
          todo,     \* todo[d]: files it has still to deal with
          batch,    \* batch[d]: the commit it builds, or the one it reads
          wrote     \* wrote[d]: what it has written, into the project or a folder apart

deviceVars == <<disk, place>>
storeVars == <<objects, commits, latePush>>
cmdVars == <<cmd, todo, batch, wrote>>
vars == <<vaultVars, deviceVars, storeVars, cmdVars>>

Folder == [File -> Content \cup {Torn, None}]
Empty == [f \in File |-> None]
Object == Bucket \X File \X (Content \cup {Torn})

\* A commit: what its files hold, where their blobs are, and under which key.
CommitOf(Folders, Keys) == [files : Folders, place : Bucket \cup {Row}, key : Keys]
StoredCommit == CommitOf([File -> Content \cup {Torn}], Key)

RemoteTypeOK ==
  /\ VaultTypeOK
  /\ disk \in [Device -> Folder]
  /\ place \in [Device -> Bucket \cup {Row}]
  /\ objects \in [Object -> Key \cup {None}]
  /\ \A i \in DOMAIN commits : commits[i] \in StoredCommit
  /\ \A c \in latePush : c \in StoredCommit
  /\ cmd \in [Device -> {"idle", "push", "sync", "export"}]
  /\ todo \in [Device -> SUBSET File]
  /\ batch \in [Device -> CommitOf(Folder, Key \cup {None}) \cup {None}]
  /\ wrote \in [Device -> Folder]
  /\ \A d \in Device : cmd[d] \in {"sync", "export"} => batch[d] \in StoredCommit

Init == /\ VaultInit
        /\ disk = [d \in Device |-> Empty]
        /\ place \in [Device -> Bucket \cup {Row}]
        /\ objects = [o \in Object |-> None]
        /\ commits = <<>>
        /\ latePush = {}
        /\ cmd = [d \in Device |-> "idle"]
        /\ todo = [d \in Device |-> {}]
        /\ batch = [d \in Device |-> None]
        /\ wrote = [d \in Device |-> Empty]

-----------------------------------------------------------------------------
\* Device d turns to command c, with batch b to go through.
Turn(d, c, F, b) == /\ cmd' = [cmd EXCEPT ![d] = c]
                    /\ todo' = [todo EXCEPT ![d] = F]
                    /\ batch' = [batch EXCEPT ![d] = b]
                    /\ wrote' = [wrote EXCEPT ![d] = Empty]

\* The command returns; with it goes what it had in memory.
EndOfCommand(d) == Turn(d, "idle", {}, None) /\ ForgetKey(d)
Done(d) == EndOfCommand(d) /\ UNCHANGED <<keychain, envelope, latePut, made, contested>>

\* The file a command deals with next, in the order of the paths.
NextFile(d) == Min(todo[d])
Handled(d) == todo' = [todo EXCEPT ![d] = @ \ {NextFile(d)}]

\* Where the blob of file f of a commit is: in the commit's row, or in the
\* bucket named there, for which device d must have the credentials.
BlobKey(d, c, f) == CASE c.place = Row -> c.key
                      [] c.place = place[d] -> objects[<<c.place, f, c.files[f]>>]
                      [] OTHER -> None

\* sync or export reads on: its next file, and the key of the blob it gets.
Reading(d) == cmd[d] \in {"sync", "export"} /\ todo[d] # {}
NextBlob(d) == BlobKey(d, batch[d], NextFile(d))

\* push and export begin with ensureVaultKey, sync calls it when it has
\* downloaded its first file.
NeedsKey(d) == \/ cmd[d] \in {"push", "export"}
               \/ cmd[d] = "sync" /\ Reading(d) /\ NextBlob(d) # None

AskKey(d) == /\ NeedsKey(d)
             /\ Look(d) \/ EnsureVaultKey(d)
             /\ UNCHANGED <<deviceVars, storeVars, cmdVars>>

KeyFails(d) == /\ VaultFails(d)
               /\ Turn(d, "idle", {}, None)
               /\ UNCHANGED <<deviceVars, storeVars>>

LateKey(k) == LatePut(k) /\ UNCHANGED <<deviceVars, storeVars, cmdVars>>

-----------------------------------------------------------------------------
(* `sentra push` of a commit with every file of the project.                *)
StartPush(d) ==
  /\ cmd[d] = "idle"
  /\ Len(commits) + Cardinality(latePush) < MaxCommits
  /\ Turn(d, "push", File, [files |-> Empty, place |-> place[d], key |-> None])
  /\ UNCHANGED <<vaultVars, deviceVars, storeVars>>

Uploading(d) == cmd[d] = "push" /\ step[d] = "ready" /\ todo[d] # {}

\* One file is read and encrypted; a missing one is only noted.
PutObject(d, o) == objects' = [objects EXCEPT ![o] = vk[d]]
Build(d) ==
  /\ Uploading(d)
  /\ LET f == NextFile(d)
         v == disk[d][f]
     IN /\ batch' = [batch EXCEPT ![d].files[f] = v, ![d].key = vk[d]]
        /\ IF v # None /\ batch[d].place # Row
           THEN PutObject(d, <<batch[d].place, f, v>>) ELSE UNCHANGED objects
  /\ Handled(d)
  /\ UNCHANGED <<vaultVars, deviceVars, commits, latePush, cmd, wrote>>

Built(d) == cmd[d] = "push" /\ step[d] = "ready" /\ todo[d] = {}
SomeFiles(d) == \E f \in File : batch[d].files[f] # None
Complete(d) == \A f \in File : batch[d].files[f] # None

\* A file is missing: the push ends before its request.
MissingFiles(d) ==
  /\ Built(d)
  /\ ~Complete(d)
  /\ Done(d)
  /\ UNCHANGED <<deviceVars, storeVars>>

Post(d) ==
  /\ Built(d)
  /\ Complete(d)
  /\ commits' = Append(commits, batch[d])
  /\ Done(d)
  /\ UNCHANGED <<deviceVars, objects, latePush>>

\* The upload fails, with or without effect.
UploadLost(d) ==
  /\ Uploading(d)
  /\ batch' = [batch EXCEPT ![d].files[NextFile(d)] = disk[d][NextFile(d)], ![d].key = vk[d]]
  /\ Handled(d)
  /\ UNCHANGED <<vaultVars, deviceVars, storeVars, cmd, wrote>>
UploadFails(d) ==
  /\ "upload" \in Faults
  /\ Uploading(d)
  /\ batch[d].place # Row
  /\ LET f == NextFile(d)
     IN /\ disk[d][f] # None
        /\ UNCHANGED objects \/ PutObject(d, <<batch[d].place, f, disk[d][f]>>)
  /\ Done(d)
  /\ UNCHANGED <<deviceVars, commits, latePush>>

\* The request fails, or nobody waits for it any more.
PostFails(d) ==
  /\ "post" \in Faults
  /\ Built(d)
  /\ Complete(d)
  /\ latePush' \in {latePush, latePush \cup {batch[d]}}
  /\ Done(d)
  /\ UNCHANGED <<deviceVars, objects, commits>>

StoreLate(c) ==
  /\ c \in latePush
  /\ commits' = Append(commits, c)
  /\ latePush' = latePush \ {c}
  /\ UNCHANGED <<vaultVars, deviceVars, objects, cmdVars>>

-----------------------------------------------------------------------------
(* `sentra sync` and `sentra export`.                                       *)
\* GET /export without a commit: the files of the last one.
Latest == Last(commits)

StartSync(d) ==
  /\ cmd[d] = "idle"
  /\ commits # <<>>
  /\ Turn(d, "sync", File, Latest)
  /\ UNCHANGED <<vaultVars, deviceVars, storeVars>>

StartExport(d) ==
  /\ cmd[d] = "idle"
  /\ \E i \in DOMAIN commits : Turn(d, "export", File, commits[i])
  /\ UNCHANGED <<vaultVars, deviceVars, storeVars>>

\* Storage is not set up, or there is no such object, or the download fails.
CanDownload(d) == cmd[d] = "sync" \/ step[d] = "ready"
NoBlob(d) == Reading(d) /\ CanDownload(d) /\ NextBlob(d) = None /\ Done(d)
             /\ UNCHANGED <<deviceVars, storeVars>>
DownloadFails(d) ==
  /\ "fetch" \in Faults
  /\ Reading(d)
  /\ CanDownload(d)
  /\ Done(d)
  /\ UNCHANGED <<deviceVars, storeVars>>

Decrypts(d) == Reading(d) /\ step[d] = "ready" /\ NextBlob(d) = vk[d]

\* os.WriteFile: sync writes into the project, export (and sync --out) into
\* a folder apart.
WriteMissing(d, f, v) == disk' = IF cmd[d] = "sync" /\ disk[d][f] = None
                                 THEN [disk EXCEPT ![d][f] = v] ELSE disk
WriteTo(d, f, v) == disk' = IF cmd[d] = "sync" THEN [disk EXCEPT ![d][f] = v] ELSE disk

\* The next file is downloaded, decrypted and written.
WriteFile(d) ==
  /\ Decrypts(d)
  /\ LET f == NextFile(d)
         v == batch[d].files[f]
     IN WriteTo(d, f, v) /\ wrote' = [wrote EXCEPT ![d][f] = v]
  /\ Handled(d)
  /\ UNCHANGED <<vaultVars, place, storeVars, cmd, batch>>

\* It was encrypted with another key: the command stops where it is.
Undecryptable(d) == /\ Reading(d)
                    /\ step[d] = "ready"
                    /\ NextBlob(d) \notin {None, vk[d]}
SkipUndecryptable(d) ==
  /\ Undecryptable(d)
  /\ Handled(d)
  /\ UNCHANGED <<vaultVars, deviceVars, storeVars, cmd, batch, wrote>>
DecryptFails(d) ==
  /\ Undecryptable(d)
  /\ Done(d)
  /\ UNCHANGED <<deviceVars, storeVars>>

FinishRead(d) ==
  /\ cmd[d] \in {"sync", "export"}
  /\ todo[d] = {}
  /\ Done(d)
  /\ UNCHANGED <<deviceVars, storeVars>>

-----------------------------------------------------------------------------
\* The user edits, deletes or makes an env file.  Bound: between commands.
Edit(d, f, v) ==
  /\ d \in Author
  /\ cmd[d] = "idle"
  /\ disk' = [disk EXCEPT ![d][f] = v]
  /\ UNCHANGED <<vaultVars, place, storeVars, cmdVars>>

\* `sentra storage setup` or `reset`, and the mode chosen at login.  Bound:
\* only where the user does not edit.
Configure(d, b) ==
  /\ d \notin Author
  /\ cmd[d] = "idle"
  /\ place[d] # b
  /\ place' = [place EXCEPT ![d] = b]
  /\ UNCHANGED <<vaultVars, disk, storeVars, cmdVars>>

\* The command is killed; the file it is writing may be left truncated.
Kill(d) ==
  /\ "kill" \in Faults
  /\ cmd[d] # "idle"
  /\ EndOfCommand(d)
  /\ LeavesUpload(d)
  /\ \/ UNCHANGED disk
     \/ /\ "torn" \in Faults
        /\ Decrypts(d)
        /\ WriteTo(d, NextFile(d), Torn)
  /\ \/ UNCHANGED latePush
     \/ Built(d) /\ Complete(d) /\ latePush' = latePush \cup {batch[d]}
  /\ UNCHANGED <<place, objects, commits>>

-----------------------------------------------------------------------------
Push(d) == Build(d) \/ MissingFiles(d) \/ Post(d)
Read(d) == NoBlob(d) \/ WriteFile(d) \/ DecryptFails(d) \/ FinishRead(d)
Work(d) == AskKey(d) \/ Push(d) \/ Read(d)

Fail == \E d \in Device : KeyFails(d) \/ UploadFails(d) \/ PostFails(d) \/ DownloadFails(d) \/ Kill(d)

Next == \/ \E d \in Device : Work(d) \/ StartPush(d) \/ StartSync(d) \/ StartExport(d)
        \/ \E d \in Device, f \in File, v \in Content \cup {None} : Edit(d, f, v)
        \/ \E d \in Device, b \in Bucket \cup {Row} : Configure(d, b)
        \/ \E k \in Key : LateKey(k)
        \/ \E c \in latePush : StoreLate(c)
        \/ Fail

Spec == Init /\ [][Next]_vars

(* Fairness: a command that runs goes on, and the user syncs again.         *)
FairSpec == Spec /\ \A d \in Device : WF_vars(Work(d)) /\ WF_vars(StartSync(d))

-----------------------------------------------------------------------------
\* What is stored is encrypted with the key of the envelope, so that another
\* device can read it (vault_key.go:148-149), unless two creations of a key
\* overlapped.
Portable ==
  ~contested => /\ \A i \in DOMAIN commits : commits[i].key = envelope
                /\ \A o \in Object : objects[o] \in {None, envelope}

\* Every file of a commit stored with BYOS is in its bucket, wherever a push
\* failed (push_build.go:150-153, 188).
CommitHasObjects ==
  \A i \in DOMAIN commits : commits[i].place # Row =>
    \A f \in File : objects[<<commits[i].place, f, commits[i].files[f]>>] # None

\* A sync or export that stops, for a file it cannot download or decrypt, has
\* written every file before that one (sync.go:118-154, export.go:134-208).
WritesPrefix ==
  \A d \in Device : cmd[d] \in {"sync", "export"} =>
    \A f \in File \ todo[d] :
      /\ wrote[d][f] = batch[d].files[f]
      /\ cmd[d] = "sync" => disk[d][f] = batch[d].files[f]

\* Sync repairs what failed and torn syncs left behind: once nothing else
\* happens, a device that syncs again has the files of the last commit, if it
\* has access to their place (sync.go:22-165).
Synced(d) == disk[d] = Latest.files
CanSync(d) == /\ commits # <<>>
              /\ ~contested
              /\ Latest.place \in {Row, place[d]}
EventuallySynced ==
  <>[][\E d \in Device : Work(d) \/ StartSync(d)]_vars
    => \A d \in Device : []<>(CanSync(d) => Synced(d))
=============================================================================

-------------------------- MODULE RemoteFilesProofs --------------------------
(***************************************************************************)
(* Proofs about VaultKey and RemoteFiles for any devices, keys, files,     *)
(* contents and buckets, any number of commits and any faults.             *)
(*                                                                         *)
(* KeysAgree is not inductive: an upload may be on its way.  OneCreation   *)
(* says that, unless two creations overlapped, there is at most one such   *)
(* upload, and only while the server has no envelope; so an envelope is    *)
(* never replaced.  Portable rests on it: whatever a push has encrypted or *)
(* stored, it did so after an envelope existed.                            *)
(***************************************************************************)
EXTENDS RemoteFiles, TLAPS, SequenceTheorems

(***************************************************************************)
(* The vault key.                                                          *)
(***************************************************************************)
\* What a command has in memory follows from where it is.
Holds ==
  \A d \in Device : /\ step[d] \in {"none", "fetch", "create"} => vk[d] = None
                    /\ step[d] \in {"put", "unlock", "ready"} => vk[d] \in Key

OneCreation ==
  ~contested =>
    /\ \A d, e \in Device : Creating(d) /\ Creating(e) => d = e
    /\ \A d \in Device : Creating(d) => latePut = {} /\ envelope = None
    /\ \A k, l \in latePut : k = l
    /\ latePut # {} => envelope = None

Agreed ==
  ~contested => \A d \in Device : /\ keychain[d] \in {None, envelope}
                                  /\ step[d] \in {"unlock", "ready"} => vk[d] = envelope

VaultInv == VaultTypeOK /\ Holds /\ OneCreation /\ Agreed

\* Nothing is held, stored or on its way at the start.
LEMMA InitVault == VaultInit => VaultInv
BY VaultAssumption
   DEF VaultInit, VaultInv, VaultTypeOK, Holds, OneCreation, Agreed, Creating

\* An envelope is never replaced, unless two creations overlapped.
EnvelopeStays == ~contested' => ~contested /\ envelope \in {None, envelope'}

\* Reading the keychain or the envelope changes nothing shared.
LEMMA ReadStep ==
  ASSUME VaultInv, NEW d \in Device, Look(d) \/ FetchSome(d)
  PROVE  VaultInv' /\ EnvelopeStays
<1> USE VaultAssumption DEF VaultInv, VaultTypeOK, Holds, OneCreation, Agreed, Creating,
        Hold, EnvelopeStays
<1>1. CASE Look(d) BY <1>1 DEF Look
<1>2. CASE FetchSome(d) BY <1>2 DEF FetchSome
<1> QED BY <1>1, <1>2

\* A creation begins alone, or is contested.
LEMMA FetchNoneStep ==
  ASSUME VaultInv, NEW d \in Device, FetchNone(d)
  PROVE  VaultInv' /\ EnvelopeStays
BY VaultAssumption
   DEF VaultInv, VaultTypeOK, Holds, OneCreation, Agreed, Creating, Hold, EnvelopeStays, FetchNone

\* Making a key.
LEMMA CreateStep ==
  ASSUME VaultInv, NEW d \in Device, Create(d)
  PROVE  VaultInv' /\ EnvelopeStays
<1>1. Fresh \in Key BY DEF Create, Fresh, VaultInv, VaultTypeOK
<1> QED BY <1>1, VaultAssumption
        DEF VaultInv, VaultTypeOK, Holds, OneCreation, Agreed, Creating, Hold, EnvelopeStays, Create

\* An upload of the only creation finds no envelope, and one of two may do
\* what it likes.
LEMMA PutStep ==
  ASSUME VaultInv, NEW d \in Device, Put(d)
  PROVE  VaultInv' /\ EnvelopeStays
BY VaultAssumption
   DEF VaultInv, VaultTypeOK, Holds, OneCreation, Agreed, Creating, Hold, EnvelopeStays,
       Put, SaveToKeychain

LEMMA UnlockStep ==
  ASSUME VaultInv, NEW d \in Device, Unlock(d)
  PROVE  VaultInv' /\ EnvelopeStays
BY VaultAssumption
   DEF VaultInv, VaultTypeOK, Holds, OneCreation, Agreed, Creating, Hold, EnvelopeStays,
       Unlock, SaveToKeychain

LEMMA LatePutStep ==
  ASSUME VaultInv, NEW k \in Key, LatePut(k)
  PROVE  VaultInv' /\ EnvelopeStays
BY VaultAssumption
   DEF VaultInv, VaultTypeOK, Holds, OneCreation, Agreed, Creating, EnvelopeStays, LatePut

\* A command that ends, fails or is killed, wherever it is.
LEMMA LeaveStep ==
  ASSUME VaultInv, NEW d \in Device, ForgetKey(d), LeavesUpload(d)
  PROVE  VaultInv' /\ EnvelopeStays
<1> USE VaultAssumption DEF VaultInv, VaultTypeOK, Holds, OneCreation, Agreed, Creating,
        Hold, EnvelopeStays, ForgetKey, LeavesUpload
<1>1. CASE UNCHANGED latePut BY <1>1
<1>2. CASE step[d] = "put" /\ latePut' = latePut \cup {vk[d]} BY <1>2
<1> QED BY <1>1, <1>2

\* Every step of VaultKey.
LEMMA VaultStep ==
  ASSUME VaultInv, VaultNext
  PROVE  VaultInv' /\ EnvelopeStays
<1>1. ASSUME NEW d \in Device, Look(d) \/ EnsureVaultKey(d) PROVE VaultInv' /\ EnvelopeStays
  BY <1>1, ReadStep, FetchNoneStep, CreateStep, PutStep, UnlockStep DEF EnsureVaultKey
<1>2. ASSUME NEW d \in Device, VaultFails(d) PROVE VaultInv' /\ EnvelopeStays
  BY <1>2, LeaveStep DEF VaultFails
<1>3. ASSUME NEW d \in Device, Leave(d) PROVE VaultInv' /\ EnvelopeStays
  BY <1>3, LeaveStep DEF Leave, LeavesUpload
<1>4. ASSUME NEW k \in Key, LatePut(k) PROVE VaultInv' /\ EnvelopeStays
  BY <1>4, LatePutStep
<1> QED BY <1>1, <1>2, <1>3, <1>4 DEF VaultNext

LEMMA VaultStutter ==
  ASSUME VaultInv, UNCHANGED vaultVars
  PROVE  VaultInv' /\ EnvelopeStays
BY DEF VaultInv, VaultTypeOK, Holds, OneCreation, Agreed, Creating, EnvelopeStays, vaultVars

\* All devices agree on the key of the envelope unless two creations of a key
\* overlapped, for any number of devices and failures of the steps of
\* ensureVaultKey (vault_key.go:150-198).
THEOREM KeysAgreeAlways == VaultSpec => []KeysAgree
<1>1. VaultInv /\ [VaultNext]_vaultVars => VaultInv'
  BY VaultStep, VaultStutter
<1>2. VaultInv => KeysAgree
  BY DEF VaultInv, Agreed, KeysAgree
<1> QED BY InitVault, <1>1, <1>2, PTL DEF VaultSpec

(***************************************************************************)
(* push, sync and export.                                                  *)
(***************************************************************************)
RemoteTypes == /\ RemoteTypeOK
               /\ commits \in Seq(StoredCommit)
               /\ \A d \in Device : cmd[d] # "idle" => batch[d] \in CommitOf(Folder, Key \cup {None})

\* A push that has dealt with a file has the key and the object of it.
Prepared ==
  \A d \in Device, f \in File : cmd[d] = "push" /\ batch[d].files[f] # None =>
    /\ batch[d].key \in Key
    /\ ~contested => batch[d].key = envelope
    /\ batch[d].place # Row => objects[<<batch[d].place, f, batch[d].files[f]>>] # None

\* So have the commits stored, and those that may be.
Sound(c) == /\ ~contested => c.key = envelope
            /\ c.place # Row => \A f \in File : objects[<<c.place, f, c.files[f]>>] # None
AllSound == /\ \A i \in DOMAIN commits : Sound(commits[i])
            /\ \A c \in latePush : Sound(c)

OneKey == ~contested => \A o \in Object : objects[o] \in {None, envelope}

RemoteInv == VaultInv /\ RemoteTypes /\ Prepared /\ AllSound /\ OneKey /\ WritesPrefix

LEMMA InitRemote == Init => RemoteInv
<1> SUFFICES ASSUME Init PROVE RemoteInv
  OBVIOUS
<1>1. VaultInv BY InitVault DEF Init
<1>2. RemoteTypes
  BY <1>1, RemoteAssumption DEF Init, RemoteTypes, RemoteTypeOK, VaultInv, Folder, Empty, Object
<1> QED BY <1>1, <1>2 DEF Init, RemoteInv, Prepared, AllSound, OneKey, WritesPrefix

\* The steps of a command, of the user and of the network that concern the
\* vault key are steps of VaultKey.
LEMMA DoneIsLeave ==
  ASSUME VaultInv, NEW d \in Device, ForgetKey(d), LeavesUpload(d)
  PROVE  [VaultNext]_vaultVars
<1>1. CASE step[d] = "none"
  <2>1. step' = step /\ vk' = vk
    BY <1>1 DEF VaultInv, VaultTypeOK, Holds, ForgetKey, Hold
  <2> QED BY <1>1, <2>1 DEF LeavesUpload, vaultVars
<1>2. CASE step[d] # "none"
  BY <1>2 DEF Leave, VaultNext
<1> QED BY <1>1, <1>2

LEMMA DoneForgets ==
  ASSUME NEW d \in Device, Done(d)
  PROVE  ForgetKey(d) /\ LeavesUpload(d) /\ Turn(d, "idle", {}, None)
BY DEF Done, EndOfCommand, LeavesUpload

\* What a step does to VaultKey, and that it keeps its invariant.
LEMMA VaultPart ==
  ASSUME VaultInv, Next
  PROVE  [VaultNext]_vaultVars /\ VaultInv' /\ EnvelopeStays
<1>1. [VaultNext]_vaultVars
  <2>1. ASSUME NEW d \in Device, Work(d) PROVE [VaultNext]_vaultVars
    <3>1. CASE AskKey(d) BY <3>1 DEF AskKey, VaultNext
    <3>2. CASE Build(d) \/ WriteFile(d) BY <3>2 DEF Build, WriteFile, vaultVars
    <3>3. CASE MissingFiles(d) \/ Post(d) \/ NoBlob(d) \/ DecryptFails(d) \/ FinishRead(d)
      BY <3>3, DoneForgets, DoneIsLeave DEF MissingFiles, Post, NoBlob, DecryptFails, FinishRead
    <3> QED BY <2>1, <3>1, <3>2, <3>3 DEF Work, Push, Read
  <2>2. ASSUME NEW d \in Device, StartPush(d) \/ StartSync(d) \/ StartExport(d)
        PROVE [VaultNext]_vaultVars
    BY <2>2 DEF StartPush, StartSync, StartExport, vaultVars
  <2>3. ASSUME NEW d \in Device,
               KeyFails(d) \/ UploadFails(d) \/ PostFails(d) \/ DownloadFails(d) \/ Kill(d)
        PROVE [VaultNext]_vaultVars
    <3>1. CASE KeyFails(d) BY <3>1 DEF KeyFails, VaultNext
    <3>2. CASE UploadFails(d) \/ PostFails(d) \/ DownloadFails(d)
      BY <3>2, DoneForgets, DoneIsLeave DEF UploadFails, PostFails, DownloadFails
    <3>3. CASE Kill(d) BY <3>3, DoneIsLeave DEF Kill, EndOfCommand
    <3> QED BY <2>3, <3>1, <3>2, <3>3
  <2>4. ASSUME NEW k \in Key, LateKey(k) PROVE [VaultNext]_vaultVars
    BY <2>4 DEF LateKey, VaultNext
  <2>5. ASSUME NEW d \in Device, NEW f \in File, NEW v \in Content \cup {None}, Edit(d, f, v)
        PROVE [VaultNext]_vaultVars
    BY <2>5 DEF Edit
  <2>6. ASSUME NEW d \in Device, NEW b \in Bucket \cup {Row}, Configure(d, b)
        PROVE [VaultNext]_vaultVars
    BY <2>6 DEF Configure
  <2>7. ASSUME NEW c \in latePush, StoreLate(c) PROVE [VaultNext]_vaultVars
    BY <2>7 DEF StoreLate
  <2> QED BY <2>1, <2>2, <2>3, <2>4, <2>5, <2>6, <2>7 DEF Next, Fail
<1> QED BY <1>1, VaultStep, VaultStutter

\* What a step may do to what is stored: objects are made or replaced, with the
\* one key, and a commit is added that is complete.
StoreGrows ==
  /\ objects' \in [Object -> Key \cup {None}]
  /\ \A o \in Object : /\ objects[o] # None => objects'[o] # None
                       /\ ~contested' => objects'[o] \in {objects[o], envelope'}
  /\ commits' \in Seq(StoredCommit)
  /\ latePush' \subseteq StoredCommit
  /\ \A i \in DOMAIN commits' : \/ \E j \in DOMAIN commits : commits'[i] = commits[j]
                                \/ commits'[i] \in latePush
                                \/ Sound(commits[i])'
  /\ \A c \in latePush' : c \in latePush \/ Sound(c)'

LEMMA SameStore ==
  ASSUME RemoteInv, UNCHANGED storeVars
  PROVE  StoreGrows
BY DEF RemoteInv, RemoteTypes, RemoteTypeOK, StoreGrows, storeVars

LEMMA StoreTypes ==
  ASSUME StoreGrows
  PROVE  /\ objects' \in [Object -> Key \cup {None}]
         /\ commits' \in Seq(StoredCommit)
         /\ \A i \in DOMAIN commits' : commits'[i] \in StoredCommit
         /\ \A c \in latePush' : c \in StoredCommit
<1>1. commits' \in Seq(StoredCommit) BY DEF StoreGrows
<1>2. \A i \in DOMAIN commits' : commits'[i] \in StoredCommit
  BY <1>1, ElementOfSeq
<1> QED BY <1>1, <1>2 DEF StoreGrows

\* The commits of a step before are still sound, and so are the objects.
LEMMA StaysSound ==
  ASSUME RemoteInv, EnvelopeStays, StoreGrows, NEW c \in StoredCommit, Sound(c)
  PROVE  Sound(c)'
<1>1. ASSUME NEW f \in File, c.place # Row PROVE <<c.place, f, c.files[f]>> \in Object
  BY <1>1 DEF StoredCommit, CommitOf, Object
<1>2. c.key \in Key BY DEF StoredCommit, CommitOf
<1> QED BY <1>1, <1>2, VaultAssumption DEF Sound, StoreGrows, EnvelopeStays

LEMMA StoreStep ==
  ASSUME RemoteInv, EnvelopeStays, StoreGrows
  PROVE  AllSound' /\ OneKey'
<1>1. ASSUME NEW c \in StoredCommit, \E i \in DOMAIN commits : c = commits[i] PROVE Sound(c)'
  BY <1>1, StaysSound DEF RemoteInv, AllSound
<1>2. ASSUME NEW c \in latePush PROVE Sound(c)'
  BY <1>2, StaysSound DEF RemoteInv, RemoteTypes, RemoteTypeOK, AllSound
<1>3. ASSUME NEW i \in DOMAIN commits' PROVE Sound(commits[i])'
  <2>1. CASE \E j \in DOMAIN commits : commits'[i] = commits[j]
    <3>1. PICK j \in DOMAIN commits : commits'[i] = commits[j] BY <2>1
    <3>2. commits[j] \in StoredCommit BY DEF RemoteInv, RemoteTypes, RemoteTypeOK
    <3>3. PICK c \in StoredCommit : c = commits[j] BY <3>2
    <3>4. Sound(c)' BY <3>3, <1>1
    <3> QED BY <3>1, <3>3, <3>4 DEF Sound
  <2>2. CASE commits'[i] \in latePush
    <3>1. PICK c \in latePush : c = commits'[i] BY <2>2
    <3> QED BY <3>1, <1>2 DEF Sound
  <2> QED BY <1>3, <2>1, <2>2 DEF StoreGrows
<1>4. \A c \in latePush' : Sound(c)'
  BY <1>2 DEF StoreGrows
<1>5. OneKey'
  BY DEF RemoteInv, OneKey, StoreGrows, EnvelopeStays
<1> QED BY <1>3, <1>4, <1>5 DEF AllSound

\* A device whose command did not move is as far as it was.
LEMMA SamePrepared ==
  ASSUME RemoteInv, EnvelopeStays, StoreGrows,
         NEW d \in Device, UNCHANGED <<cmd[d], batch[d]>>,
         NEW f \in File, (cmd[d] = "push" /\ batch[d].files[f] # None)'
  PROVE  (/\ batch[d].key \in Key
          /\ ~contested => batch[d].key = envelope
          /\ batch[d].place # Row => objects[<<batch[d].place, f, batch[d].files[f]>>] # None)'
<1>1. /\ batch[d].key \in Key
      /\ ~contested => batch[d].key = envelope
      /\ batch[d].place # Row => objects[<<batch[d].place, f, batch[d].files[f]>>] # None
  BY DEF RemoteInv, Prepared
<1>2. batch[d].place # Row => <<batch[d].place, f, batch[d].files[f]>> \in Object
  <2>1. batch[d] \in CommitOf(Folder, Key \cup {None}) /\ batch[d].files[f] # None
    BY DEF RemoteInv, RemoteTypes
  <2> QED BY <2>1 DEF CommitOf, Folder, Object
<1> QED BY <1>1, <1>2, VaultAssumption DEF StoreGrows, EnvelopeStays

\* Steps of the user, the network and ensureVaultKey: no command moves.
LEMMA CommandsStay ==
  ASSUME RemoteInv, VaultInv', EnvelopeStays, StoreGrows, UNCHANGED cmdVars,
         disk' \in [Device -> Folder], place' \in [Device -> Bucket \cup {Row}],
         \A d \in Device : cmd[d] = "sync" => disk'[d] = disk[d]
  PROVE  RemoteInv'
<1>1. RemoteTypes'
  BY StoreTypes DEF RemoteInv, RemoteTypes, RemoteTypeOK, VaultInv, cmdVars
<1>2. Prepared'
  BY SamePrepared DEF Prepared, cmdVars
<1>3. WritesPrefix'
  BY DEF RemoteInv, WritesPrefix, cmdVars
<1> QED BY <1>1, <1>2, <1>3, StoreStep DEF RemoteInv

\* A command ends, or one begins with nothing dealt with.
Begins(c, F, b) ==
  \/ c = "idle" /\ F = {} /\ b = None
  \/ c = "push" /\ F = File /\ b \in CommitOf({Empty}, Key \cup {None})
  \/ c \in {"sync", "export"} /\ F = File /\ b \in StoredCommit

LEMMA TurnTypes ==
  ASSUME RemoteTypes, VaultTypeOK', StoreGrows, NEW d \in Device, NEW c, NEW F, NEW b,
         Begins(c, F, b), Turn(d, c, F, b), disk' \in [Device -> Folder], place' = place
  PROVE  RemoteTypes'
<1>1. Empty \in Folder BY DEF Empty, Folder
<1>2. StoredCommit \subseteq CommitOf(Folder, Key \cup {None})
  BY DEF StoredCommit, CommitOf, Folder
<1>3. CommitOf({Empty}, Key \cup {None}) \subseteq CommitOf(Folder, Key \cup {None})
  BY <1>1 DEF CommitOf
<1>4. /\ c \in {"idle", "push", "sync", "export"}
      /\ F \in SUBSET File
      /\ b \in CommitOf(Folder, Key \cup {None}) \cup {None}
      /\ c # "idle" => b \in CommitOf(Folder, Key \cup {None})
      /\ c \in {"sync", "export"} => b \in StoredCommit
  BY <1>2, <1>3 DEF Begins
<1>5. /\ cmd' \in [Device -> {"idle", "push", "sync", "export"}]
      /\ todo' \in [Device -> SUBSET File]
      /\ batch' \in [Device -> CommitOf(Folder, Key \cup {None}) \cup {None}]
      /\ wrote' \in [Device -> Folder]
  BY <1>1, <1>4 DEF RemoteTypes, RemoteTypeOK, Turn
<1>6. ASSUME NEW e \in Device
      PROVE  /\ cmd'[e] # "idle" => batch'[e] \in CommitOf(Folder, Key \cup {None})
             /\ cmd'[e] \in {"sync", "export"} => batch'[e] \in StoredCommit
  BY <1>4 DEF RemoteTypes, RemoteTypeOK, Turn
<1> QED BY <1>5, <1>6, StoreTypes DEF RemoteTypes, RemoteTypeOK

LEMMA TurnStep ==
  ASSUME RemoteInv, VaultInv', EnvelopeStays, StoreGrows,
         NEW d \in Device, NEW c, NEW F, NEW b,
         Begins(c, F, b), Turn(d, c, F, b),
         disk' \in [Device -> Folder], \A e \in Device \ {d} : disk'[e] = disk[e], place' = place
  PROVE  RemoteInv'
<1>1. RemoteTypes'
  BY TurnTypes DEF RemoteInv, VaultInv
<1>2. ASSUME NEW e \in Device, e # d
      PROVE  UNCHANGED <<cmd[e], todo[e], batch[e], wrote[e]>>
  BY <1>2 DEF Turn, RemoteInv, RemoteTypes, RemoteTypeOK
<1>3. cmd'[d] = c /\ todo'[d] = F /\ batch'[d] = b
  BY DEF Turn, RemoteInv, RemoteTypes, RemoteTypeOK
<1>4. c = "push" => \A f \in File : b.files[f] = None
  BY DEF Begins, CommitOf, Empty
<1>5. Prepared'
  <2> SUFFICES ASSUME NEW e \in Device, NEW f \in File,
                      (cmd[e] = "push" /\ batch[e].files[f] # None)'
               PROVE  (/\ batch[e].key \in Key
                       /\ ~contested => batch[e].key = envelope
                       /\ batch[e].place # Row => objects[<<batch[e].place, f, batch[e].files[f]>>] # None)'
    BY DEF Prepared
  <2>1. e # d BY <1>3, <1>4
  <2> QED BY <2>1, <1>2, SamePrepared
<1>6. WritesPrefix'
  <2> SUFFICES ASSUME NEW e \in Device, (cmd[e] \in {"sync", "export"})', NEW f \in File \ todo'[e]
               PROVE  (/\ wrote[e][f] = batch[e].files[f]
                       /\ cmd[e] = "sync" => disk[e][f] = batch[e].files[f])'
    BY DEF WritesPrefix
  <2>1. e # d BY <1>3 DEF Begins
  <2> QED BY <2>1, <1>2 DEF RemoteInv, WritesPrefix
<1> QED BY <1>1, <1>5, <1>6, StoreStep DEF RemoteInv

-----------------------------------------------------------------------------
\* A command that has the key: it is the one of the envelope.
LEMMA ReadyKey ==
  ASSUME VaultInv, NEW d \in Device, step[d] = "ready"
  PROVE  vk[d] \in Key /\ (~contested => vk[d] = envelope)
BY DEF VaultInv, Holds, Agreed

\* An upload with that key.
LEMMA PutStores ==
  ASSUME RemoteInv, NEW d \in Device, step[d] = "ready", NEW o, PutObject(d, o),
         UNCHANGED <<commits, latePush, envelope, contested>>
  PROVE  StoreGrows
<1>1. vk[d] \in Key /\ (~contested => vk[d] = envelope)
  BY ReadyKey DEF RemoteInv
<1> QED BY <1>1, VaultAssumption
        DEF RemoteInv, RemoteTypes, RemoteTypeOK, StoreGrows, PutObject

\* A push that is built and complete carries one key and has all its objects.
LEMMA BuiltIsSound ==
  ASSUME RemoteInv, NEW d \in Device, Built(d), Complete(d)
  PROVE  batch[d] \in StoredCommit /\ Sound(batch[d])
<1>1. batch[d] \in CommitOf(Folder, Key \cup {None})
  BY DEF RemoteInv, RemoteTypes, Built
<1>2. \A f \in File : batch[d].files[f] # None
  BY DEF Complete
<1>3. /\ batch[d].key \in Key
      /\ Sound(batch[d])
  BY <1>2, RemoteAssumption DEF RemoteInv, Prepared, Sound, Built
<1> QED BY <1>1, <1>2, <1>3 DEF CommitOf, StoredCommit, Folder

\* A commit that is added to the ones stored, or to those on their way.
LEMMA AddCommit ==
  ASSUME RemoteInv, NEW c \in StoredCommit, Sound(c), UNCHANGED <<objects, envelope, contested>>,
         \/ commits' = Append(commits, c) /\ latePush' \subseteq latePush
         \/ commits' = commits /\ latePush' \subseteq latePush \cup {c}
  PROVE  StoreGrows
<1>1. Sound(c)' BY DEF Sound
<1>2. commits \in Seq(StoredCommit) /\ latePush \subseteq StoredCommit
  BY DEF RemoteInv, RemoteTypes, RemoteTypeOK
<1>3. commits' \in Seq(StoredCommit) /\ latePush' \subseteq StoredCommit
  BY <1>2, AppendProperties
<1>4. ASSUME NEW i \in DOMAIN commits'
      PROVE  (\E j \in DOMAIN commits : commits'[i] = commits[j]) \/ Sound(commits[i])'
  <2>1. CASE commits' = Append(commits, c)
    <3>1. i \in 1..(Len(commits) + 1) BY <1>2, <2>1, AppendProperties
    <3>2. CASE i = Len(commits) + 1
      <4>1. commits'[i] = c BY <1>2, <2>1, <3>2, AppendProperties
      <4> QED BY <4>1, <1>1 DEF Sound
    <3>3. CASE i # Len(commits) + 1
      BY <1>2, <2>1, <3>1, <3>3, AppendProperties
    <3> QED BY <3>2, <3>3
  <2>2. CASE commits' = commits BY <2>2
  <2> QED BY <2>1, <2>2
<1>5. \A x \in latePush' : x \in latePush \/ Sound(x)'
  <2> SUFFICES ASSUME NEW x \in latePush', x \notin latePush PROVE Sound(x)'
    OBVIOUS
  <2>1. x = c OBVIOUS
  <2> QED BY <2>1, <1>1
<1> QED BY <1>3, <1>4, <1>5 DEF RemoteInv, RemoteTypes, RemoteTypeOK, StoreGrows

\* A command that is over.
LEMMA EndStep ==
  ASSUME RemoteInv, VaultInv', EnvelopeStays, StoreGrows, NEW d \in Device,
         Turn(d, "idle", {}, None),
         disk' \in [Device -> Folder], \A e \in Device \ {d} : disk'[e] = disk[e], place' = place
  PROVE  RemoteInv'
BY TurnStep DEF Begins

\* push reads, encrypts and uploads one file.
LEMMA BuildStep ==
  ASSUME RemoteInv, VaultInv', EnvelopeStays, NEW d \in Device, Build(d)
  PROVE  RemoteInv'
<1> DEFINE f == NextFile(d)
           v == disk[d][f]
           b == [batch[d] EXCEPT !.files[f] = v, !.key = vk[d]]
<1>1. /\ cmd[d] = "push" /\ step[d] = "ready" /\ Handled(d)
      /\ batch' = [batch EXCEPT ![d] = b]
      /\ UNCHANGED <<vaultVars, deviceVars, commits, latePush, cmd, wrote>>
      /\ v # None /\ batch[d].place # Row => PutObject(d, <<batch[d].place, f, v>>)
      /\ ~(v # None /\ batch[d].place # Row) => UNCHANGED objects
  <2>1. batch[d] \in CommitOf(Folder, Key \cup {None})
    BY DEF Build, Uploading, RemoteInv, RemoteTypes
  <2> QED BY <2>1 DEF Build, Uploading, CommitOf
<1>2. vk[d] \in Key /\ (~contested => vk[d] = envelope)
  BY <1>1, ReadyKey DEF RemoteInv
<1>3. batch[d] \in CommitOf(Folder, Key \cup {None}) /\ disk[d] \in Folder
  BY <1>1 DEF RemoteInv, RemoteTypes, RemoteTypeOK
<1>4. /\ b \in CommitOf(Folder, Key \cup {None})
      /\ b.key = vk[d] /\ b.place = batch[d].place
      /\ \A g \in File : b.files[g] = IF g = f THEN v ELSE batch[d].files[g]
  BY <1>2, <1>3 DEF CommitOf, Folder
<1>5. StoreGrows
  BY <1>1, PutStores, SameStore DEF vaultVars, storeVars
<1>6. RemoteTypes'
  BY <1>1, <1>4, StoreTypes, <1>5
     DEF RemoteInv, RemoteTypes, RemoteTypeOK, VaultInv, Handled, deviceVars
<1>7. Prepared'
  <2> SUFFICES ASSUME NEW e \in Device, NEW g \in File,
                      (cmd[e] = "push" /\ batch[e].files[g] # None)'
               PROVE  (/\ batch[e].key \in Key
                       /\ ~contested => batch[e].key = envelope
                       /\ batch[e].place # Row => objects[<<batch[e].place, g, batch[e].files[g]>>] # None)'
    BY DEF Prepared
  <2>1. CASE e # d
    <3>1. UNCHANGED <<cmd[e], batch[e]>> BY <1>1, <2>1 DEF RemoteInv, RemoteTypes, RemoteTypeOK
    <3> QED BY <3>1, <1>5, SamePrepared
  <2>2. CASE e = d
    <3>1. batch'[d] = b BY <1>1 DEF RemoteInv, RemoteTypes, RemoteTypeOK
    <3>2. /\ batch'[d].key \in Key
          /\ ~contested' => batch'[d].key = envelope'
      BY <3>1, <1>1, <1>2, <1>4 DEF vaultVars
    <3>3. ASSUME batch'[d].place # Row
          PROVE  objects'[<<batch'[d].place, g, batch'[d].files[g]>>] # None
      <4>1. <<b.place, g, b.files[g]>> \in Object
        BY <2>2, <3>1, <3>3, <1>4 DEF CommitOf, Folder, Object
      <4>2. CASE g = f
        <5>1. b.files[g] = v /\ v # None /\ batch[d].place # Row
          BY <4>2, <3>1, <3>3, <2>2, <1>4
        <5>2. PutObject(d, <<b.place, g, b.files[g]>>)
          BY <5>1, <4>2, <1>1, <1>4
        <5>3. objects'[<<b.place, g, b.files[g]>>] = vk[d]
          BY <5>2, <4>1 DEF PutObject, RemoteInv, RemoteTypes, RemoteTypeOK
        <5> QED BY <5>3, <3>1, <1>2, VaultAssumption
      <4>3. CASE g # f
        <5>1. objects[<<b.place, g, b.files[g]>>] # None
          BY <4>3, <3>1, <3>3, <2>2, <1>1, <1>4 DEF RemoteInv, Prepared
        <5> QED BY <5>1, <4>1, <3>1, <1>5 DEF StoreGrows
      <4> QED BY <4>2, <4>3
    <3> QED BY <3>2, <3>3, <2>2
  <2> QED BY <2>1, <2>2
<1>8. WritesPrefix'
  BY <1>1 DEF RemoteInv, RemoteTypes, RemoteTypeOK, WritesPrefix, Handled, deviceVars
<1> QED BY <1>6, <1>7, <1>8, <1>5, StoreStep DEF RemoteInv

\* sync or export writes one file.
LEMMA WriteStep ==
  ASSUME RemoteInv, VaultInv', EnvelopeStays, NEW d \in Device, WriteFile(d)
  PROVE  RemoteInv'
<1> DEFINE f == NextFile(d)
           v == batch[d].files[f]
<1>1. /\ cmd[d] \in {"sync", "export"} /\ Handled(d) /\ WriteTo(d, f, v)
      /\ wrote' = [wrote EXCEPT ![d][f] = v]
      /\ UNCHANGED <<vaultVars, place, storeVars, cmd, batch>>
  BY DEF WriteFile, Decrypts, Reading
<1>2. batch[d] \in StoredCommit
  BY <1>1 DEF RemoteInv, RemoteTypes, RemoteTypeOK
<1>3. f \in File => v \in Content \cup {Torn}
  BY <1>2 DEF StoredCommit, CommitOf
<1>4. disk' \in [Device -> Folder] /\ wrote' \in [Device -> Folder]
  <2>1. disk \in [Device -> Folder] /\ wrote \in [Device -> Folder]
    BY DEF RemoteInv, RemoteTypes, RemoteTypeOK
  <2>2. [disk EXCEPT ![d][f] = v] \in [Device -> Folder]
    BY <1>3, <2>1 DEF Folder
  <2>3. [wrote EXCEPT ![d][f] = v] \in [Device -> Folder]
    BY <1>3, <2>1 DEF Folder
  <2> QED BY <1>1, <2>1, <2>2, <2>3 DEF WriteTo
<1>5. StoreGrows BY <1>1, SameStore
<1>6. RemoteTypes'
  BY <1>1, <1>4, StoreTypes, <1>5
     DEF RemoteInv, RemoteTypes, RemoteTypeOK, VaultInv, Handled
<1>7. Prepared'
  BY <1>1, <1>5, SamePrepared DEF Prepared
<1>8. WritesPrefix'
  <2> SUFFICES ASSUME NEW e \in Device, cmd'[e] \in {"sync", "export"}, NEW g \in File \ todo'[e]
               PROVE  /\ wrote'[e][g] = batch'[e].files[g]
                      /\ cmd'[e] = "sync" => disk'[e][g] = batch'[e].files[g]
    BY DEF WritesPrefix
  <2>1. CASE e # d
    BY <2>1, <1>1 DEF RemoteInv, RemoteTypes, RemoteTypeOK, WritesPrefix, Handled, WriteTo
  <2>2. CASE e = d /\ g # f
    BY <2>2, <1>1 DEF RemoteInv, RemoteTypes, RemoteTypeOK, WritesPrefix, Handled, WriteTo, Folder
  <2>3. CASE e = d /\ g = f
    BY <2>3, <1>1 DEF RemoteInv, RemoteTypes, RemoteTypeOK, WriteTo, Folder
  <2> QED BY <2>1, <2>2, <2>3
<1> QED BY <1>6, <1>7, <1>8, <1>5, StoreStep DEF RemoteInv

-----------------------------------------------------------------------------
LEMMA WorkStep ==
  ASSUME RemoteInv, VaultInv', EnvelopeStays, NEW d \in Device, Work(d)
  PROVE  RemoteInv'
<1> USE DEF RemoteInv, RemoteTypes, RemoteTypeOK
<1>1. CASE AskKey(d)
  BY <1>1, SameStore, CommandsStay DEF AskKey, deviceVars
<1>2. CASE Build(d) BY <1>2, BuildStep
<1>3. CASE MissingFiles(d) \/ NoBlob(d) \/ DecryptFails(d) \/ FinishRead(d)
  BY <1>3, SameStore, EndStep, DoneForgets
     DEF MissingFiles, NoBlob, DecryptFails, FinishRead, deviceVars
<1>4. CASE Post(d)
  <2>1. StoreGrows BY <1>4, BuiltIsSound, AddCommit DEF Post, Done
  <2> QED BY <1>4, <2>1, EndStep, DoneForgets DEF Post, deviceVars
<1>5. CASE WriteFile(d) BY <1>5, WriteStep
<1> QED BY <1>1, <1>2, <1>3, <1>4, <1>5 DEF Work, Push, Read

LEMMA StartStep ==
  ASSUME RemoteInv, VaultInv', EnvelopeStays, NEW d \in Device,
         StartPush(d) \/ StartSync(d) \/ StartExport(d)
  PROVE  RemoteInv'
<1>1. commits \in Seq(StoredCommit) /\ disk \in [Device -> Folder]
  BY DEF RemoteInv, RemoteTypes, RemoteTypeOK
<1>2. CASE StartPush(d)
  <2>1. [files |-> Empty, place |-> place[d], key |-> None] \in CommitOf({Empty}, Key \cup {None})
    BY DEF RemoteInv, RemoteTypes, RemoteTypeOK, CommitOf
  <2> QED BY <1>1, <1>2, <2>1, SameStore, TurnStep DEF StartPush, Begins, deviceVars
<1>3. CASE StartSync(d)
  <2>1. Latest \in StoredCommit
    BY <1>1, <1>3, ElementOfSeq DEF StartSync, Latest, Last
  <2> QED BY <1>1, <1>3, <2>1, SameStore, TurnStep DEF StartSync, Begins, deviceVars
<1>4. CASE StartExport(d)
  <2>1. PICK i \in DOMAIN commits : Turn(d, "export", File, commits[i])
    BY <1>4 DEF StartExport
  <2>2. commits[i] \in StoredCommit BY <1>1, ElementOfSeq
  <2> QED BY <1>1, <1>4, <2>1, <2>2, SameStore, TurnStep DEF StartExport, Begins, deviceVars
<1> QED BY <1>2, <1>3, <1>4

LEMMA FailStep ==
  ASSUME RemoteInv, VaultInv', EnvelopeStays, NEW d \in Device,
         KeyFails(d) \/ UploadFails(d) \/ PostFails(d) \/ DownloadFails(d) \/ Kill(d)
  PROVE  RemoteInv'
<1>1. disk \in [Device -> Folder] BY DEF RemoteInv, RemoteTypes, RemoteTypeOK
<1>2. CASE KeyFails(d) \/ DownloadFails(d)
  BY <1>1, <1>2, SameStore, EndStep, DoneForgets DEF KeyFails, DownloadFails, deviceVars
<1>3. CASE UploadFails(d)
  <2>1. StoreGrows
    <3>1. CASE UNCHANGED objects BY <1>3, <3>1, SameStore DEF UploadFails, storeVars
    <3>2. CASE PutObject(d, <<batch[d].place, NextFile(d), disk[d][NextFile(d)]>>)
      BY <1>3, <3>2, PutStores DEF UploadFails, Uploading, Done
    <3> QED BY <1>3, <3>1, <3>2 DEF UploadFails
  <2> QED BY <1>1, <1>3, <2>1, EndStep, DoneForgets DEF UploadFails, deviceVars
<1>4. CASE PostFails(d)
  <2>1. StoreGrows BY <1>4, BuiltIsSound, AddCommit DEF PostFails, Done
  <2> QED BY <1>1, <1>4, <2>1, EndStep, DoneForgets DEF PostFails, deviceVars
<1>5. CASE Kill(d)
  <2>1. StoreGrows
    <3>1. CASE UNCHANGED latePush BY <1>5, <3>1, SameStore DEF Kill, storeVars
    <3>2. CASE Built(d) /\ Complete(d) /\ latePush' = latePush \cup {batch[d]}
      BY <1>5, <3>2, BuiltIsSound, AddCommit DEF Kill, LeavesUpload
    <3> QED BY <1>5, <3>1, <3>2 DEF Kill
  <2>2. disk' \in [Device -> Folder] /\ \A e \in Device \ {d} : disk'[e] = disk[e]
    <3>1. CASE UNCHANGED disk BY <1>1, <3>1
    <3>2. CASE WriteTo(d, NextFile(d), Torn) BY <1>1, <3>2 DEF WriteTo, Folder
    <3> QED BY <1>5, <3>1, <3>2 DEF Kill
  <2> QED BY <1>5, <2>1, <2>2, EndStep DEF Kill, EndOfCommand
<1> QED BY <1>2, <1>3, <1>4, <1>5

\* The user, late uploads and late pushes.
LEMMA OutsideStep ==
  ASSUME RemoteInv, VaultInv', EnvelopeStays,
         \/ \E d \in Device, f \in File, v \in Content \cup {None} : Edit(d, f, v)
         \/ \E d \in Device, b \in Bucket \cup {Row} : Configure(d, b)
         \/ \E k \in Key : LateKey(k)
         \/ \E c \in latePush : StoreLate(c)
  PROVE  RemoteInv'
<1>1. disk \in [Device -> Folder] /\ place \in [Device -> Bucket \cup {Row}]
  BY DEF RemoteInv, RemoteTypes, RemoteTypeOK
<1>2. ASSUME NEW d \in Device, NEW f \in File, NEW v \in Content \cup {None}, Edit(d, f, v)
      PROVE  RemoteInv'
  <2>1. disk' \in [Device -> Folder] /\ \A e \in Device : cmd[e] = "sync" => disk'[e] = disk[e]
    BY <1>1, <1>2 DEF Edit, Folder
  <2> QED BY <1>1, <1>2, <2>1, SameStore, CommandsStay DEF Edit
<1>3. ASSUME NEW d \in Device, NEW b \in Bucket \cup {Row}, Configure(d, b)
      PROVE  RemoteInv'
  BY <1>1, <1>3, SameStore, CommandsStay DEF Configure
<1>4. ASSUME NEW k \in Key, LateKey(k) PROVE RemoteInv'
  BY <1>1, <1>4, SameStore, CommandsStay DEF LateKey, deviceVars
<1>5. ASSUME NEW c \in latePush, StoreLate(c) PROVE RemoteInv'
  <2>1. c \in StoredCommit /\ Sound(c)
    BY DEF RemoteInv, RemoteTypes, RemoteTypeOK, AllSound
  <2>2. StoreGrows BY <1>5, <2>1, AddCommit DEF StoreLate, vaultVars
  <2> QED BY <1>1, <1>5, <2>2, CommandsStay DEF StoreLate, deviceVars
<1> QED BY <1>2, <1>3, <1>4, <1>5

LEMMA NextRemote ==
  ASSUME RemoteInv, [Next]_vars
  PROVE  RemoteInv'
<1>1. CASE Next
  <2>1. VaultInv' /\ EnvelopeStays BY <1>1, VaultPart DEF RemoteInv
  <2> QED BY <1>1, <2>1, WorkStep, StartStep, FailStep, OutsideStep DEF Next, Fail
<1>2. CASE UNCHANGED vars
  <2>1. VaultInv' /\ EnvelopeStays BY <1>2, VaultStutter DEF RemoteInv, vars
  <2>2. disk \in [Device -> Folder] /\ place \in [Device -> Bucket \cup {Row}]
    BY DEF RemoteInv, RemoteTypes, RemoteTypeOK
  <2> QED BY <1>2, <2>1, <2>2, SameStore, CommandsStay DEF vars, deviceVars
<1> QED BY <1>1, <1>2

LEMMA RemoteInvAlways == Spec => []RemoteInv
BY InitRemote, NextRemote, PTL DEF Spec

-----------------------------------------------------------------------------
\* The state of devices, server and buckets has its types.
THEOREM RemoteTypeCorrect == Spec => []RemoteTypeOK
<1>1. RemoteInv => RemoteTypeOK BY DEF RemoteInv, RemoteTypes
<1> QED BY <1>1, RemoteInvAlways, PTL

\* push, sync and export use the vault key as VaultKey says: each step is one
\* of its steps or does not concern the key.
THEOREM ImplementsVaultKey == Spec => VaultSpec
<1>1. Init => VaultInit BY DEF Init
<1>2. RemoteInv /\ [Next]_vars => [VaultNext]_vaultVars
  BY VaultPart DEF RemoteInv, vars
<1> QED BY <1>1, <1>2, RemoteInvAlways, PTL DEF Spec, VaultSpec

\* So the devices agree on the key in every run of push, sync and export
\* (vault_key.go:150-198).
THEOREM KeysAgreeInUse == Spec => []KeysAgree
BY ImplementsVaultKey, KeysAgreeAlways, PTL

\* Whatever is stored can be read with the key of the envelope, unless two
\* creations of a key overlapped (vault_key.go:148-149).
THEOREM PortableAlways == Spec => []Portable
<1>1. RemoteInv => Portable
  BY DEF RemoteInv, AllSound, Sound, OneKey, Portable
<1> QED BY <1>1, RemoteInvAlways, PTL

\* A stored commit has all its objects, whichever uploads and requests failed,
\* came late or were killed (push_build.go:150-153, 188).
THEOREM CommitHasObjectsAlways == Spec => []CommitHasObjects
<1>1. RemoteInv => CommitHasObjects
  BY DEF RemoteInv, AllSound, Sound, CommitHasObjects
<1> QED BY <1>1, RemoteInvAlways, PTL

\* A sync or export has written every file before the one it is at
\* (sync.go:118-154, export.go:134-208).
THEOREM WritesPrefixAlways == Spec => []WritesPrefix
<1>1. RemoteInv => WritesPrefix BY DEF RemoteInv
<1> QED BY <1>1, RemoteInvAlways, PTL
===============================================================================

# Sentra in TLA+

Sentra keeps `.env` files under version control without the server reading them. A Go command
line (`cli/`) scans a directory for env files, stages and commits them in
`~/.sentra`, encrypts them and pushes them; a Go server (`server/`) checks who
and which machine is calling and stores the commits in Supabase (Postgres behind
PostgREST). This directory holds TLA+ modules of its stateful parts, the TLC
configurations that check them on small instances, and TLAPS proofs of what
holds for instances of any size. Paths below are relative to the root of the
repository.

    tlc -config MCPushServer.cfg MCPushServer.tla     one run
    tlapm PushServerProofs.tla                        one set of proofs

`PROJECT.json` lists components, runs, mutants, theorems, hazards and findings, and
maps every definition to the lines it models.

## 1. Inventory

### Parts, state, operations

| Part | Source | State | Operations |
|---|---|---|---|
| Scanner | `cli/internal/scanner`, `cli/scan_root.go` | none | walk the scan root, find projects and env files, apply ignore patterns |
| Index | `cli/internal/index` | `~/.sentra/index.json`: staged path → hash | Load, Save (temporary file, then rename) |
| Commits | `cli/internal/commit` | one JSON file per commit: files, message, `PushedAt` | New, Save, List, Update, Delete, Clear |
| add / commit / log | `cli/internal/cli/{add,commit,log}.go` | none of their own | load, change and save index and commit files; `log rm`, `clear`, `verify`, `prune` |
| push | `cli/internal/cli/push*.go` | none of its own | per commit and project root: build, encrypt, sign, send with retries, mark the commit |
| Machine identity | `cli/internal/auth/{config,device_keys}.go`, `cli/machines_register.go` | `config.json` (machine_id, user, server URL, storage mode), Ed25519 key in the keychain | EnsureConfig, GetOrCreateDevicePrivateKey, sign, register, `wipe` |
| Session, login | `cli/login.go`, `cli/remote_auth.go`, `cli/internal/auth/session*.go`, `supabase_*.go` | session in the keychain or an encrypted file, the key of that file in the keychain or beside it | load, migrate, refresh with a token good for one use, save, browser login with a callback server, clear |
| Vault key | `cli/vault_key.go`, `auth/vault_envelope.go`, `server/.../vault_key.go` | one wrapped document per user on the server | fetch, create, upload, unwrap |
| BYOS storage | `cli/storage.go`, `cli/internal/storage` | `storage.json`, the secret it names in the keychain, objects in a bucket | setup, reset, resolve, PutObject, GetObject |
| sync, export | `cli/{sync,export}.go`, `server/.../export.go` | files below the scan root | download, decrypt, overwrite |
| Push endpoint | `server/internal/httpapi/push.go`, `repo/{push,idempotency}.go` | tables `idempotency_keys` and the commits behind `sentra_push_v1` | claim a key, push, settle or undo the key, replay |
| Machines, signature gate | `server/.../machines.go`, `device_sig_middleware.go`, `repo/machines.go` | table of machine_id → device key, nonces in memory | register, check signature |
| Rate limiters | `server/.../rate_limit.go` | token buckets in memory | admit or answer 429 |
| JWKS verifier | `server/internal/auth/{jwks_verifier,middleware}.go` | key set, time of the last refresh | verify, refresh |
| Schema, router, loopback gate, health, config | rest of `server/internal` | none | stateless checks |
| Read-only commands and endpoints | `status`, `history`, `files`, `projects`, `doctor`, ... | none | read |
| Snapshot state | `cli/internal/state` | written by no command | none in use |

### How they interact

`sentra push` ties most parts together. It loads config and session, registers the machine
(a POST signed with the device key), lists the pending commits in ID order and,
for each, reads the env files as they are *now* (not as they were committed),
encrypts them with the vault key and sends one signed request per project root
with an idempotency key derived from user, root and commit. On the server a request passes
authentication, the rate limiter, the signature check against the machine's row
and the schema; the handler claims the key in one call, runs the RPC in
another, and marks the row done (or deletes it) in a third, each over HTTP with a
timeout, and each in the context of the request, which is cancelled when the client goes away. Commands on one computer share index, commit files, config and keychain
without any lock. Nothing on the server ever expires a row.

### What is hard, and what must hold

- **Push across failures.** Any call can fail before or after it took effect,
  or take effect after its caller gave up; a client that is killed or times out cancels all that
  its request would still have done, the settling of its key included; both ends can die, the CLI runs the
  push again. A unit (one root's share of one commit) must be stored once,
  "ok" must mean stored, a local mark must mean stored, and pushes must
  eventually get through, unless a key nobody settles is in their way.
- **The binding of computer and key.** machine_id and device key live in two
  stores, are made in separate steps, and are wiped in separate steps; the server looks up
  and writes the row in separate calls; config.json is truncated and then written. A row must only ever carry a key that signed for
  it, and a computer must not end up with a key the server refuses.
- **Local files under concurrent commands and kills.** Copies are loaded, worked
  on and written back. Nothing staged may be lost, no commit may be empty (it would
  block all commits behind it), a pushed mark must stay.
- **One vault key on many devices.** A device told that there is no envelope makes a key
  and uploads it with an upsert that does not ask again, and an upload can outlive its
  command. All devices must hold the key of the envelope, and what is stored must
  open with it.
- **Files stored, and files written back.** push uploads the objects of a commit one
  by one before the commit; sync overwrites files one by one. A stored commit must have its
  objects wherever a push stopped, and a sync that stopped must be repaired by the next.
- **The session.** Several commands read one session and refresh it with a
  token that works once; keychain and file hold two copies. Nobody may load the session of an older
  login, and whatever went wrong a login must get the user going again.
- **The login.** Callbacks run concurrently with each other, with the
  timeout and with the shutdown that waits for them; the first good one counts and the command must end.
- **State in the server's memory.** Key set, nonces and token bucket are
  read and written by concurrent requests with a clock: a signed request is served once,
  a new key is learnt in time although fetches cross, Retry-After is kept.
- **storage.json and its secret** are written and deleted in separate steps; the
  configuration must not name a secret that is gone.
- **The scanner.** Which of several stacked .gitignore files decides.

## 2. Modules and the code

| Module | What it is | Extends |
|---|---|---|
| `PushOnce` | what POST /push promises: a unit is stored once, "ok" tells what is stored | |
| `PushServer` | handler, idempotency store and RPC, one action per network call; implements `PushOnce` | |
| `PushPipeline` | `sentra push` composed with `PushServer` | `PushServer` |
| `DeviceBinding` | config, keychain, registration, signature gate, login's rewrite of the config, wipe | |
| `LocalStore` | index and commit files under add, commit, push, log | |
| `IndexFile` | one load and one save of index.json, call by call, and inode by inode | |
| `VaultKey` | what the devices of a user do with the vault key and its envelope | |
| `RemoteFiles` | `sentra push`, `sync` and `export` of env files over several devices, with storage on the server or in a bucket; composed with `VaultKey`, which it implements | `VaultKey` |
| `RequestGate` | token verification, token bucket and nonce cache of the server, with a clock | |
| `Session` | the session in keychain and file under several commands | |
| `LoginServer` | the callback server of one login | |
| `StorageConfig` | storage.json and the secrets it names | |
| `Scanner` | both walks of the scanner, against a definition without a walk | |
| `MCClient` | the last four in one run: a behaviour is a behaviour of one of them | the last four |
| `PushServerProofs`, `PushPipelineProofs`, `DeviceBindingProofs`, `RemoteFilesProofs`, `RequestGateProofs`, `ScannerProofs` | theorems | their module |
| `LocalStoreProofs` | theorems | `LocalStore`, `IndexFile` |
| `ClientProofs` | theorems | `Session`, `LoginServer`, `StorageConfig`, and all parts of `MCClient` together |
| `MCLocalStore` | commands on the files, or the calls of one save: a behaviour is one of either | `LocalStore`, `IndexFile` |
| other `MC*` | model values and symmetry for TLC | their module |

**PushServer.** A slot is a goroutine of `pushHandler`; `stage[s]` is the call it is
about to make or is in. `Receive` is everything up to the claim of the key;
`TurnAway` the middlewares' and the schema's refusals. `CreateRow`,
`CreateConflict`, `CreateFails` are the outcomes of `idem.Create` (push.go:69-77; when it
fails the handler pushes without a lock, which `opened` remembers); `Replay`,
`Conflict`, `GetFails` those of `idem.Get`; `RunRPC`, `PushSucceeds`, `PushFails`
the RPC and its answer; `Settle`, `SettleFails`, `Undo`, `UndoFails` the ends of the
row. A call that fails is lost, has taken effect, or is left behind (`LeaveBehind`) in `late`, from where the
database runs it whenever it likes: `RunLateInsert`, `RunLateRPC`, `RunLateSettle`, `RunLateDelete`.
`Disconnect` is a client that went away: net/http cancels `r.Context()`, which every call carries (push.go:69-124,
supabase/client.go:73), so the call under way fails and none is sent any more, neither SetDone nor Delete.
`Crash` does the same to all slots and keeps the tables. `idem` and `db` are the two tables. `adrift` remembers the
keys whose row is left to nobody: its request failed to end it, lost its client or died, or the insert ran late; a row that
ends after all, by a late call or by another request, takes its key out again. The RPC and PostgREST are not in the
repository; they are modelled from their use and from contracts/push.schema.json.

**PushPipeline.** One action per step of the loop in `runPush`: list, build one
commit, send, hear "ok", hear 429 (up to `MaxAttempts`), fall out of the attempts,
hear an error, mark. `Stop` kills the process or times out its request. From then on the server may notice (`ClientGone`,
the server's `Disconnect`) between any two steps of the handler, or not before the handler is through, which
is then as if it lived on. `Edit` changes env files. `ServerCrash` conjoins the
server's crash with what waiting processes see. `Stuck` is a unit whose row is adrift, so that every push of it meets
409, and `HeldUp` a commit that has such a unit or comes after one that has, since push stops at its first error.

**DeviceBinding.** `configId` and `keychain` are the two local stores; `mode[p]` walks
through EnsureConfig, the key, the public key, the signature, the answer, and then
push's own request. `OpenConfig` and `FillConfig` are the two halves of `os.WriteFile` in `SaveConfig`
(config.go:101): a kill in between leaves `Empty`, and of two saves that cross the file can
keep the rest of the longer text behind the shorter (`Torn`, which is no JSON), since both write from the start of one file (`writing` says
who still has it open; a wipe takes the file away from under them). `BadConfig` is `LoadConfig` rejecting such a file:
the command fails, and so does every later one. `NewConfig`/`WriteConfig` are the save of EnsureConfig,
`ReadCopy`, `SaveCopy`, `WriteCopy` login writing back a config it read
earlier, `WipeKey`/`WipeFiles` wipe. On the server `LookUp`, `Register` and
`RegisterFails` are the two calls of the registration handler, `Admit` the
signature gate, `LateRegister` an upsert that outlives its caller; a request whose
process is gone can fail at each call, its context being cancelled.

**LocalStore.** Each command is split where it touches a shared file: scan / load / save for
add, load / save the commit / clear the index for commit (formatters and
linters run in between), list / mark for push, list / keep, update or
delete for prune, list / remove for rm and clear. `AskRoot`/`SaveRoot` are `resolveScanRoot`, which loads the index, asks the user for the scan
root and saves what it loaded (scan_root.go:23-44). `quiet` is a history variable: the
processes whose in-memory copies nobody has outdated.

**IndexFile.** What LocalStore takes as one step: `OpenTmp`, `WriteAll`/`WriteSome`, `RenameTmp`/`RenameFails` are
the calls of `index.Save`, `OpenIndex`, `ReadIndex`/`ReadFails` those of `index.Load`. Names point to
inodes: a reader keeps the inode it opened, and a writer may write into one that another writer has
renamed meanwhile. `overlapped` is a history variable: two saves were under way at once.

**VaultKey.** `step[d]` is where the command of device `d` is in `ensureVaultKey`:
`Look` (the keychain), `FetchNone` and `FetchSome` (the answer to GET /vault/key), `Create`
(passphrase and random key), `Put` (the upload and the copy in the keychain,
which is best effort: `NoKeychain`), `Unlock`. `VaultFails` is every error return, and an
upload whose answer did not come may run later (`latePut`, `LatePut`). Creations that
overlap (`contested`) can leave two keys in use; no guard reads that history variable.

**RemoteFiles.** `cmd`, `todo`, `batch` and `wrote` are what the command of a device holds:
which command, the files it has yet to handle, the commit it builds or
reads, what it wrote. push: `StartPush`, `Build` (one file read, encrypted, and uploaded when
`place` is a bucket), `MissingFiles`, `Post`, `UploadFails`, `PostFails`, `StoreLate`.
sync and export: `StartSync` (the last commit), `StartExport` (any), `WriteFile`,
`NoBlob`, `DownloadFails`, `DecryptFails`, `FinishRead`. `Kill` may leave the file being
written truncated (`Torn`). Every command that needs the key goes through VaultKey's
actions (`AskKey`, `KeyFails`), and the same variables serve as the refinement mapping.

**RequestGate.** A slot is a goroutine, in the order of router.go: `Parse`,
`StartRefresh`, `Fetched` or `FetchFails`, `Apply`, `Reparse` are `Verify` and `refresh` of the JWKS verifier
(the fetch is outside the mutex, so two may cross); `Admit` and `Limit` are the token bucket;
`VerifySignature` the timestamp window; `Serve` and `Repeated` the nonce cache
with its clean-up. A bucket counts credits, `Token` of them a token, so that fractions are
exact. `Rotate` is the issuer, `Tick` the clock, `Restart` a new process.

**Session.** `at[p]` is where a command is: `LookRing`, `LookFile`, `Migrate` are `LoadSession`;
`Valid`, `Refresh`, `Refused`, `AnswerLost`, `RefreshFails` are `EnsureSession`;
`SaveRefreshed`, `SaveFails`; `Exchange`, `SaveLogin`, `SaveLoginFails`, `LoginFails` the login a
failed `EnsureSession` leads to, after which the session is loaded again (`again`); `WipeRing` and
`WipeFiles`. The keychain is up, refuses writes, or is unavailable. A session is known by whether its
chain of refreshes began with the login saved last, and by whether its refresh token is unused.

**LoginServer** is the detail of Session's login: `handler[c]` is a goroutine of `/callback`,
`codeCh` and `errCh` are the channels of capacity one, `cbOnce` the sync.Once, `Main` the select with its
timeout and the shutdown.

**StorageConfig.** `doing[t]` is the next step of the command of a terminal: setup (secret,
test, truncate and write storage.json), reset, login's hosted choice, and wipe (load, erase the
secret, remove the file, then the whole directory).

**Scanner.** `frames` is the stack of directories being walked, `inForce` the stack of
.gitignore files. `FindsEnvFiles` compares the result with `Searched`, which says without a walk which
directories the patterns leave.

### Abstractions

- One user; the user is part of every key on the server, and rows of
  different users never meet.
- The idempotency key is an injective hash of user, root and commit (push.go:184-186), so
  `IdemKey` is the identity on units; requests without a key are covered too (`keyed`).
- Bodies, hashes, ids and keys are model values; encryption and signing appear as
  "made by" and "signed with", never as byte strings.
- `Build` reads one commit's files in one step. An `Edit` between two
  files of a root gives a body that is again just some body.
- In `LocalStore` a save is one step; `IndexFile` shows that the temporary name and the rename make it so
  unless two saves overlap. What an index holds is one value there, whole, empty or torn.
- The one-time migration of commit IDs in `commit.List` is left out.
- `late` in `PushServer` and `DeviceBinding` is a set: two calls left behind that are the same in all they carry count as one. `MaxLate` bounds
  how many are left behind at a time; the proofs hold for every `MaxLate`.
- A wipe starts only while an unused id and key remain, so the next login can make new ones.
- In `PushPipeline` uploads to a bucket and the vault key are left out; they are in `RemoteFiles`, where
  in turn the server's push is one step that goes through, fails, or comes late.
- `RemoteFiles`: one project whose directory exists on every device, one
  commit holds all its env files, edits happen between commands, and download, decryption and write of a file are one step.
  An upload that runs after its command gave up has no action of its own: `UploadFails` has the effect at once. Keys are interchangeable, so a new one is any that
  was not made before. The passphrase is right or wrong; an envelope opens or not.
- `RequestGate`: between two statements no time passes; only a fetch of the key set takes time. An invalid token is one whose
  key is not known. The numbers of the configuration are scaled
  down, and the assumptions on them are those the code's constants satisfy (a nonce outlives
  its timestamp), or all but a burst of 0 does (a bucket holds a token). A bucket may be dropped before it is full.
- `Session`: reading the file and its key is one step; time is left out, so that an access token looked at is
  good or not. What slipped through is marked in `slip` and listed at `StoredIsLatest`.
- `StorageConfig`: the sources of credentials (profile, environment, keys) are one bit, a secret or none;
  config.json's storage mode is not in it.
- `Scanner`: patterns are parsed already; `**`, `?` and `[...]` are left out.

## 3. Runs

| Run | Configuration | Shows |
|---|---|---|
| `push_server` | 2 slots, 1 commit × 2 projects, 2 bodies, every fault, 1 late call at a time | `TypeOK`, `AckedIsStored`, `DoneIsStored`, `KeyExclusive`, and `StoresOnce`: PushServer implements PushOnce |
| `push_pipeline` | 1 process, 2 slots, 2 commits over 2 projects (one shared), 2 attempts; crashes, clients that leave, 429s, 1 late call | `PipelineTypeOK`, `PushedIsStoredOrGaveUp`: a marked commit is stored, except roots whose attempts all met 429 |
| `push_live` | 1 process, 2 slots, 1 unit, 2 attempts, every fault, 2 late calls | `RowHasOwner`: a row in progress has a request that will end it, or is known to be adrift; `EventuallyPushed`: once failures end, commits become pushed unless such a row holds them up |
| `binding_alone` | 1 process, 2 ids, 2 keys, 2 slots, every fault but a half-done wipe, any number of late upserts | `BindingAgrees`, `NeverRefused`, `EventuallyServed` |
| `binding_race` | 2 processes, 2 ids, 2 keys, 2 slots, kills with what they cancel, half-done wipes, 1 late upsert | `RegisteredWasSigned` |
| `local_store` | 2 processes, 2 files, 1 content, 2 commits; 2 savers, 2 indexes, 3 inodes, kills, a full disk, wipes | `NoEmptyCommit`, `PruneRepairs`, `UnstagedIsCommitted`, `CommitOnlyAdvances`; `IndexWhole`: without overlapping saves no load fails; `SaveIsAtomic`: the index changes all at once |
| `remote_files` | 2 devices (one without a keychain), 2 keys, 2 files, 1 content, 1 bucket or the server, 1 commit, every fault | `RemoteTypeOK`, `KeysAgree`, `Portable`, `CommitHasObjects`, `WritesPrefix`, `EventuallySynced` |
| `request_gate` | 2 requests at once, 1 signed message, 2 keys, clock up to 4, restarts, a bucket dropped before it is full | `GateTypeOK`, `KnownInTime`, `ServedOnce`, `RetryAfterHolds`, `BoundedRate` |
| `client` | 2 commands; 3 callbacks, 2 codes; 2 terminals, 3 ids; a tree of 6 directories with two .gitignore files of up to 2 of 5 patterns | `ClientTypeOK`; `StoredIsLatest`, `SessionUsable`; `AcceptsFirst`, `LoginFinishes`; `SecretNamed`; `FindsEnvFiles` |
| `push_retry_conflict` | clients that leave, no other fault | violation: `RetryReturnsCommit` |
| `push_rate_limited` | the code's 5 attempts, 429s | violation: `PushedIsStored` |
| `binding_key_change` | 2 processes, no fault | violation: `KeyNeverChanges` |

**Why the bounds are enough to be interesting.** Two slots let a retry meet its predecessor,
which is the only way a key is contended; the theorems of section 4 cover any number of them.
Two bodies tell a retry after an edit from its predecessor; two projects tell the keys of one
commit apart. One late call at a time is left behind by one request and runs while another is at any step;
`push_live` has two, so that an insert and a delete, or a store and a settle, can come late in either order. In `push_pipeline` the two commits share a root and one
has two roots, so a commit can be half pushed when the process dies; two attempts
exercise both "try again" and "give up". In `push_live` one process suffices for two requests with one key: a killed
or timed-out push is run again while its predecessor's request is still with the server. `push_live` and `binding_alone` check
liveness and use no symmetry. Two ids and keys allow one wipe and a
second life of the computer, in which late writes of the first one arrive. In
`local_store` one content suffices since no property compares contents except
by presence and equality with the staged entry; two files distinguish partial
from complete pruning, two commits let prune and push visit one while the other waits. Of its two savers
one loads while the other saves, or finds what it itself left when it was killed; three inodes are more than can be in use.

In `remote_files` a second key lets overlapping creations
disagree (`KeysAgree` without its `contested` fails), two files are a prefix and a rest, and
one commit suffices because every property is about a commit by itself or the last one; the contents a file can have are one
value, its absence and a torn file. In `request_gate` Throttle and FetchTime
fit into the clock with a fetch before and after, a nonce can expire within it, and a bucket of 6 credits for tokens of 3, filling
by 2 and dropped after more than 1 idle unit of time, makes fractions, caps, and drops that give credits away happen (`Gift` is 2, and
with less `BoundedRate` fails); the message that
arrives again is the same one. In `client` three callbacks are one that wins, one that loses and one with the
wrong state; three ids are the one in storage.json, the one being set up and a stale one; the patterns are of each kind, excluding and taking back.

**Faults.** `PushServer` and `DeviceBinding` take a set of failure kinds as a
constant. `push_server` and `push_live` have them all. `push_pipeline` leaves out single failing calls, for the size of its two commits:
to the CLI they are an answer "failed", which requests turned away give too, and `PushedIsStoredAlways` covers them.
`binding_race` leaves out failures that a kill also causes (a cancelled request fails at the gate or at the upsert) and the server's crash,
for size too; `RegisteredWasSignedAlways` covers them. Only `binding_alone` leaves one out because its properties do not
hold with it, which is a fact about the code: `BindingAgrees` and
`NeverRefused` fail with a half-done wipe, and with two processes at once
(the old machine_id meets a new key and is refused with 409 until the user wipes again).

**Fairness.** `PushPipeline!FairSpec` is weakly fair to the handlers, to the
database's execution of RPCs that are waited for, and to the CLI processes, including that a
user who has pending commits runs `sentra push` again. It is not fair to failures,
edits, kills, late calls, cancelled requests or the server's crash. Go schedules goroutines and
processes fairly in this weak sense, every network call has a timeout, and after
it one of its outcome actions is taken. `EventuallyPushed` further assumes, in its antecedent, that failures end and the env
files stay; late calls may still run. It concludes that from some time on every pending commit is held up by a row that is
adrift, and so that all are pushed where there is none. The exception is real: one kill or timeout of the CLI at the wrong moment is enough
for a row that nobody ever ends (finding 1), and no amount of retrying helps. `DeviceBinding!FairSpec` is the same for its processes and slots, and
`EventuallyServed` assumes that failures, wipes and logins end; its exception is a config.json left torn, which only a wipe removes.

`RemoteFiles!FairSpec` is weakly fair to each device's running command and to its user starting a sync;
`EventuallySynced` assumes that from some time on nothing else happens. `MCClient!FairSpec`
says only that the computer does not stop: for the sessions that *some* command goes on (two commands that keep spending each other's
token can starve one of the two, so `SessionUsable` claims that somebody gets a session
again and again, not everybody), for the login that the command or a handler goes on.

Deadlock is checked in every passing run but two: `request_gate` ends where the clock's
bound is reached, and in `client` a login and a scan end.

**History variables.** `opened` (keys someone failed open on, or whose row a late delete removed), `adrift` (keys whose row nobody will
end), `gaveUp` (units
whose attempts all met 429), `signed`, `minted`, `used`, `quiet`: no guard that
models code reads them, except that fresh ids and keys are taken from outside
`minted` and `used`, as a UUID or a generated key is. The newer modules have `made` (keys, read where a new one is made),
`contested`, `overlapped`, `served`, `wait`, `taken`, `behind`, `slip`, `first` and `cut`.

## 4. Proofs

All theorems hold for any sets of slots, processes, units, bodies, ids, keys, files
and commits, any directory tree, and any `Faults`. The only assumptions are the named ones of the
modules: `None` differs from the values it stands beside, `Faults` contains known kinds, some
sets are not empty, in `RequestGate` a nonce outlives its timestamp and a bucket can hold a token
(`GateAssumption`; no relation of rate, burst and idle time is assumed), and `Tree` is a tree: a directory is a sequence of names, those on the way
to it are directories too, and `Tree` lists exactly the ones that are one name longer (`TreeAssumption`).

**PushServerProofs.** `IInv` is the type invariant with two groups. `AckedIsStored` is not inductive
by itself: an answer is copied from a row (so `DoneIsStored` is needed), or
written after the RPC ran (`RpcIsStored`: an applied RPC left its unit stored;
`SettleIsStored`: so did every request that is settling). `KeyExclusive`
needs `HolderHasRow`: whoever holds a key on which nobody failed open has its row in
progress, so no second insert succeeds; its delicate cases are `CreateFails`,
where the failed insert may have happened, and the calls left behind: a late update carries what is stored (`LateCarries`) and meets the row of
its own request as long as nobody failed open (`LateSettleAlone`). One lemma per action shows `IInv'`, split into types, storage
and keys; `NextIInv` puts them together. From `IInv` follow `TypeCorrect`,
`AckedIsStoredAlways`, `DoneIsStoredAlways`, `KeyExclusiveAlways`, and `ImplementsPushOnce`:
every step of the server is a step of `PushOnce` or changes neither the stored
units nor the answers told. A reply maps to `Tell` because `IInv` says its unit is stored, a running RPC
to `Store` or a stutter, a delivery, a client that left or a crash to `Forget`.

**PushPipelineProofs.** Each step of the pipeline is a step of the server or leaves it alone, so `IInv`
carries over. A process that waits has in its slot its own request or the answer to it (`Asked`,
`Waits`), no two wait for one slot (`Apart`), and the roots a process is through with are stored or given up
(`Through`). Together with `AckedIsStored` they
give `PushedIsStoredAlways`. `RowHasOwnerAlways` rests on the server's `IInv` alone and excludes no fault: a row begins with a request that
holds its key or with a late insert, which sets the key adrift (`OwnerBegins`); a request leaves its key by ending the row (`OwnerEnds`), or by
failing to, losing its client or dying, and then the key goes adrift (`OwnersAbandon`); and a key is taken out of
`adrift` only with its row.
`ImplementsServer` says that the pipeline implements `PushServer`, so what is proved of the server alone
holds in use, `PushOnce` with it (`ImplementsPushOnceInUse`).

Two promises of the documentation are refuted by a run. `PushedIsStoredUnlimited` proves the first for the failures that leave it true: with every fault but requests turned away, a commit marked pushed is stored, since
nobody gives a root up before a 429 (`Unlimited`). `ConflictHasReasonAlways` restates the second so that it holds whatever fails:
a request that reads its row is answered 409 only if the row is gone by now, another request holds the key, or the key is adrift.
Only `Conflict` answers 409 (`AnswersConflict`), the row it saw in progress has an owner by `RowHasOwner`, and that is another request, since
one that still reads the row holds nothing.

**DeviceBindingProofs.** `SignedInv` adds to the types that a process has read
its id and key before it uses them (`LocalsRead`), and that a registration the server is
working on, or one left to run late, carries a key that signed for its machine
(`Backed`). It gives `BindingTypeCorrect` and `RegisteredWasSignedAlways` for any number of racing processes.
Torn and crossing writes of config.json are among the steps of all these proofs. What a race breaks is proved for `Alone` (one process at a time, no wipe stopped half-way), with any
other fault and requests that outlive their process: `OneKeyEach` says that a machine_id is signed for
with one key only, the keychain's while config.json has that id, so an upsert never changes a row
(`KeyNeverChangesAlone`); an unreadable config.json has no id. A save under way writes an id
for which no other key signed, whatever the file holds meanwhile (the "save" case of `LocalsAgree`). `LocalsAgree` and `Carried` follow id and key through the process and its request, which gives
`BindingAgreesAlone` and `NeverRefusedAlone`.

**LocalStoreProofs.** `NoEmptyCommit` is not inductive alone since push and prune write back
commits from memory; `ListsFull` says a command has only listed commits with
files and writes back only those. It gives `LocalTypeCorrect` and `NoEmptyCommitAlways`. `QuietInv` says what a command
knows while nobody outdates its copies (`Current`), the one that waits for the scan root included (`RootKeeps`): a step of another command leaves it so or takes that command out of `quiet`. It gives
`PruneRepairsAlways`, `UnstagedIsCommittedAlways` and `CommitOnlyAdvancesAlways`.

At the end, about `IndexFile`: while no saves overlapped, `Calm` says that only the command that saves has the
inode of the temporary file, which is neither live nor read, and what it has written there. It gives
`IndexWholeAlways` and `SaveIsAtomicAlways`; `FileTypeCorrect` holds with overlaps too.

**RemoteFilesProofs.** First `VaultKey` by itself: `KeysAgree` needs `OneCreation` (while nothing is contested at most one
device creates a key or has an upload on its way, and no envelope is there yet but that key) and
`Agreed` (every key held is that of the envelope), which gives `KeysAgreeAlways`. Then
`ImplementsVaultKey`: each step of push, sync and export is a step of `VaultKey` or does not concern
the key; by it `KeysAgreeInUse` carries over instead of being proved again. `Prepared` says that a
push has uploaded, under the key it holds, each file it is done with, and `AllSound` that stored, late and
built commits have their objects: so `CommitHasObjectsAlways`. `OneKey` adds under which key, for `PortableAlways`.

**RequestGateProofs.** `ServedOnce` needs `Remembered`: the nonce of a served request is remembered until
its timestamp is too old, the arithmetic being `TTL > Early + Window`. `KnownInTime` needs `KeysFresh` and `GotFresh`:
the keys at hand, and a key set on its way, hold every key published for so long at the time of their fetch.
`RetryAfterHolds` needs `Promised`, which follows the bucket to the time of the promise.
`BoundedRate` compares two moments of the past and needs `Accounted`, which compares each of them with the last use of the bucket: what was
taken since then and what the bucket holds are together within the bound of that span, a full bucket, what
was gained, and `Gift` for every idle time that fits into it. Dropping an idle bucket gives at most a full one in place of what
`Idle + 1` would have gained, which is what `Gift` makes up for (`DropIsWithin`; `GainIsWithin` is the case without a drop). So
`BoundedRateAlways` holds for every rate; where a bucket refills before it is dropped, as with the defaults, `Gift` is 0. `taken` is cumulative
(tokens taken by time t), so that the tokens of a span are a difference and not a sum over a set.

**ScannerProofs.** The provers cannot use a rule of induction over a predicate, but induction over a *set* of numbers
(`LeastNatural`, `Induction`: from the least number outside the set) is enough to follow a fold from
one position of its list to the next (`FoldsAgree`). So `JudgeIs` shows what the loop over the patterns of one `.gitignore`
computes (the last that matches decides), and `IsIgnoredIs` the same of the loop over the stack of files.
The types say which files those are, in which order: the ones on the way from the repository (`ForceIs`). Together this is `ExcludedIs`:
the stack leaves out just the directories that the definition without a walk excludes. For the walk itself the invariant is that nothing is
forgotten: each outermost repository is found or below a directory in some frame's list (`RootsInv`), and
each directory to be searched in a repository already taken is done with or below one that is listed (`FilesInv`); `RestIs`, `PushIs` and `PopIs` say what the
three changes of the stack of frames do to that. It gives `ScanTypeCorrect` and `FindsEnvFilesAlways`, for any tree, names and patterns.

**ClientProofs.** `OnlyFirst` (only the callback that did cbOnce ever sends a code) gives
`AcceptsFirstAlways`. `Alone`, `HasSecret` and `SameId` (an id is in one command's hands or in
storage.json, and its secret stays until that one deletes it) give `SecretNamedAlways`. `Current` (a
command that nobody overtook holds a session of the latest login, or has found an empty keychain that is
still empty) gives `StoredIsLatestAlways`, which says nothing once a stale copy slipped through (`slip`: a migration or a refresh that saved over
a newer login, a login saved to the file behind an older entry of the keychain, a wipe cut short). `PartsBehave` says that in `MCClient` each part behaves as its own
specification says, since a step of one leaves the variables of the others alone, so `ClientTypeCorrect` and `ClientSafe`
carry over from the parts.

**Only model-checked:** the liveness properties (fairness and ENABLED are out of
the prover's reach). Every invariant and every action property that a passing run checks
is a theorem.

## 5. Where code and documents disagree

1. contracts/push.schema.json:55 has the server "return the existing commit on
   retries". SetDone and Delete use `r.Context()` (push.go:112, 124) and their errors are dropped, so a CLI that is killed
   or times out while its request is being handled is enough for a row that stays in progress, as is a crash of the server or a late
   insert. Every retry of the commit, stored or not, is then answered 409. Nothing expires the row, so the commit, and
   every commit behind it, is never marked pushed.
2. cli/README.md:105: `sentra push` "Pushes local commits to the remote." After five 429s the
   attempt loop ends without an error, and the commit is marked pushed
   although the server never took it (push.go:189-271).
3. machines.go:99: "do not allow changing the stored device key." Lookup and
   merging upsert are two calls, and two first registrations of one machine with
   two keys both pass the lookup; the second replaces the key of the first.

Met while modelling, and not about a property some run checks:

- SECURITY.md:94: "Legacy on-disk session material is removed after successful
  migration." `LoadSession` (session.go:139-142) copies the session of the file
  to the keychain and leaves the file. The model follows the code.
- A config.json that a kill left empty, or that two saves left torn, makes every
  command that needs it fail with "invalid config file" (config.go:69-71); only
  deleting it, as `wipe` does, helps.
- SECURITY.md:136 describes the file as the fallback when the keychain is unavailable, but
  `LoadSession` (session.go:96-103) returns the keychain's error before it looks at the file. Where the
  keychain refuses only writes, an older entry in it hides the newer session in the file
  (`slip` in `Session`).
- cli/README.md:72 has `wipe` clear the "relevant keychain entries"; the vault key's items and storage secrets no
  longer named by storage.json stay.
- storage/s3.go:44 says BYOS is active "if storage.json exists"; push decides by
  config.json's storage mode (push.go:143-166).
- Any error of `EnsureSession`, a failed connection too, leads to a login, and the 15 seconds of
  remote_auth.go:27 also cover the load after it. A callback with the wrong state ends the login; one that comes
  second is answered 409 with the page of a success (login.go:128); the code is decoded twice (login.go:204).
- After two overlapping saves index.json may be torn, and then `add` and `commit`, which
  load it first, fail until it is deleted (index.go:34).
- `storage reset` fails on a truncated storage.json, `storage setup` repairs it.
- SENTRA_PUSH_BURST below 1 is accepted, and then every push is answered 429 (rate_limit.go:115); a
  rate so low that a bucket is dropped before it is full refills it early.
- A key the issuer withdrew stays valid until some unknown key causes a fetch.
- scanner.go:189 does not list `.env.local.local`, which is accepted; scanner.go:139 says env files are always
  detected, which ignored directories are not searched for; ignore.go:44 takes an escaped `!` for a negation.

## 6. Not modelled, and what is left

Not modelled: the terminal interface, read-only commands and
endpoints (no state changes), cryptography and key derivation (values are opaque),
the router, health and configuration (stateless), `cli/internal/state` (unused).
Modelled in part: sync and export (no choice between projects, no skipped directories, no `--out`, no legacy cipher),
BYOS (credentials' sources), the payload schema (its verdict only).

Left: the parsing of patterns, with `**`; and what `LocalStore` would do with an index or commit file torn by two
overlapping saves, beyond refusing to load it.

------------------------------ MODULE VaultKey ------------------------------
(***************************************************************************)
(* The vault key of one user on several devices (cli/vault_key.go,         *)
(* httpapi/vault_key.go, repo/vault_keys.go).                              *)
(*                                                                         *)
(* The server keeps the key wrapped in a passphrase, one envelope per      *)
(* user, and each device keeps the key itself in its keychain.  A command  *)
(* that needs the key reads the keychain, else asks for the envelope and   *)
(* unwraps it; told that there is none, it makes a key and uploads it with *)
(* an upsert that does not ask again whether there is one by now.          *)
(***************************************************************************)
CONSTANTS Device,  \* devices of the user, each runs one command at a time
          Key,     \* the keys rand.Read can return
          None,    \* no key, no envelope
          NoKeychain, \* devices whose keychain saves nothing
          Faults   \* the kinds of failure the environment can produce

\* "vault": a request to /vault/key fails or times out; "passphrase": the
\* prompt fails, or the passphrase is wrong; "kill": the command is killed.
ASSUME VaultAssumption == None \notin Key /\ NoKeychain \subseteq Device

VARIABLES step,      \* step[d]: where the command of device d is in ensureVaultKey
          vk,        \* vk[d]: the key it has in memory, or the one in the envelope it got
          keychain,  \* keychain[d]: the item vault-key:<user> of device d
          envelope,  \* the key wrapped in vault_keys.doc of the user
          latePut,   \* uploads nobody waits for that the database may run
          made,      \* history: keys made so far
          contested  \* history: two creations of a key overlapped

vaultVars == <<step, vk, keychain, envelope, latePut, made, contested>>

VaultTypeOK ==
  /\ step \in [Device -> {"none", "fetch", "create", "put", "unlock", "ready"}]
  /\ vk \in [Device -> Key \cup {None}]
  /\ keychain \in [Device -> Key \cup {None}]
  /\ envelope \in Key \cup {None}
  /\ latePut \subseteq Key
  /\ made \subseteq Key
  /\ contested \in BOOLEAN

VaultInit == /\ step = [d \in Device |-> "none"]
             /\ vk = [d \in Device |-> None]
             /\ keychain = [d \in Device |-> None]
             /\ envelope = None
             /\ latePut = {}
             /\ made = {}
             /\ contested = FALSE

-----------------------------------------------------------------------------
Hold(d, s, k) == /\ step' = [step EXCEPT ![d] = s]
                 /\ vk' = [vk EXCEPT ![d] = k]

\* The command has no use for the key any more: it is over.
ForgetKey(d) == Hold(d, "none", None)

\* A key is being created by d, or an upload of an earlier one is on its way.
Creating(d) == step[d] \in {"create", "put"}

\* getVaultKeyFromKeychain
Look(d) ==
  /\ step[d] = "none"
  /\ IF keychain[d] # None THEN Hold(d, "ready", keychain[d]) ELSE Hold(d, "fetch", None)
  /\ UNCHANGED <<keychain, envelope, latePut, made, contested>>

\* GET /vault/key answers 404 ...
FetchAny(d) ==
  /\ step[d] = "fetch"
  /\ Hold(d, "create", None)
  /\ contested' = (contested \/ latePut # {} \/ \E e \in Device : Creating(e))
  /\ UNCHANGED <<keychain, envelope, latePut, made>>
FetchNone(d) ==
  /\ step[d] = "fetch"
  /\ envelope = None
  /\ Hold(d, "create", None)
  /\ contested' = (contested \/ latePut # {} \/ \E e \in Device : Creating(e))
  /\ UNCHANGED <<keychain, envelope, latePut, made>>

\* ... or the envelope.
FetchSome(d) ==
  /\ step[d] = "fetch"
  /\ envelope # None
  /\ Hold(d, "unlock", envelope)
  /\ UNCHANGED <<keychain, envelope, latePut, made, contested>>

\* The next random key: keys differ only in being different.
Fresh == CHOOSE k \in Key : k \notin made

\* First device: the user chooses a passphrase, and a random key is wrapped.
SaveEarly(d) ==
  /\ step[d] = "create"
  /\ Key # made
  /\ Hold(d, "put", Fresh)
  /\ made' = made \cup {Fresh}
  /\ keychain' = [keychain EXCEPT ![d] = Fresh]
  /\ UNCHANGED <<envelope, latePut, contested>>
Create(d) ==
  /\ step[d] = "create"
  /\ Key # made
  /\ Hold(d, "put", Fresh)
  /\ made' = made \cup {Fresh}
  /\ UNCHANGED <<keychain, envelope, latePut, contested>>

\* saveVaultKeyToKeychain ignores that it fails.
SaveToKeychain(d, k) ==
  keychain' = IF d \in NoKeychain THEN keychain ELSE [keychain EXCEPT ![d] = k]

\* PUT /vault/key goes through.
Put(d) ==
  /\ step[d] = "put"
  /\ envelope' = vk[d]
  /\ SaveToKeychain(d, vk[d])
  /\ Hold(d, "ready", vk[d])
  /\ UNCHANGED <<latePut, made, contested>>

\* The key comes out of the envelope.
Unlock(d) ==
  /\ step[d] = "unlock"
  /\ SaveToKeychain(d, vk[d])
  /\ Hold(d, "ready", vk[d])
  /\ UNCHANGED <<envelope, latePut, made, contested>>

\* A command that fails or is killed may leave its upload on the way.
LeavesUpload(d) ==
  /\ \/ UNCHANGED latePut
     \/ step[d] = "put" /\ latePut' = latePut \cup {vk[d]}
  /\ UNCHANGED <<keychain, envelope, made, contested>>

\* ensureVaultKey returns an error.
VaultFails(d) ==
  /\ \/ step[d] \in {"fetch", "put"} /\ "vault" \in Faults
     \/ step[d] \in {"create", "unlock"} /\ "passphrase" \in Faults
  /\ ForgetKey(d)
  /\ LeavesUpload(d)

\* The database runs an upload nobody waits for.
LatePut(k) ==
  /\ k \in latePut
  /\ envelope' = k
  /\ latePut' = latePut \ {k}
  /\ UNCHANGED <<step, vk, keychain, made, contested>>

EnsureVaultKey(d) == \/ FetchNone(d) \/ FetchSome(d) \/ Create(d) \/ Put(d) \/ Unlock(d)

\* The command is over, or is killed.
Leave(d) ==
  /\ step[d] # "none"
  /\ ForgetKey(d)
  /\ \/ step[d] = "ready" /\ UNCHANGED <<keychain, envelope, latePut, made, contested>>
     \/ LeavesUpload(d)

VaultNext == \/ \E d \in Device : Look(d) \/ EnsureVaultKey(d) \/ VaultFails(d) \/ Leave(d)
             \/ \E k \in Key : LatePut(k)

VaultSpec == VaultInit /\ [][VaultNext]_vaultVars

-----------------------------------------------------------------------------
\* "It is portable across machines" (vault_key.go:149): unless two creations
\* overlapped, every device holds the key of the envelope, whatever timed out,
\* failed or was killed on the way.
KeysAgree ==
  ~contested => \A d \in Device : /\ keychain[d] \in {None, envelope}
                                  /\ step[d] = "ready" => vk[d] = envelope
=============================================================================

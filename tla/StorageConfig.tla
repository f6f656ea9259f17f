-------------------------- MODULE StorageConfig ---------------------------
(***************************************************************************)
(* The configuration of the user's own storage (BYOS): storage.json and    *)
(* the secrets in the keychain that it names, under `sentra storage setup` *)
(* and `reset`, `sentra wipe` and the storage choice of `sentra login` in  *)
(* several terminals (cli/storage.go, cli/login.go:261-307,                *)
(* storage/config.go, storage/secrets.go).                                 *)
(***************************************************************************)
CONSTANTS Terminal,
          Id,       \* ids of configurations
          NoConf,   \* there is no storage.json
          Torn,     \* it was truncated and not yet written
          Mishaps   \* "keychain", "kill": what can fail

\* A configuration needs no secret (profile, environment), has it in the
\* keychain or, if the keychain refuses it, in itself.
Config == [id : Id, secret : {"none", "keyring", "file"}]

ASSUME StorageAssumption == NoConf \notin Config /\ Torn \notin Config \cup {NoConf}

VARIABLES conf,     \* storage.json
          secrets,  \* the ids of the items "storage:<id>" of the keychain
          keychain, \* does the keychain work?
          doing,    \* doing[t]: the next step of the command of terminal t
          held,     \* held[t]: the configuration it has in memory
          wiping,   \* the terminals whose command is `sentra wipe`
          cut       \* history: a deletion was cut short

storageVars == <<conf, secrets, keychain, doing, held, wiping, cut>>

StorageTypeOK ==
  /\ conf \in Config \cup {NoConf, Torn}
  /\ secrets \subseteq Id
  /\ keychain \in BOOLEAN
  /\ doing \in [Terminal -> {"idle", "secret", "test", "truncate", "write",
                             "load", "erase", "remove", "removeAll"}]
  /\ held \in [Terminal -> Config \cup {NoConf}]
  /\ \A t \in Terminal : /\ doing[t] \in {"secret", "test", "truncate", "write"} => held[t] # NoConf
                         /\ doing[t] \in {"idle", "load", "removeAll"} => held[t] = NoConf
  /\ wiping \subseteq Terminal
  /\ cut \in BOOLEAN

StorageInit == /\ conf = NoConf
               /\ secrets = {}
               /\ keychain = TRUE
               /\ doing = [t \in Terminal |-> "idle"]
               /\ held = [t \in Terminal |-> NoConf]
               /\ wiping = {}
               /\ cut = FALSE

-----------------------------------------------------------------------------
\* Terminal t goes on to step d with configuration c.
Does(t, d, c) == doing' = [doing EXCEPT ![t] = d] /\ held' = [held EXCEPT ![t] = c]
Ends(t) == Does(t, "idle", NoConf) /\ wiping' = wiping \ {t}

InUse == (IF conf \in Config THEN {conf.id} ELSE {})
         \cup {held[t].id : t \in {u \in Terminal : held[u] # NoConf}}

(* Setup, which `sentra login` runs too.  Ids are new ones (uuid).          *)
StartSetup(t) ==
  /\ doing[t] = "idle"
  /\ \E i \in Id \ (InUse \cup secrets), d \in {"secret", "test"} :
       Does(t, d, [id |-> i, secret |-> "none"])
  /\ UNCHANGED <<conf, secrets, keychain, wiping, cut>>

\* Mutant: the answer of the keychain is ignored.
SaveSecretUnchecked(t) ==
  /\ doing[t] = "secret"
  /\ Does(t, "test", [held[t] EXCEPT !.secret = "keyring"])
  /\ secrets' = IF keychain THEN secrets \cup {held[t].id} ELSE secrets
  /\ UNCHANGED <<conf, keychain, wiping, cut>>
SaveSecret(t) ==
  /\ doing[t] = "secret"
  /\ Does(t, "test", [held[t] EXCEPT !.secret = IF keychain THEN "keyring" ELSE "file"])
  /\ secrets' = IF keychain THEN secrets \cup {held[t].id} ELSE secrets
  /\ UNCHANGED <<conf, keychain, wiping, cut>>

\* The connection is tested with the secret as it was saved, or not tested.
TestPasses(t) ==
  /\ doing[t] = "test"
  /\ Does(t, "truncate", held[t])
  /\ UNCHANGED <<conf, secrets, keychain, wiping, cut>>

TestFails(t) ==
  /\ doing[t] = "test"
  /\ Ends(t)
  /\ UNCHANGED <<conf, secrets, keychain, cut>>

\* SaveConfig: os.WriteFile truncates the file and then writes it.
Truncate(t) ==
  /\ doing[t] = "truncate"
  /\ conf' = Torn
  /\ Does(t, "write", held[t])
  /\ UNCHANGED <<secrets, keychain, wiping, cut>>

Write(t) ==
  /\ doing[t] = "write"
  /\ conf' = held[t]
  /\ Ends(t)
  /\ UNCHANGED <<secrets, keychain, cut>>

-----------------------------------------------------------------------------
(* DeleteConfig: for `storage reset`, for the hosted choice of a login, and *)
(* as the first part of `sentra wipe`, which goes on when it fails.         *)
StartReset(t) ==
  /\ doing[t] = "idle"
  /\ Does(t, "load", NoConf)
  /\ wiping' \in {wiping, wiping \cup {t}}
  /\ UNCHANGED <<conf, secrets, keychain, cut>>

Afterwards(t) == IF t \in wiping THEN Does(t, "removeAll", NoConf) /\ UNCHANGED wiping
                                 ELSE Ends(t)

LoadConfig(t) ==
  /\ doing[t] = "load"
  /\ CASE conf = Torn -> Afterwards(t)
       [] conf = NoConf \/ (conf \in Config /\ conf.secret # "keyring")
            -> Does(t, "remove", NoConf) /\ UNCHANGED wiping
       [] OTHER -> Does(t, "erase", conf) /\ UNCHANGED wiping
  /\ UNCHANGED <<conf, secrets, keychain, cut>>

\* A secret that the keychain does not delete stays there.
DeleteSecret(t) ==
  /\ doing[t] = "erase"
  /\ secrets' = IF keychain THEN secrets \ {held[t].id} ELSE secrets
  /\ Does(t, "remove", held[t])
  /\ UNCHANGED <<conf, keychain, wiping, cut>>

RemoveConfig(t) ==
  /\ doing[t] = "remove"
  /\ conf' = NoConf
  /\ Afterwards(t)
  /\ UNCHANGED <<secrets, keychain, cut>>

RemoveAll(t) ==
  /\ doing[t] = "removeAll"
  /\ conf' = NoConf
  /\ Ends(t)
  /\ UNCHANGED <<secrets, keychain, cut>>

-----------------------------------------------------------------------------
KeychainTurns ==
  /\ "keychain" \in Mishaps
  /\ keychain' = ~keychain
  /\ UNCHANGED <<conf, secrets, doing, held, wiping, cut>>

KillStorage(t) ==
  /\ "kill" \in Mishaps
  /\ doing[t] # "idle"
  /\ Ends(t)
  /\ cut' = (cut \/ (doing[t] = "remove" /\ held[t] # NoConf))
  /\ UNCHANGED <<conf, secrets, keychain>>

StorageNext ==
  \/ \E t \in Terminal : \/ StartSetup(t) \/ SaveSecret(t) \/ TestPasses(t) \/ TestFails(t)
                         \/ Truncate(t) \/ Write(t)
                         \/ StartReset(t) \/ LoadConfig(t) \/ DeleteSecret(t)
                         \/ RemoveConfig(t) \/ RemoveAll(t) \/ KillStorage(t)
  \/ KeychainTurns

StorageSpec == StorageInit /\ [][StorageNext]_storageVars

-----------------------------------------------------------------------------
\* What storage.json names in the keychain is there (ResolveS3 finds it,
\* storage/s3.go:119-125), but while it is being deleted, or after a deletion
\* that was cut short.
SecretNamed ==
  conf \in Config /\ conf.secret = "keyring" /\ conf.id \notin secrets
    => cut \/ \E t \in Terminal : doing[t] = "remove" /\ held[t] = conf
=============================================================================

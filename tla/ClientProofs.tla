---------------------------- MODULE ClientProofs ----------------------------
(***************************************************************************)
(* Proofs about the callback server of a login, the storage configuration  *)
(* and the session, for any number of callbacks, terminals and commands;   *)
(* and that what holds of each part of the CLI holds of the parts together.*)
(***************************************************************************)
EXTENDS MCClient, ScannerProofs

(***************************************************************************)
(* LoginServer.  AcceptsFirst needs OnlyFirst: whoever is past cbOnce is   *)
(* the callback that did it, and what is in codeCh is its code.            *)
(***************************************************************************)
OnlyFirst ==
  /\ cbOnce <=> first # NoCode
  /\ first # NoCode => handler[first] # "none"
  /\ \A c \in Callback : handler[c] \in {"accepted", "close"} => c = first
  /\ codeCh # NoCode => first # NoCode /\ codeCh = request[first].code
  /\ waiting \in {"gotCode", "exchange", "session"} => authCode # NoCode

LoginInv == LoginTypeOK /\ OnlyFirst /\ AcceptsFirst

LEMMA InitLogin == LoginInit => LoginInv
BY LoginAssumption
   DEF LoginInit, LoginInv, LoginTypeOK, OnlyFirst, AcceptsFirst, Failure

LEMMA ArriveStep ==
  ASSUME LoginInv, NEW c \in Callback, Arrive(c)
  PROVE  LoginInv'
<1>1. PICK r \in Request : request' = [request EXCEPT ![c] = r]
  BY DEF Arrive
<1>2. LoginTypeOK'
  BY <1>1 DEF Arrive, Goes, LoginInv, LoginTypeOK
<1>3. \A d \in Callback \ {c} : request'[d] = request[d] /\ handler'[d] = handler[d]
  BY <1>1 DEF Arrive, Goes, LoginInv, LoginTypeOK
<1>4. first # c
  BY LoginAssumption DEF Arrive, LoginInv, OnlyFirst
<1> QED BY <1>2, <1>3, <1>4, LoginAssumption
        DEF Arrive, Goes, LoginInv, LoginTypeOK, OnlyFirst, AcceptsFirst

LEMMA HandleStep ==
  ASSUME LoginInv, NEW c \in Callback, Handle(c)
  PROVE  LoginInv'
<1> USE LoginAssumption
    DEF Goes, Send, Fresh, Failure, LoginInv, LoginTypeOK, OnlyFirst, AcceptsFirst
<1>1. CASE BadState(c) BY <1>1 DEF BadState
<1>2. CASE Accept(c) BY <1>2 DEF Accept
<1>3. CASE Conflict(c) BY <1>3 DEF Conflict
<1>4. CASE OAuthError(c) BY <1>4 DEF OAuthError
<1>5. CASE GotCode(c)
  <2>1. request[c].code \in Code BY <1>5 DEF GotCode, Request
  <2> QED BY <1>5, <2>1 DEF GotCode
<1>6. CASE CloseListener(c) BY <1>6 DEF CloseListener
<1> QED BY <1>1, <1>2, <1>3, <1>4, <1>5, <1>6 DEF Handle

LEMMA MainStep ==
  ASSUME LoginInv, Main \/ ServeFails
  PROVE  LoginInv'
<1> USE LoginAssumption
    DEF Send, Failure, LoginInv, LoginTypeOK, OnlyFirst, AcceptsFirst
<1>1. CASE TakeCode BY <1>1 DEF TakeCode
<1>2. CASE TakeError BY <1>2 DEF TakeError
<1>3. CASE TimedOut BY <1>3 DEF TimedOut
<1>4. CASE Shutdown BY <1>4 DEF Shutdown
<1>5. CASE ExchangePKCE BY <1>5 DEF ExchangePKCE
<1>6. CASE ServeFails BY <1>6 DEF ServeFails
<1> QED BY <1>1, <1>2, <1>3, <1>4, <1>5, <1>6 DEF Main

LEMMA LoginInvAlways == LoginSpec => []LoginInv
<1>1. LoginInv /\ LoginNext => LoginInv'
  BY ArriveStep, HandleStep, MainStep DEF LoginNext
<1>2. LoginInv /\ UNCHANGED loginVars => LoginInv'
  BY DEF LoginInv, LoginTypeOK, OnlyFirst, AcceptsFirst, loginVars
<1> QED BY InitLogin, <1>1, <1>2, PTL DEF LoginSpec

\* The state of a login has its types, and it never exchanges a code it has not got.
THEOREM LoginTypeCorrect == LoginSpec => []LoginTypeOK
<1>1. LoginInv => LoginTypeOK BY DEF LoginInv
<1> QED BY <1>1, LoginInvAlways, PTL

\* The code exchanged is that of the first callback with the right state, for
\* any number of callbacks at once (login.go:120-128).
THEOREM AcceptsFirstAlways == LoginSpec => []AcceptsFirst
<1>1. LoginInv => AcceptsFirst BY DEF LoginInv
<1> QED BY <1>1, LoginInvAlways, PTL

(***************************************************************************)
(* StorageConfig.  SecretNamed needs that a setup is alone with its id     *)
(* until it has written it (Alone), that its secret is in the keychain     *)
(* before it writes (HasSecret), and that who deletes a configuration and  *)
(* finds its id in the file finds the configuration (SameId).              *)
(***************************************************************************)
SettingUp(t) == doing[t] \in {"secret", "test", "truncate", "write"}

Alone ==
  \A t \in Terminal : SettingUp(t) =>
    /\ conf \in Config => conf.id # held[t].id
    /\ \A u \in Terminal \ {t} : held[u] # NoConf => held[u].id # held[t].id
HasSecret ==
  \A t \in Terminal : SettingUp(t) /\ held[t].secret = "keyring" => held[t].id \in secrets
SameId ==
  \A t \in Terminal : /\ ~SettingUp(t) /\ held[t] # NoConf /\ conf \in Config /\ conf.id = held[t].id
                           => conf = held[t]
                      /\ doing[t] = "erase" => held[t] # NoConf
                      /\ doing[t] = "secret" => held[t].secret = "none"

StorageInv == StorageTypeOK /\ Alone /\ HasSecret /\ SameId /\ SecretNamed

LEMMA InitStorage == StorageInit => StorageInv
BY StorageAssumption
   DEF StorageInit, StorageInv, StorageTypeOK, Alone, HasSecret, SameId, SecretNamed, SettingUp

LEMMA SetupSteps ==
  ASSUME StorageInv, NEW t \in Terminal,
         StartSetup(t) \/ SaveSecret(t) \/ TestPasses(t) \/ TestFails(t) \/ Truncate(t) \/ Write(t)
  PROVE  StorageInv'
<1> USE StorageAssumption
    DEF Does, Ends, StorageInv, StorageTypeOK, Alone, HasSecret, SameId, SecretNamed, SettingUp
<1>1. CASE StartSetup(t)
  <2>1. PICK i \in Id \ (InUse \cup secrets), d \in {"secret", "test"} :
          Does(t, d, [id |-> i, secret |-> "none"])
    BY <1>1 DEF StartSetup
  <2>2. /\ conf \in Config => conf.id # i
        /\ \A u \in Terminal : held[u] # NoConf => held[u].id # i
    BY <2>1 DEF InUse
  <2> QED BY <1>1, <2>1, <2>2 DEF StartSetup, Config
<1>2. CASE SaveSecret(t) BY <1>2 DEF SaveSecret, Config
<1>3. CASE TestPasses(t) BY <1>3 DEF TestPasses
<1>4. CASE TestFails(t) BY <1>4 DEF TestFails
<1>5. CASE Truncate(t) BY <1>5 DEF Truncate
<1>6. CASE Write(t) BY <1>6 DEF Write
<1> QED BY <1>1, <1>2, <1>3, <1>4, <1>5, <1>6

LEMMA DeleteSteps ==
  ASSUME StorageInv, NEW t \in Terminal,
         StartReset(t) \/ LoadConfig(t) \/ DeleteSecret(t) \/ RemoveConfig(t) \/ RemoveAll(t)
  PROVE  StorageInv'
<1> USE StorageAssumption
    DEF Does, Ends, Afterwards, StorageInv, StorageTypeOK, Alone, HasSecret, SameId, SecretNamed,
        SettingUp
<1>1. CASE StartReset(t) BY <1>1 DEF StartReset
<1>2. CASE LoadConfig(t) BY <1>2 DEF LoadConfig
<1>3. CASE DeleteSecret(t) BY <1>3 DEF DeleteSecret
<1>4. CASE RemoveConfig(t) BY <1>4 DEF RemoveConfig
<1>5. CASE RemoveAll(t) BY <1>5 DEF RemoveAll
<1> QED BY <1>1, <1>2, <1>3, <1>4, <1>5

LEMMA StorageFaults ==
  ASSUME StorageInv, KeychainTurns \/ \E t \in Terminal : KillStorage(t)
  PROVE  StorageInv'
<1> USE StorageAssumption
    DEF Does, Ends, StorageInv, StorageTypeOK, Alone, HasSecret, SameId, SecretNamed, SettingUp
<1>1. CASE KeychainTurns BY <1>1 DEF KeychainTurns
<1>2. ASSUME NEW t \in Terminal, KillStorage(t) PROVE StorageInv'
  <2>1. StorageTypeOK' BY <1>2 DEF KillStorage
  <2>2. Alone' /\ HasSecret' /\ SameId' BY <1>2 DEF KillStorage
  <2>3. SecretNamed'
    <3> SUFFICES ASSUME conf \in Config, conf.secret = "keyring", conf.id \notin secrets,
                        NEW u \in Terminal, doing[u] = "remove", held[u] = conf, ~cut'
                 PROVE  \E w \in Terminal : doing'[w] = "remove" /\ held'[w] = conf
      BY <1>2 DEF KillStorage
    <3>1. u # t
      <4>1. held[u] # NoConf OBVIOUS
      <4>2. cut' = (cut \/ (doing[t] = "remove" /\ held[t] # NoConf)) BY <1>2 DEF KillStorage
      <4> HIDE DEF StorageInv
      <4> QED BY <4>1, <4>2, Zenon
    <3> QED BY <1>2, <3>1 DEF KillStorage
  <2> QED BY <2>1, <2>2, <2>3
<1> QED BY <1>1, <1>2

LEMMA StorageInvAlways == StorageSpec => []StorageInv
<1>1. StorageInv /\ StorageNext => StorageInv'
  BY SetupSteps, DeleteSteps, StorageFaults DEF StorageNext
<1>2. StorageInv /\ UNCHANGED storageVars => StorageInv'
  BY DEF StorageInv, StorageTypeOK, Alone, HasSecret, SameId, SecretNamed, SettingUp, storageVars
<1> QED BY InitStorage, <1>1, <1>2, PTL DEF StorageSpec

\* The storage configuration, the keychain and the commands have their types.
THEOREM StorageTypeCorrect == StorageSpec => []StorageTypeOK
<1>1. StorageInv => StorageTypeOK BY DEF StorageInv
<1> QED BY <1>1, StorageInvAlways, PTL

\* storage.json never names a secret that is gone, but for a deletion under way
\* or cut short, for any number of terminals (storage/s3.go:119-125).
THEOREM SecretNamedAlways == StorageSpec => []SecretNamed
<1>1. StorageInv => SecretNamed BY DEF StorageInv
<1> QED BY <1>1, StorageInvAlways, PTL

(***************************************************************************)
(* Session.  StoredIsLatest needs Current: a command that is not behind    *)
(* has in memory a session of the latest login, or has found no entry in   *)
(* the keychain and there is still none.                                   *)
(***************************************************************************)
Current ==
  ~slip => \A p \in Proc : p \notin behind =>
    /\ at[p] \in {"migrate", "check", "save"} => cur[p].latest
    /\ at[p] \in {"file", "wipe"} => stored = None

SessionInv == SessionTypeOK /\ StoredIsLatest /\ Current

LEMMA InitSession == SessionInit => SessionInv
BY SessionAssumption
   DEF SessionInit, SessionInv, SessionTypeOK, StoredIsLatest, Current, OfLatest

\* Marking sessions as spent, or as those of an older login.
LEMMA SpentSession ==
  ASSUME NEW s \in Session
  PROVE  Spent(s) \in Session /\ Spent(s).latest = s.latest /\ Spent(s) # None
BY SessionAssumption DEF Spent, Session

LEMMA CopyOf ==
  ASSUME NEW s \in Session, NEW t \in Session \cup {None}, NEW x \in Copies(s, t)
  PROVE  /\ x \in Session \cup {None}
         /\ x = None <=> t = None
         /\ t # None => x.latest = t.latest
<1>1. CASE t = s BY <1>1, SpentSession, SessionAssumption DEF Copies
<1>2. CASE t # s BY <1>2 DEF Copies
<1> QED BY <1>1, <1>2

LEMMA OlderSession ==
  ASSUME NEW t \in Session \cup {None}
  PROVE  Older(t) \in Session \cup {None} /\ (Older(t) = None <=> t = None)
BY SessionAssumption DEF Older, Session

LEMMA CopyOfFile ==
  ASSUME SessionTypeOK, NEW s \in Session, NEW f \in CopiesInFile(s)
  PROVE  /\ f = None \/ f \in [s : Session, key : {"ring", "disk", "lost"}]
         /\ f = None <=> file = None
         /\ f # None => f.s.latest = file.s.latest
<1>1. CASE file = None BY <1>1 DEF CopiesInFile
<1>2. CASE file # None
  <2>1. file \in [s : Session, key : {"ring", "disk", "lost"}] BY <1>2 DEF SessionTypeOK
  <2>2. PICK t \in Copies(s, file.s) : f = [file EXCEPT !.s = t] BY <1>2 DEF CopiesInFile
  <2>3. t \in Session /\ t.latest = file.s.latest
    BY <2>1, <2>2, CopyOf, SessionAssumption
  <2> QED BY <1>2, <2>1, <2>2, <2>3, SessionAssumption
<1> QED BY <1>1, <1>2

\* Using up a token changes no chain and no entry.
LEMMA SpendKeeps ==
  ASSUME SessionTypeOK, NEW p \in Proc, cur[p] \in Session, NEW s \in Session \cup {None}, Spend(p, s)
  PROVE  /\ stored' \in Session \cup {None}
         /\ stored' = None <=> stored = None
         /\ stored # None => stored'.latest = stored.latest
         /\ file' = None \/ file' \in [s : Session, key : {"ring", "disk", "lost"}]
         /\ file' = None <=> file = None
         /\ file' # None => file'.s.latest = file.s.latest
         /\ cur' \in [Proc -> Session \cup {None}] /\ cur'[p] = s
         /\ \A q \in Proc \ {p} : /\ cur'[q] = None <=> cur[q] = None
                                  /\ cur[q] # None => cur'[q].latest = cur[q].latest
<1>1. stored' \in Copies(cur[p], stored) /\ file' \in CopiesInFile(cur[p])
  BY DEF Spend
<1>2. PICK same \in SUBSET {q \in Proc \ {p} : cur[q] = cur[p]} :
        cur' = [q \in Proc |-> IF q = p THEN s ELSE IF q \in same THEN Spent(cur[q]) ELSE cur[q]]
  BY DEF Spend
<1>3. \A q \in same : cur[q] \in Session /\ Spent(cur[q]) \in Session
                      /\ Spent(cur[q]).latest = cur[q].latest
  BY SpentSession
<1>4. cur \in [Proc -> Session \cup {None}] BY DEF SessionTypeOK
<1>5. cur' \in [Proc -> Session \cup {None}] /\ cur'[p] = s
  BY <1>2, <1>3, <1>4
<1>6. \A q \in Proc \ {p} : /\ cur'[q] = None <=> cur[q] = None
                            /\ cur[q] # None => cur'[q].latest = cur[q].latest
  BY <1>2, <1>3, <1>4, SessionAssumption
<1> QED BY <1>1, <1>5, <1>6, CopyOf, CopyOfFile DEF SessionTypeOK

-----------------------------------------------------------------------------
\* Steps that write nothing: the command looks, gives up, logs in or ends.
LEMMA QuietSteps ==
  ASSUME SessionInv, NEW p \in Proc,
         \/ Start(p) \/ LookRing(p) \/ LookFile(p) \/ Valid(p) \/ Refused(p) \/ RefreshFails(p)
         \/ SaveFails(p) \/ Finish(p) \/ Exchange(p) \/ LoginFails(p) \/ SaveLoginFails(p) \/ Kill(p)
  PROVE  SessionInv'
<1> USE SessionAssumption
    DEF SessionInv, SessionTypeOK, StoredIsLatest, Current, OfLatest, storeVars,
        Step, Leave, Quit, NoSession, GoesToLogin
<1>1. CASE Start(p) BY <1>1 DEF Start
<1>2. CASE LookRing(p) BY <1>2 DEF LookRing
<1>3. CASE LookFile(p)
  <2>1. ringKey' \in BOOLEAN /\ UNCHANGED <<ring, stored, file, slip>> BY <1>3 DEF LookFile, MakesKey
  <2> QED BY <1>3, <2>1 DEF LookFile
<1>4. CASE Valid(p) \/ Refused(p) \/ RefreshFails(p) BY <1>4 DEF Valid, Refused, RefreshFails
<1>5. CASE SaveFails(p) \/ Finish(p) \/ LoginFails(p) \/ SaveLoginFails(p) \/ Kill(p)
  BY <1>5 DEF SaveFails, Finish, LoginFails, SaveLoginFails, Kill
<1>6. CASE Exchange(p)
  <2>1. FromLogin \in Session BY DEF FromLogin, Session
  <2> QED BY <1>6, <2>1 DEF Exchange
<1> QED BY <1>1, <1>2, <1>3, <1>4, <1>5, <1>6

\* A refresh, whether its answer arrives or not.
LEMMA RefreshSteps ==
  ASSUME SessionInv, NEW p \in Proc, Refresh(p) \/ AnswerLost(p)
  PROVE  SessionInv'
<1>1. cur[p] \in Session /\ at[p] = "check"
  BY DEF Refresh, AnswerLost, SessionInv, SessionTypeOK
<1> USE SessionAssumption
    DEF SessionInv, SessionTypeOK, StoredIsLatest, Current, OfLatest, Step, GoesToLogin
<1>2. CASE Refresh(p)
  <2>1. Spend(p, cur[p]) BY <1>2 DEF Refresh
  <2> QED BY <1>1, <1>2, <2>1, SpendKeeps DEF Refresh
<1>3. CASE AnswerLost(p)
  <2>1. Spend(p, None) BY <1>3 DEF AnswerLost
  <2> QED BY <1>1, <1>3, <2>1, SpendKeeps DEF AnswerLost
<1> QED BY <1>2, <1>3

\* What a command writes is of the latest login, unless it was behind.
LEMMA SaveSteps ==
  ASSUME SessionInv, NEW p \in Proc, Migrate(p) \/ SaveRefreshed(p)
  PROVE  SessionInv'
<1> USE SessionAssumption
<1> DEFINE To == IF at[p] = "migrate" THEN "check" ELSE "ok"
<1> DEFINE Has == IF at[p] = "migrate" THEN cur[p] ELSE None
<1>1. /\ at[p] \in {"migrate", "save"} /\ cur[p] \in Session
      /\ at \in [Proc -> {"idle", "look", "file", "migrate", "check", "save", "ok",
                          "login", "saveLogin", "wipe"}]
      /\ cur \in [Proc -> Session \cup {None}]
  BY DEF Migrate, SaveRefreshed, SessionInv, SessionTypeOK
<1>2. /\ at' = [at EXCEPT ![p] = To] /\ cur' = [cur EXCEPT ![p] = Has]
      /\ ring' = ring /\ again' = again /\ ringKey' \in BOOLEAN
  <2>1. CASE Migrate(p) BY <2>1 DEF Migrate, Step, SessionInv, SessionTypeOK
  <2>2. CASE SaveRefreshed(p)
    BY <2>2 DEF SaveRefreshed, Step, Save, MakesKey, SessionInv, SessionTypeOK
  <2> QED BY <2>1, <2>2
<1>3. \/ UNCHANGED <<stored, file, slip, behind>>
      \/ /\ behind' = (behind \cup Reading) \ {p}
         /\ slip' = (slip \/ p \in behind)
         /\ \/ stored' = cur[p] /\ file' = file
            \/ stored' = stored /\ file' = [s |-> cur[p], key |-> KeyNow]
  <2>1. CASE Migrate(p) BY <2>1 DEF Migrate, Wrote
  <2>2. CASE SaveRefreshed(p) BY <2>2 DEF SaveRefreshed, Save, Wrote
  <2> QED BY <2>1, <2>2
<1>4. KeyNow \in {"ring", "disk", "lost"} BY DEF KeyNow
<1>5. slip' \in BOOLEAN /\ (~slip' => ~slip)
      /\ (~slip' /\ behind' # behind => p \notin behind)
      /\ behind' \subseteq Proc
      /\ (~slip' /\ (stored' # stored \/ file' # file) => p \notin behind)
  BY <1>3 DEF SessionInv, SessionTypeOK, Reading
<1>6. SessionTypeOK'
  <2>1. stored' \in Session \cup {None}
    BY <1>1, <1>3 DEF SessionInv, SessionTypeOK
  <2>2. file' = None \/ file' \in [s : Session, key : {"ring", "disk", "lost"}]
    BY <1>1, <1>3, <1>4 DEF SessionInv, SessionTypeOK
  <2>3. \A q \in Proc : at'[q] \in {"migrate", "check", "save", "saveLogin"} <=> cur'[q] # None
    BY <1>1, <1>2 DEF SessionInv, SessionTypeOK
  <2>4. /\ at' \in [Proc -> {"idle", "look", "file", "migrate", "check", "save", "ok",
                             "login", "saveLogin", "wipe"}]
        /\ cur' \in [Proc -> Session \cup {None}]
    BY <1>1, <1>2
  <2> QED BY <1>2, <1>5, <2>1, <2>2, <2>3, <2>4 DEF SessionInv, SessionTypeOK
<1>7. ASSUME ~slip', p \notin behind PROVE cur[p].latest
  BY <1>1, <1>5, <1>7 DEF SessionInv, Current
<1>8. StoredIsLatest'
  <2> SUFFICES ASSUME ~slip'
               PROVE  OfLatest(stored)' /\ (stored' = None /\ file' # None => file'.s.latest)
    BY DEF StoredIsLatest
  <2>1. OfLatest(stored) /\ (stored = None /\ file # None => file.s.latest)
    BY <1>5 DEF SessionInv, StoredIsLatest
  <2>2. CASE UNCHANGED <<stored, file>> BY <2>1, <2>2 DEF OfLatest
  <2>3. CASE stored' # stored \/ file' # file
    <3>1. cur[p].latest BY <1>5, <1>7, <2>3
    <3>2. stored' = cur[p] \/ (stored' = stored /\ file' = [s |-> cur[p], key |-> KeyNow])
      BY <1>3, <2>3
    <3> QED BY <1>1, <2>1, <3>1, <3>2 DEF OfLatest
  <2> QED BY <2>2, <2>3
<1>9. Current'
  <2> SUFFICES ASSUME ~slip', NEW q \in Proc, q \notin behind'
               PROVE  /\ at'[q] \in {"migrate", "check", "save"} => cur'[q].latest
                      /\ at'[q] \in {"file", "wipe"} => stored' = None
    BY DEF Current
  <2>1. CASE q = p
    <3>1. at'[p] = To /\ cur'[p] = Has BY <1>1, <1>2
    <3>2. To \in {"check", "ok"} BY <1>1
    <3>3. To = "check" => Has = cur[p] BY <1>1
    <3>4. ASSUME To = "check" PROVE p \notin behind
      BY <1>3, <1>5, <2>1
    <3> QED BY <1>7, <2>1, <3>1, <3>2, <3>3, <3>4
  <2>2. CASE q # p
    <3>1. at'[q] = at[q] /\ cur'[q] = cur[q] BY <1>1, <1>2, <2>2
    <3>2. CASE UNCHANGED <<stored, file, slip, behind>>
      BY <3>1, <3>2 DEF SessionInv, Current
    <3>3. CASE behind' = (behind \cup Reading) \ {p}
      <4>1. q \notin Reading BY <2>2, <3>3
      <4> QED BY <3>1, <4>1 DEF Reading
    <3> QED BY <1>3, <3>2, <3>3
  <2> QED BY <2>1, <2>2
<1> QED BY <1>6, <1>8, <1>9 DEF SessionInv

LEMMA LoginSaved ==
  ASSUME SessionInv, NEW p \in Proc, SaveLogin(p)
  PROVE  SessionInv'
<1> USE SessionAssumption
    DEF SessionInv, SessionTypeOK, StoredIsLatest, Current, OfLatest, Wrote, Reading
<1>1. Latest \in Session /\ Latest.latest = TRUE /\ Latest # None
  BY DEF Latest, FromLogin, Session
<1>2. KeyNow \in {"ring", "disk", "lost"} BY DEF KeyNow
<1>3. OlderFile = None \/ OlderFile \in [s : Session, key : {"ring", "disk", "lost"}]
  BY OlderSession DEF OlderFile
<1>4. \A q \in Proc : Older(cur[q]) \in Session \cup {None} /\ (Older(cur[q]) = None <=> cur[q] = None)
  BY OlderSession
<1>5. Older(stored) \in Session \cup {None} /\ (Older(stored) = None <=> stored = None)
  BY OlderSession
<1>6. CASE CanSet BY <1>1, <1>3, <1>4, <1>6 DEF SaveLogin
<1>7. CASE ~CanSet
  <2>1. /\ ringKey' \in BOOLEAN /\ ring' = ring
        /\ stored' = Older(stored)
        /\ file' = [s |-> Latest, key |-> KeyNow]
        /\ slip' = (stored # None)
        /\ behind' = (behind \cup Reading) \ {p}
        /\ again' = again \cup {p}
        /\ at[p] = "saveLogin"
        /\ at' = [at EXCEPT ![p] = "look"]
        /\ cur' = [q \in Proc |-> IF q = p THEN None ELSE Older(cur[q])]
    BY <1>7 DEF SaveLogin, MakesKey
  <2>2. file' \in [s : Session, key : {"ring", "disk", "lost"}] /\ file'.s.latest
    BY <1>1, <1>2, <2>1
  <2>3. \A q \in Proc : /\ at'[q] = IF q = p THEN "look" ELSE at[q]
                        /\ cur'[q] = IF q = p THEN None ELSE Older(cur[q])
    BY <2>1
  <2>4. SessionTypeOK'
    <3>1. \A q \in Proc : at'[q] \in {"migrate", "check", "save", "saveLogin"} <=> cur'[q] # None
      BY <1>4, <2>3
    <3>2. cur' \in [Proc -> Session \cup {None}] BY <1>4, <2>1
    <3>3. stored' \in Session \cup {None} /\ slip' \in BOOLEAN BY <1>5, <2>1
    <3>4. (again \cup behind)' \subseteq Proc BY <2>1
    <3> QED BY <2>1, <2>2, <3>1, <3>2, <3>3, <3>4
  <2>5. StoredIsLatest' BY <1>5, <2>1, <2>2
  <2>6. Current'
    <3>1. \A q \in Proc : q # p /\ q \notin behind' =>
            at'[q] \notin {"file", "migrate", "check", "save", "wipe"}
      BY <2>1, <2>3
    <3> QED BY <2>3, <3>1
  <2> QED BY <2>4, <2>5, <2>6
<1> QED BY <1>6, <1>7

\* `sentra wipe`, and the keychain that works or not.
LEMMA WipeSteps ==
  ASSUME SessionInv, NEW p \in Proc, WipeRing(p) \/ WipeFiles(p)
  PROVE  SessionInv'
<1> USE SessionAssumption
    DEF SessionInv, SessionTypeOK, StoredIsLatest, Current, OfLatest, Wrote, Reading, Step
<1>1. CASE WipeRing(p)
  <2>1. KeyDeleted = None \/ KeyDeleted \in [s : Session, key : {"ring", "disk", "lost"}]
    BY DEF KeyDeleted
  <2>2. KeyDeleted = None <=> file = None BY DEF KeyDeleted
  <2> QED BY <1>1, <2>1, <2>2 DEF WipeRing, Undone
<1>2. CASE WipeFiles(p)
  <2>1. Older(stored) \in Session \cup {None} /\ (Older(stored) = None <=> stored = None)
    BY OlderSession
  <2>2. \A q \in Proc : Older(cur[q]) \in Session \cup {None} /\ (Older(cur[q]) = None <=> cur[q] = None)
    BY OlderSession
  <2>3. SessionTypeOK' BY <1>2, <2>1, <2>2 DEF WipeFiles
  <2>4. StoredIsLatest' BY <1>2, <2>1 DEF WipeFiles
  <2>5. Current'
    <3>1. \A q \in Proc : q \notin behind' =>
            at'[q] \notin {"file", "migrate", "check", "save", "wipe"}
      BY <1>2 DEF WipeFiles
    <3> QED BY <3>1
  <2> QED BY <2>3, <2>4, <2>5
<1> QED BY <1>1, <1>2

\* No fairness is needed.
LEMMA SessionInvAlways == SessionInit /\ [][SessionNext]_sessionVars => []SessionInv
<1>1. SessionInv /\ SessionNext => SessionInv'
  <2>1. ASSUME SessionInv, NEW r \in {"up", "readonly", "down"}, RingTurns(r) PROVE SessionInv'
    BY <2>1 DEF RingTurns, SessionInv, SessionTypeOK, StoredIsLatest, Current, OfLatest
  <2> QED BY <2>1, QuietSteps, RefreshSteps, SaveSteps, LoginSaved, WipeSteps
          DEF SessionNext, Command, Fail
<1>2. SessionInv /\ UNCHANGED sessionVars => SessionInv'
  BY DEF SessionInv, SessionTypeOK, StoredIsLatest, Current, OfLatest, sessionVars, storeVars
<1> QED BY InitSession, <1>1, <1>2, PTL

\* The stored session and what commands have in memory have their types.
THEOREM SessionTypeCorrect == SessionSpec => []SessionTypeOK
<1>1. SessionInv => SessionTypeOK BY DEF SessionInv
<1> QED BY <1>1, SessionInvAlways, PTL DEF SessionSpec

\* A command loads a session of the login saved last, and none after a wipe,
\* but for what slipped through, for any number of commands
\* (session.go:53-143, wipe.go:28-45).
THEOREM StoredIsLatestAlways == SessionSpec => []StoredIsLatest
<1>1. SessionInv => StoredIsLatest BY DEF SessionInv
<1> QED BY <1>1, SessionInvAlways, PTL DEF SessionSpec

-----------------------------------------------------------------------------
(* The parts together: a step of one part leaves the others alone, so every *)
(* part behaves as its own specification says.                              *)

LEMMA PartsBehave ==
  FairSpec => /\ SessionInit /\ [][SessionNext]_sessionVars
              /\ LoginSpec /\ StorageSpec /\ ScanSpec
<1>1. Init => SessionInit /\ LoginInit /\ StorageInit /\ ScanInit BY DEF Init
<1>2. [Next]_clientVars => /\ [SessionNext]_sessionVars
                           /\ [LoginNext]_loginVars
                           /\ [StorageNext]_storageVars
                           /\ [ScanNext]_scanVars
  BY DEF Next, clientVars, SessionPart, LoginPart, StoragePart, ScanPart
<1>3. FairSpec => Init /\ [][Next]_clientVars BY PTL DEF FairSpec
<1> QED BY <1>1, <1>2, <1>3, PTL DEF LoginSpec, StorageSpec, ScanSpec

\* Every part keeps its types, whatever the others do (the packages auth,
\* storage and scanner share no state).
THEOREM ClientTypeCorrect == FairSpec => []ClientTypeOK
<1>1. SessionInv => SessionTypeOK BY DEF SessionInv
<1>2. SessionTypeOK /\ LoginTypeOK /\ StorageTypeOK /\ ScanTypeOK => ClientTypeOK
  BY DEF ClientTypeOK
<1> QED BY <1>1, <1>2, PartsBehave, SessionInvAlways, LoginTypeCorrect, StorageTypeCorrect,
           ScanTypeCorrect, PTL

\* What is proved of each part holds of the parts together.
THEOREM ClientSafe ==
  FairSpec => [](StoredIsLatest /\ AcceptsFirst /\ SecretNamed /\ FindsEnvFiles)
<1>1. SessionInv => StoredIsLatest BY DEF SessionInv
<1> QED BY <1>1, PartsBehave, SessionInvAlways, AcceptsFirstAlways, SecretNamedAlways,
           FindsEnvFilesAlways, PTL
=============================================================================

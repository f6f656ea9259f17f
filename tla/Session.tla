------------------------------ MODULE Session ------------------------------
(***************************************************************************)
(* The session of the CLI: commands in several terminals load it, refresh  *)
(* it with a refresh token that is good for one use, log in again when     *)
(* that fails, and save it (cli/remote_auth.go, auth/session*.go).         *)
(*                                                                         *)
(* It is kept in the keychain.  An encrypted file is read when the         *)
(* keychain has none, and written when the keychain refuses it and the     *)
(* user allows that.  How a login gets its code is the module LoginServer. *)
(***************************************************************************)
CONSTANTS Proc,      \* commands that may run at once
          None,
          AllowFile, \* SENTRA_ALLOW_INSECURE_SESSION_FILE
          Faults     \* "network", "keychain", "kill": what can fail


VARIABLES ring,    \* the keychain: "up", "readonly" (Set fails) or "down"
          stored,  \* the keychain item "session"
          ringKey, \* is there an item "session-key"?
          file,    \* session.json: the session and the key it is encrypted with
          at,      \* at[p]: where command p is
          cur,     \* cur[p]: the session it has in memory
          again,   \* commands that have logged in and load the session again
          behind,  \* history: commands that read a session overwritten since
          slip     \* history: see StoredIsLatest

storeVars == <<ring, stored, ringKey, file>>
sessionVars == <<storeVars, at, cur, again, behind, slip>>

\* A login begins a chain of sessions: a refresh uses up the token of the last
\* one and makes the next.  So a session is known by its chain, the one of the
\* login saved last or an older one, and by whether it is the last of it.
Session == [latest : BOOLEAN, unused : BOOLEAN]
FromLogin == [latest |-> FALSE, unused |-> TRUE]

ASSUME SessionAssumption ==
  /\ AllowFile \in BOOLEAN
  /\ None \notin Session \cup [s : Session, key : {"ring", "disk", "lost"}]

\* "ring" and "disk" are the two places of the key; "lost" is a key deleted.
SessionTypeOK ==
  /\ ring \in {"up", "readonly", "down"}
  /\ stored \in Session \cup {None}
  /\ ringKey \in BOOLEAN
  /\ file = None \/ file \in [s : Session, key : {"ring", "disk", "lost"}]
  /\ at \in [Proc -> {"idle", "look", "file", "migrate", "check", "save", "ok",
                      "login", "saveLogin", "wipe"}]
  /\ cur \in [Proc -> Session \cup {None}]
  /\ \A p \in Proc : at[p] \in {"migrate", "check", "save", "saveLogin"} <=> cur[p] # None
  /\ again \cup behind \subseteq Proc
  /\ slip \in BOOLEAN

SessionInit == /\ ring = "up"
               /\ stored = None
               /\ ringKey = FALSE
               /\ file = None
               /\ at = [p \in Proc |-> "idle"]
               /\ cur = [p \in Proc |-> None]
               /\ again = {}
               /\ behind = {}
               /\ slip = FALSE

-----------------------------------------------------------------------------
\* Command p goes on to step t with session s.
Step(p, t, s) == at' = [at EXCEPT ![p] = t] /\ cur' = [cur EXCEPT ![p] = s]
Leave(p, t) == Step(p, t, None) /\ behind' = behind \ {p}
Quit(p) == Leave(p, "idle") /\ again' = again \ {p}

\* EnsureSession fails: the first time the user is asked to log in.
GoesToLogin(p) == /\ at' = [at EXCEPT ![p] = IF p \in again THEN "idle" ELSE "login"]
                  /\ again' = again \ {p}
                  /\ behind' = behind \ {p}
NoSession(p) == GoesToLogin(p) /\ cur' = [cur EXCEPT ![p] = None]

\* Somebody writes the session: a command that read it before is behind.
Reading == {q \in Proc : at[q] \in {"file", "migrate", "check", "save", "wipe"}}
Wrote(p) == behind' = (behind \cup Reading) \ {p}

\* keyring.Set
CanSet == ring = "up"

-----------------------------------------------------------------------------
(* LoadSession.                                                             *)
Start(p) ==
  /\ at[p] = "idle"
  /\ Step(p, "look", None)
  /\ UNCHANGED <<storeVars, again, behind, slip>>

LookRing(p) ==
  /\ at[p] = "look"
  /\ IF ring = "down" THEN NoSession(p)
     ELSE /\ Step(p, IF stored = None THEN "file" ELSE "check", stored)
          /\ UNCHANGED <<again, behind>>
  /\ UNCHANGED <<storeVars, slip>>

\* getOrCreateSessionKey: the item of the keychain, made if there is none,
\* else a file.
KeyNow == IF ring = "up" \/ (ring = "readonly" /\ ringKey) THEN "ring" ELSE "disk"
MakesKey == ringKey' = (ringKey \/ ring = "up")

LookFile(p) ==
  /\ at[p] = "file"
  /\ IF file # None /\ file.key = KeyNow
       THEN Step(p, "migrate", file.s) /\ UNCHANGED <<again, behind>>
       ELSE NoSession(p)
  /\ IF file # None THEN MakesKey ELSE UNCHANGED ringKey
  /\ UNCHANGED <<ring, stored, file, slip>>

\* The session from the file is copied into the keychain, best effort.
Migrate(p) ==
  /\ at[p] = "migrate"
  /\ Step(p, "check", cur[p])
  /\ IF CanSet THEN /\ stored' = cur[p]
                    /\ slip' = (slip \/ p \in behind)
                    /\ Wrote(p)
               ELSE UNCHANGED <<stored, slip, behind>>
  /\ UNCHANGED <<ring, ringKey, file, again>>

-----------------------------------------------------------------------------
(* EnsureSession.  Time is left out: an access token that is looked at has  *)
(* a minute left, or not.                                                   *)
Valid(p) ==
  /\ at[p] = "check"
  /\ Leave(p, "ok")
  /\ UNCHANGED <<storeVars, again, slip>>

\* The issuer takes a refresh token once.  Every copy of the session is then
\* spent; of two sessions of older logins it is not known which are copies.
Spent(s) == [s EXCEPT !.unused = FALSE]
Copies(s, t) == IF t # s THEN {t} ELSE IF s.latest THEN {Spent(t)} ELSE {t, Spent(t)}
CopiesInFile(s) ==
  IF file = None THEN {None} ELSE {[file EXCEPT !.s = t] : t \in Copies(s, file.s)}

Spend(p, s) ==
  /\ cur[p].unused
  /\ stored' \in Copies(cur[p], stored)
  /\ file' \in CopiesInFile(cur[p])
  /\ LET alike == {q \in Proc \ {p} : cur[q] = cur[p]}
     IN \E same \in IF cur[p].latest THEN {alike} ELSE SUBSET alike :
          cur' = [q \in Proc |-> IF q = p THEN s ELSE IF q \in same THEN Spent(cur[q]) ELSE cur[q]]

Refresh(p) ==
  /\ at[p] = "check"
  /\ Spend(p, cur[p])
  /\ at' = [at EXCEPT ![p] = "save"]
  /\ UNCHANGED <<ring, ringKey, again, behind, slip>>

\* The token was used, by this command or another.
\* Mutant: no login when the refresh fails.
RefusedForGood(p) ==
  /\ at[p] = "check"
  /\ ~cur[p].unused
  /\ Quit(p)
  /\ UNCHANGED <<storeVars, slip>>
Refused(p) ==
  /\ at[p] = "check"
  /\ ~cur[p].unused
  /\ NoSession(p)
  /\ UNCHANGED <<storeVars, slip>>

\* The issuer did not get the request, or the CLI did not get the answer.
RefreshFails(p) ==
  /\ "network" \in Faults
  /\ at[p] = "check"
  /\ NoSession(p)
  /\ UNCHANGED <<storeVars, slip>>

AnswerLost(p) ==
  /\ "network" \in Faults
  /\ at[p] = "check"
  /\ Spend(p, None)
  /\ GoesToLogin(p)
  /\ UNCHANGED <<ring, ringKey, slip>>

\* SaveSession: the keychain, else the file if that is allowed.
CanSave == CanSet \/ AllowFile
Save(p) ==
  IF CanSet THEN stored' = cur[p] /\ UNCHANGED <<ringKey, file>>
  ELSE file' = [s |-> cur[p], key |-> KeyNow] /\ MakesKey /\ UNCHANGED stored

SaveRefreshed(p) ==
  /\ at[p] = "save"
  /\ CanSave
  /\ Save(p)
  /\ slip' = (slip \/ p \in behind)
  /\ Wrote(p)
  /\ Step(p, "ok", None)
  /\ UNCHANGED <<ring, again>>

SaveFails(p) ==
  /\ at[p] = "save"
  /\ ~CanSave
  /\ NoSession(p)
  /\ UNCHANGED <<storeVars, slip>>

\* The command goes about its work and ends.
Finish(p) ==
  /\ at[p] = "ok"
  /\ Quit(p)
  /\ UNCHANGED <<storeVars, slip>>

-----------------------------------------------------------------------------
(* runLogin: a code is exchanged for a session ...                          *)
Exchange(p) ==
  /\ at[p] = "login"
  /\ Step(p, "saveLogin", FromLogin)
  /\ UNCHANGED <<storeVars, again, behind, slip>>

LoginFails(p) ==
  /\ "network" \in Faults
  /\ at[p] = "login"
  /\ Quit(p)
  /\ UNCHANGED <<storeVars, slip>>

\* ... that is saved, and loaded again.  What is in the keychain by then hides
\* what goes into the file.
Older(s) == IF s = None THEN None ELSE [s EXCEPT !.latest = FALSE]
OlderFile == IF file = None THEN None ELSE [file EXCEPT !.s = Older(@)]
Latest == [FromLogin EXCEPT !.latest = TRUE]
SaveLogin(p) ==
  /\ at[p] = "saveLogin"
  /\ CanSave
  /\ IF CanSet THEN stored' = Latest /\ file' = OlderFile /\ UNCHANGED ringKey
     ELSE stored' = Older(stored) /\ file' = [s |-> Latest, key |-> KeyNow] /\ MakesKey
  /\ slip' = (~CanSet /\ stored # None)
  /\ Wrote(p)
  /\ at' = [at EXCEPT ![p] = "look"]
  /\ cur' = [q \in Proc |-> IF q = p THEN None ELSE Older(cur[q])]
  /\ again' = again \cup {p}
  /\ UNCHANGED ring

SaveLoginFails(p) ==
  /\ at[p] = "saveLogin"
  /\ ~CanSave
  /\ Quit(p)
  /\ UNCHANGED <<storeVars, slip>>

-----------------------------------------------------------------------------
(* `sentra wipe`: the items of the keychain, best effort, then the files.   *)
KeyDeleted == IF file # None /\ file.key = "ring" THEN [file EXCEPT !.key = "lost"] ELSE file
Undone == slip \/ file # None \/ (stored # None /\ ~CanSet)
\* Mutant: the item of the session is not deleted.
WipeKeyOnly(p) ==
  /\ at[p] = "idle"
  /\ Step(p, "wipe", None)
  /\ IF CanSet THEN ringKey' = FALSE /\ file' = KeyDeleted
               ELSE UNCHANGED <<ringKey, file>>
  /\ slip' = Undone
  /\ Wrote(p)
  /\ UNCHANGED <<ring, stored, again>>
WipeRing(p) ==
  /\ at[p] = "idle"
  /\ Step(p, "wipe", None)
  /\ IF CanSet THEN stored' = None /\ ringKey' = FALSE /\ file' = KeyDeleted
               ELSE UNCHANGED <<stored, ringKey, file>>
  /\ slip' = Undone
  /\ Wrote(p)
  /\ UNCHANGED <<ring, again>>

WipeFiles(p) ==
  /\ at[p] = "wipe"
  /\ file' = None
  /\ stored' = Older(stored)
  /\ at' = [at EXCEPT ![p] = "idle"]
  /\ cur' = [q \in Proc |-> Older(cur[q])]
  /\ slip' = (stored # None /\ (slip \/ p \in behind))
  /\ Wrote(p)
  /\ UNCHANGED <<ring, ringKey, again>>

-----------------------------------------------------------------------------
\* The keychain is locked, unlocked, unavailable.
RingTurns(r) ==
  /\ "keychain" \in Faults
  /\ ring # r
  /\ ring' = r
  /\ UNCHANGED <<stored, ringKey, file, at, cur, again, behind, slip>>

Kill(p) ==
  /\ "kill" \in Faults
  /\ at[p] # "idle"
  /\ Quit(p)
  /\ UNCHANGED <<storeVars, slip>>

Command(p) == \/ LookRing(p) \/ LookFile(p) \/ Migrate(p)
              \/ Valid(p) \/ Refresh(p) \/ Refused(p) \/ SaveRefreshed(p) \/ SaveFails(p)
              \/ Exchange(p) \/ SaveLogin(p) \/ SaveLoginFails(p)
              \/ Finish(p) \/ WipeFiles(p)

Fail(p) == RefreshFails(p) \/ AnswerLost(p) \/ LoginFails(p) \/ Kill(p)

SessionNext == \/ \E p \in Proc : Start(p) \/ Command(p) \/ WipeRing(p) \/ Fail(p)
               \/ \E r \in {"up", "readonly", "down"} : RingTurns(r)

(* Fairness: some command goes on, or the user starts one.                  *)
SessionSpec == /\ SessionInit
               /\ [][SessionNext]_sessionVars
               /\ WF_sessionVars(\E p \in Proc : Start(p) \/ Command(p))

-----------------------------------------------------------------------------
\* The session a command would load comes from the login saved last, and there
\* is none after a wipe (session.go:53-143, wipe.go:28-45), unless since then
\* one slipped through: a command wrote the session it had read before another
\* wrote; a login could only be saved to the file, behind an entry of the
\* keychain; a wipe was cut short, or refused by the keychain.
OfLatest(s) == s = None \/ s.latest
StoredIsLatest ==
  ~slip => /\ OfLatest(stored)
           /\ stored = None /\ file # None => file.s.latest

\* Whatever was lost, spent or refused before, somebody gets a session again and
\* again, with a login if need be (remote_auth.go:28-53), once failures are
\* over and the keychain works.  Two commands that refresh at every turn may
\* each time spend the token the other has just read; one of them gets on.
EventuallyUsable ==
  <>[][\E p \in Proc : Start(p) \/ Command(p)]_sessionVars /\ <>[](ring = "up")
    => []<>(\E p \in Proc : at[p] = "ok")
=============================================================================

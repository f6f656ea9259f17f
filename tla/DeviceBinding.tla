---------------------------- MODULE DeviceBinding ----------------------------
(***************************************************************************)
(* How a computer gets its machine_id and its device key, and how the      *)
(* server binds the one to the other.                                      *)
(*                                                                         *)
(* The machine_id lives in ~/.sentra/config.json, the key in the keychain. *)
(* Every process of the CLI reads them, and makes the one that is missing, *)
(* in separate steps (auth/config.go, auth/device_keys.go), then sends     *)
(* POST /machines/register and, in `sentra push`, POST /push, both signed. *)
(* The server looks the machine up and writes its row in separate steps    *)
(* too (machines.go), and `sentra wipe` deletes key and config one after   *)
(* the other.                                                              *)
(***************************************************************************)
EXTENDS Integers, FiniteSets

CONSTANTS Process,  \* CLI processes of one account on one computer
          Id,       \* the machine_ids uuid.NewString can return
          Key,      \* the device keys ed25519.GenerateKey can return
          Slot,     \* requests the server can have open at the same time
          None,     \* no id, no key, no process, no request
          Empty,    \* config.json truncated and not written
          Torn,     \* config.json with the rest of a longer one behind it
          Faults,   \* the kinds of failure the environment can produce
          MaxLate   \* upserts left behind at the same time

\* "gate": rate limiter or a failing lookup; "upsert": the write of the row
\* fails or times out; "keyring": a keychain item cannot be deleted;
\* "wipe": wipe stops half-way; "kill": any other command stops half-way,
\* or its request times out; "crash": the server dies.
FaultKind == {"gate", "upsert", "keyring", "wipe", "kill", "crash"}

ASSUME DeviceBindingAssumption ==
  /\ Faults \subseteq FaultKind
  /\ MaxLate \in Nat
  /\ None \notin Id \cup Key \cup Process
  /\ Empty \notin Id \cup {None}
  /\ Torn \notin Id \cup {None, Empty}
  /\ Slot # {}

VARIABLES configId,  \* machine_id of config.json, or why it has none
          writing,   \* processes that have this config.json open for writing
          keychain,  \* device-ed25519 of the keychain
          mode,      \* mode[p]: the next step of process p
          task,      \* task[p]: the request p prepares, or waits for
          id,        \* id[p]: the machine_id p read
          pub,       \* pub[p]: the public key p puts in its registration
          handler,   \* handler[s]: the request in slot s of the server
          machines,  \* machines[i]: device_pub_key of the row of machine i
          late,      \* upserts nobody waits for that the database may run
          minted,    \* history: ids and keys made so far
          signed     \* history: <<i, k>> registered with a signature by k

localVars == <<configId, writing, keychain, minted>>
cliVars == <<mode, task, id, pub>>
serverVars == <<handler, machines, late>>
vars == <<localVars, cliVars, serverVars, signed>>

Task == {"register", "push"}
Unreadable == {Empty, Torn}
Mode == {"idle", "config", "newid", "save", "key", "newkey", "sign", "newsigner",
         "wait", "rewrite", "resave", "wipe"}
Request == [by : Process \cup {None}, task : Task, id : Id, pub : Key,
            at : {"lookup", "upsert", "ok", "refused", "failed"}]

BindingTypeOK ==
  /\ configId \in Id \cup {None} \cup Unreadable
  /\ writing \subseteq Process
  /\ keychain \in Key \cup {None}
  /\ mode \in [Process -> Mode]
  /\ task \in [Process -> Task]
  /\ id \in [Process -> Id \cup {None}]
  /\ pub \in [Process -> Key \cup {None}]
  /\ handler \in [Slot -> Request \cup {None}]
  /\ machines \in [Id -> Key \cup {None}]
  /\ late \subseteq Id \X Key
  /\ minted \subseteq Id \cup Key
  /\ signed \subseteq Id \X Key

Init == /\ configId = None
        /\ writing = {}
        /\ keychain = None
        /\ mode = [p \in Process |-> "idle"]
        /\ task = [p \in Process |-> "register"]
        /\ id = [p \in Process |-> None]
        /\ pub = [p \in Process |-> None]
        /\ handler = [s \in Slot |-> None]
        /\ machines = [i \in Id |-> None]
        /\ late = {}
        /\ minted = {}
        /\ signed = {}

-----------------------------------------------------------------------------
Goto(p, m) == mode' = [mode EXCEPT ![p] = m]

\* The command is over: what it had in memory is gone.
Exit(p) == /\ Goto(p, "idle")
           /\ task' = [task EXCEPT ![p] = "register"]
           /\ id' = [id EXCEPT ![p] = None]
           /\ pub' = [pub EXCEPT ![p] = None]

\* login and push both begin with a registration.
StartRun(p) ==
  /\ mode[p] = "idle"
  /\ Goto(p, "config")
  /\ UNCHANGED <<localVars, task, id, pub, serverVars, signed>>

\* With a machine_id: on to the key, or to the signature of the push.
GoOn(p) == Goto(p, IF task[p] = "register" THEN "key" ELSE "sign")

\* EnsureConfig finds a config with a machine_id.
HaveAnyConfig(p) ==
  /\ mode[p] = "config"
  /\ id' = [id EXCEPT ![p] = configId]
  /\ GoOn(p)
  /\ UNCHANGED <<localVars, task, pub, serverVars, signed>>
HaveConfig(p) ==
  /\ mode[p] = "config"
  /\ configId \in Id
  /\ id' = [id EXCEPT ![p] = configId]
  /\ GoOn(p)
  /\ UNCHANGED <<localVars, task, pub, serverVars, signed>>

\* EnsureConfig finds a config that is no JSON: the command fails.
BadConfig(p) ==
  /\ mode[p] = "config"
  /\ configId \in Unreadable
  /\ Exit(p)
  /\ UNCHANGED <<localVars, serverVars, signed>>

\* EnsureConfig finds none ...
MissConfig(p) ==
  /\ mode[p] = "config"
  /\ configId = None
  /\ Goto(p, "newid")
  /\ UNCHANGED <<localVars, task, id, pub, serverVars, signed>>

\* SaveConfig is os.WriteFile, which truncates config.json when it opens it ...
OpenConfig(p) == /\ configId' = Empty
                 /\ writing' = writing \cup {p}

\* ... and then writes id[p], over what others wrote meanwhile, whose rest
\* stays when it is longer.  After a wipe the file written is no longer there.
FillConfig(p) ==
  /\ writing' = writing \ {p}
  /\ IF p \in writing
     THEN configId' \in {id[p]} \cup (IF configId = Empty THEN {} ELSE {Torn})
     ELSE UNCHANGED configId

\* ... and saves one with a new machine_id, whatever was saved meanwhile.
NewConfig(p) ==
  /\ mode[p] = "newid"
  /\ \E i \in Id \ minted : /\ id' = [id EXCEPT ![p] = i]
                            /\ minted' = minted \cup {i}
  /\ OpenConfig(p)
  /\ Goto(p, "save")
  /\ UNCHANGED <<keychain, task, pub, serverVars, signed>>

WriteConfig(p) ==
  /\ mode[p] = "save"
  /\ FillConfig(p)
  /\ GoOn(p)
  /\ UNCHANGED <<keychain, minted, task, id, pub, serverVars, signed>>

\* GetOrCreateDevicePublicKey finds a key in the keychain ...
HaveKey(p) ==
  /\ mode[p] = "key"
  /\ keychain # None
  /\ pub' = [pub EXCEPT ![p] = keychain]
  /\ Goto(p, "sign")
  /\ UNCHANGED <<localVars, task, id, serverVars, signed>>

\* ... or finds none ...
MissKey(p) ==
  /\ \/ mode[p] = "key" /\ Goto(p, "newkey")
     \/ mode[p] = "sign" /\ Goto(p, "newsigner")
  /\ keychain = None
  /\ UNCHANGED <<localVars, task, id, pub, serverVars, signed>>

\* ... and stores a new one, whatever was stored meanwhile.
LoseKey(k) == /\ k \in Key \ minted
              /\ minted' = minted \cup {k}
              /\ UNCHANGED <<configId, writing, keychain>>
MakeKey(k) == /\ k \in Key \ minted
              /\ keychain' = k
              /\ minted' = minted \cup {k}
              /\ UNCHANGED <<configId, writing>>

NewKey(p) ==
  /\ mode[p] = "newkey"
  /\ \E k \in Key : MakeKey(k) /\ pub' = [pub EXCEPT ![p] = k]
  /\ Goto(p, "sign")
  /\ UNCHANGED <<task, id, serverVars, signed>>

\* The request is signed with key k and reaches the server.  A registration
\* carries its public key, and its signature must be by that key; a push is
\* checked against the row of the machine.
ArriveUnproved(p, k) ==
  LET r == [by |-> p, task |-> task[p], id |-> id[p],
            pub |-> IF task[p] = "register" THEN pub[p] ELSE k,
            at |-> "lookup"]
  IN /\ \E s \in Slot : handler[s] = None /\ handler' = [handler EXCEPT ![s] = r]
     /\ signed' = IF task[p] = "register" THEN signed \cup {<<id[p], k>>} ELSE signed
     /\ UNCHANGED <<machines, late>>
Arrive(p, k) ==
  LET r == [by |-> p, task |-> task[p], id |-> id[p],
            pub |-> IF task[p] = "register" THEN pub[p] ELSE k,
            at |-> IF task[p] = "register" /\ pub[p] # k THEN "refused" ELSE "lookup"]
  IN /\ \E s \in Slot : handler[s] = None /\ handler' = [handler EXCEPT ![s] = r]
     /\ signed' = IF task[p] = "register" THEN signed \cup {<<id[p], k>>} ELSE signed
     /\ UNCHANGED <<machines, late>>

\* SignDeviceRequest reads the keychain once more, and makes a key if it is
\* gone by now.
Sign(p) ==
  /\ mode[p] = "sign"
  /\ keychain # None
  /\ Arrive(p, keychain)
  /\ Goto(p, "wait")
  /\ UNCHANGED <<localVars, task, id, pub>>

NewSigner(p) ==
  /\ mode[p] = "newsigner"
  /\ \E k \in Key : MakeKey(k) /\ Arrive(p, k)
  /\ Goto(p, "wait")
  /\ UNCHANGED <<task, id, pub>>

-----------------------------------------------------------------------------
At(s, t, a) == handler[s] # None /\ handler[s].task = t /\ handler[s].at = a
MoveTo(s, a) == handler' = [handler EXCEPT ![s].at = a]
Upsert(i, k) == machines' = [machines EXCEPT ![i] = k]

\* registerMachineHandler reads the row of the machine: no row, or the same
\* key, lets the registration go on; another key is a 409.
LookUpNoRow(s) ==
  /\ At(s, "register", "lookup")
  /\ MoveTo(s, IF machines[handler[s].id] = None THEN "upsert" ELSE "refused")
  /\ UNCHANGED <<localVars, cliVars, machines, late, signed>>
LookUp(s) ==
  /\ At(s, "register", "lookup")
  /\ MoveTo(s, IF machines[handler[s].id] \in {None, handler[s].pub}
               THEN "upsert" ELSE "refused")
  /\ UNCHANGED <<localVars, cliVars, machines, late, signed>>

\* Register writes the row, merging over whatever row is there by now.
Register(s) ==
  /\ At(s, "register", "upsert")
  /\ Upsert(handler[s].id, handler[s].pub)
  /\ MoveTo(s, "ok")
  /\ UNCHANGED <<localVars, cliVars, late, signed>>

\* The writes W fail: each is lost or may run at any later time.
LeaveBehind(W) == /\ \E L \in SUBSET W : late' = late \cup L
                  /\ Cardinality(late') =< MaxLate

\* The write was refused by the database, or the server stopped waiting:
\* when the process is gone its request's context is cancelled.
RegisterFails(s) ==
  /\ At(s, "register", "upsert")
  /\ "upsert" \in Faults \/ handler[s].by = None
  /\ LeaveBehind({<<handler[s].id, handler[s].pub>>})
  /\ MoveTo(s, "failed")
  /\ UNCHANGED <<localVars, cliVars, machines, signed>>

\* The database runs a write nobody waits for.
LateRegister(i, k) ==
  /\ <<i, k>> \in late
  /\ late' = late \ {<<i, k>>}
  /\ Upsert(i, k)
  /\ UNCHANGED <<localVars, cliVars, handler, signed>>

\* requireDeviceSignature lets a push through when its signature is by the
\* key of the machine's row.
Admit(s) ==
  /\ At(s, "push", "lookup")
  /\ MoveTo(s, IF machines[handler[s].id] = handler[s].pub THEN "ok" ELSE "refused")
  /\ UNCHANGED <<localVars, cliVars, machines, late, signed>>

\* The rate limiter turns the request away, or the lookup fails, which a
\* cancelled context makes it do.
GateFails(s) ==
  /\ \E t \in Task : At(s, t, "lookup")
  /\ "gate" \in Faults \/ handler[s].by = None
  /\ MoveTo(s, "failed")
  /\ UNCHANGED <<localVars, cliVars, machines, late, signed>>

Answered(s) == handler[s] # None /\ handler[s].at \in {"ok", "refused", "failed"}
Free(s) == handler' = [handler EXCEPT ![s] = None]

\* The answer to a request whose process is gone is dropped.
Drop(s) == /\ Answered(s)
           /\ handler[s].by = None
           /\ Free(s)
           /\ UNCHANGED <<localVars, cliVars, machines, late, signed>>

\* The registration of p went through.
Registered(p, s) == /\ Answered(s)
                    /\ handler[s].by = p
                    /\ handler[s].task = "register"
                    /\ handler[s].at = "ok"

\* login ends here ...
FinishLogin(p) ==
  \E s \in Slot :
    /\ Registered(p, s)
    /\ Free(s)
    /\ Exit(p)
    /\ UNCHANGED <<localVars, machines, late, signed>>

\* ... and push goes on to its own request.
GoOnToPush(p) ==
  \E s \in Slot :
    /\ Registered(p, s)
    /\ Free(s)
    /\ Goto(p, "config")
    /\ task' = [task EXCEPT ![p] = "push"]
    /\ id' = [id EXCEPT ![p] = None]
    /\ pub' = [pub EXCEPT ![p] = None]
    /\ UNCHANGED <<localVars, machines, late, signed>>

\* Any other answer ends the command.
HearRest(p) ==
  \E s \in Slot :
    /\ Answered(s)
    /\ handler[s].by = p
    /\ ~Registered(p, s)
    /\ Free(s)
    /\ Exit(p)
    /\ UNCHANGED <<localVars, machines, late, signed>>

-----------------------------------------------------------------------------
\* login reads config.json, changes other fields of its copy ...
ReadCopy(p) ==
  /\ mode[p] = "idle"
  /\ configId \in Id
  /\ id' = [id EXCEPT ![p] = configId]
  /\ Goto(p, "rewrite")
  /\ UNCHANGED <<localVars, task, pub, serverVars, signed>>

\* ... and saves the copy, machine_id included, in the same two steps.
SaveCopy(p) ==
  /\ mode[p] = "rewrite"
  /\ OpenConfig(p)
  /\ Goto(p, "resave")
  /\ UNCHANGED <<keychain, minted, task, id, pub, serverVars, signed>>

WriteCopy(p) ==
  /\ mode[p] = "resave"
  /\ FillConfig(p)
  /\ Exit(p)
  /\ UNCHANGED <<keychain, minted, serverVars, signed>>

\* `sentra wipe` deletes the device key, if it can ...  Bound: a wipe starts
\* only while an id and a key are left for the next login.
WipeKey(p) ==
  /\ mode[p] = "idle"
  /\ Id \ minted # {} /\ Key \ minted # {}
  /\ \/ keychain' = None
     \/ "keyring" \in Faults /\ UNCHANGED keychain
  /\ Goto(p, "wipe")
  /\ UNCHANGED <<configId, writing, minted, task, id, pub, serverVars, signed>>

\* ... and ~/.sentra after it.
WipeNothing(p) ==
  /\ mode[p] = "wipe"
  /\ Exit(p)
  /\ UNCHANGED <<localVars, serverVars, signed>>
WipeFiles(p) ==
  /\ mode[p] = "wipe"
  /\ configId' = None
  /\ writing' = {}
  /\ Exit(p)
  /\ UNCHANGED <<keychain, minted, serverVars, signed>>

\* Nobody waits for the requests of p any more.
Abandon(P) == handler' = [s \in Slot |->
  IF handler[s] # None /\ handler[s].by \in P
  THEN [handler[s] EXCEPT !.by = None] ELSE handler[s]]

\* The command is killed, fails, or its request times out.  A config.json it
\* was writing stays empty.
Stop(p) ==
  /\ IF mode[p] = "wipe" THEN "wipe" \in Faults ELSE "kill" \in Faults
  /\ mode[p] # "idle"
  /\ Exit(p)
  /\ writing' = writing \ {p}
  /\ Abandon({p})
  /\ UNCHANGED <<configId, keychain, minted, machines, late, signed>>

\* The server dies: writes it had sent may still run, and every process
\* that waits gets an error.
Crash ==
  /\ "crash" \in Faults
  /\ \E s \in Slot : handler[s] # None
  /\ LeaveBehind({<<handler[s].id, handler[s].pub>> :
                   s \in {t \in Slot : At(t, "register", "upsert")}})
  /\ handler' = [s \in Slot |-> None]
  /\ LET waiting == {p \in Process : mode[p] = "wait"}
         Reset(f, v) == [p \in Process |-> IF p \in waiting THEN v ELSE f[p]]
     IN /\ mode' = Reset(mode, "idle")
        /\ task' = Reset(task, "register")
        /\ id' = Reset(id, None)
        /\ pub' = Reset(pub, None)
  /\ UNCHANGED <<localVars, machines, signed>>

-----------------------------------------------------------------------------
Work(p) == \/ StartRun(p)
           \/ HaveConfig(p) \/ BadConfig(p)
           \/ MissConfig(p) \/ NewConfig(p) \/ WriteConfig(p)
           \/ HaveKey(p) \/ MissKey(p) \/ NewKey(p)
           \/ Sign(p) \/ NewSigner(p)
           \/ GoOnToPush(p) \/ HearRest(p)
           \/ SaveCopy(p) \/ WriteCopy(p) \/ WipeFiles(p)

Serve(s) == LookUp(s) \/ Register(s) \/ Admit(s) \/ Drop(s)

Fail == \/ \E s \in Slot : RegisterFails(s) \/ GateFails(s)
        \/ \E p \in Process : Stop(p)
        \/ Crash

Next == \/ \E p \in Process : Work(p) \/ FinishLogin(p) \/ ReadCopy(p) \/ WipeKey(p)
        \/ \E s \in Slot : Serve(s)
        \/ \E i \in Id, k \in Key : LateRegister(i, k)
        \/ Fail

Spec == Init /\ [][Next]_vars

(* Fairness: running processes and the server's goroutines make progress,   *)
(* and the user runs `sentra push` again.                                   *)
FairSpec == /\ Spec
            /\ \A p \in Process : WF_vars(Work(p))
            /\ \A s \in Slot : WF_vars(Serve(s))

-----------------------------------------------------------------------------
\* machines.go:99: "If already registered, do not allow changing the stored
\* device key."
KeyNeverChanges ==
  [][\A i \in Id : machines[i] # None => machines'[i] = machines[i]]_vars

\* A row of machines carries a key that signed for that machine_id
\* (machines.go:72-92), however processes race for the keychain.
RegisteredWasSigned ==
  \A i \in Id : machines[i] # None => <<i, machines[i]>> \in signed

\* One process at a time keeps the computer bound: when the machine_id of
\* config.json has a row (machines.go:122), that row carries the key of the
\* keychain, unless a wipe is under way.
BindingAgrees ==
  (configId \in Id /\ (\A p \in Process : mode[p] # "wipe")) =>
    machines[configId] \in {None, keychain}

\* One process at a time is never told 401 or 409 for its key (machines.go:87,
\* 117, device_sig_middleware.go:111), whatever timed out, failed or ran late.
NeverRefused == \A s \in Slot : handler[s] # None => handler[s].at # "refused"

\* A failure that is not also a step of something that works (a dying server
\* may look like an answer that is read), a wipe, or a login.
Disturbed == \/ /\ Fail
                /\ ~\E p \in Process : Work(p)
                /\ ~\E s \in Slot : Serve(s)
             \/ \E p \in Process : FinishLogin(p) \/ ReadCopy(p) \/ WipeKey(p)

\* One process at a time gets its pushes through again once the failures and
\* wipes end, whatever half-made identity they left (push.go:55, 206), unless
\* one of them left a config.json that no longer parses (config.go:69-71): only
\* a wipe helps then.
EventuallyServed ==
  <>[][~Disturbed]_vars => \/ []<>(\E s \in Slot : At(s, "push", "ok"))
                           \/ <>[](configId \in Unreadable)
=============================================================================

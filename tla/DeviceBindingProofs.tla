------------------------- MODULE DeviceBindingProofs -------------------------
(***************************************************************************)
(* Proofs about DeviceBinding for any number of processes, ids, keys and   *)
(* slots and any faults: the types, and that a row of machines carries a   *)
(* key that signed for it (RegisteredWasSigned).  For one process, without *)
(* a wipe stopped half-way, what a race breaks: BindingAgrees,             *)
(* NeverRefused and KeyNeverChanges.                                       *)
(*                                                                         *)
(* RegisteredWasSigned is not inductive: a write may be under way, or late,*)
(* whose signature was checked long before.  Backed says that every        *)
(* registration the server let through, and every late write, was signed.  *)
(***************************************************************************)
EXTENDS DeviceBinding, TLAPS

\* A process has read its id, and its key, before it needs them.
LocalsRead ==
  \A p \in Process :
    /\ mode[p] \in {"save", "key", "newkey", "sign", "newsigner", "rewrite", "resave"} =>
         id[p] \in Id
    /\ (mode[p] \in {"sign", "newsigner"} /\ task[p] = "register") => pub[p] \in Key

Types == BindingTypeOK /\ LocalsRead

Backed ==
  /\ late \subseteq signed
  /\ \A s \in Slot :
       (handler[s] # None /\ handler[s].task = "register" /\ handler[s].at # "refused")
         => <<handler[s].id, handler[s].pub>> \in signed

SignedInv == Types /\ Backed /\ RegisteredWasSigned

-----------------------------------------------------------------------------
\* Nothing is registered, open or late at the start.
LEMMA InitSigned == Init => SignedInv
  BY DeviceBindingAssumption
  DEF Init, SignedInv, Types, BindingTypeOK, LocalsRead, Backed, Mode, Task,
      RegisteredWasSigned

\* Steps of a process before its request leaves touch only its locals,
\* config.json and the keychain.
LEMMA LocalStep ==
  ASSUME Types, NEW p \in Process,
         \/ StartRun(p) \/ HaveConfig(p) \/ BadConfig(p) \/ MissConfig(p)
         \/ NewConfig(p) \/ WriteConfig(p)
         \/ HaveKey(p) \/ MissKey(p) \/ NewKey(p)
         \/ ReadCopy(p) \/ SaveCopy(p) \/ WriteCopy(p) \/ WipeKey(p) \/ WipeFiles(p)
  PROVE  Types' /\ UNCHANGED <<serverVars, signed>>
<1> USE DeviceBindingAssumption DEF Types, BindingTypeOK, LocalsRead, Mode, Task,
        Goto, Exit, GoOn, OpenConfig, FillConfig, Unreadable,
        localVars, cliVars, serverVars
<1>1. CASE StartRun(p) BY <1>1 DEF StartRun
<1>2. CASE HaveConfig(p) BY <1>2 DEF HaveConfig
<1>3. CASE MissConfig(p) BY <1>3 DEF MissConfig
<1>4. CASE NewConfig(p) BY <1>4 DEF NewConfig
<1>5. CASE HaveKey(p) BY <1>5 DEF HaveKey
<1>6. CASE MissKey(p) BY <1>6 DEF MissKey
<1>7. CASE NewKey(p) BY <1>7 DEF NewKey, MakeKey
<1>8. CASE ReadCopy(p) BY <1>8 DEF ReadCopy
<1>9. CASE SaveCopy(p) BY <1>9 DEF SaveCopy
<1>10. CASE WipeKey(p) BY <1>10 DEF WipeKey
<1>11. CASE WipeFiles(p) BY <1>11 DEF WipeFiles
<1>12. CASE BadConfig(p) BY <1>12 DEF BadConfig
<1>13. CASE WriteConfig(p) BY <1>13 DEF WriteConfig
<1>14. CASE WriteCopy(p) BY <1>14 DEF WriteCopy
<1> QED BY <1>1, <1>2, <1>3, <1>4, <1>5, <1>6, <1>7, <1>8, <1>9, <1>10, <1>11,
           <1>12, <1>13, <1>14

\* What such a step leaves alone is what Backed and RegisteredWasSigned read.
LEMMA ServerSame ==
  ASSUME SignedInv, Types', UNCHANGED <<serverVars, signed>>
  PROVE  SignedInv'
BY DEF SignedInv, Backed, RegisteredWasSigned, serverVars

\* A registration is let in only when the key it carries signed it.
LEMMA ArriveStep ==
  ASSUME SignedInv, NEW p \in Process, Sign(p) \/ NewSigner(p)
  PROVE  SignedInv'
<1>1. PICK k \in Key : /\ Arrive(p, k)
                       /\ Goto(p, "wait")
                       /\ mode[p] \in {"sign", "newsigner"}
                       /\ keychain' = k
                       /\ UNCHANGED <<configId, writing>>
                       /\ minted' \in {minted, minted \cup {k}}
                       /\ UNCHANGED <<task, id, pub>>
  BY DEF Sign, NewSigner, MakeKey, SignedInv, Types, BindingTypeOK, localVars
<1> DEFINE r == [by |-> p, task |-> task[p], id |-> id[p],
                 pub |-> IF task[p] = "register" THEN pub[p] ELSE k,
                 at |-> IF task[p] = "register" /\ pub[p] # k THEN "refused" ELSE "lookup"]
<1>2. r \in Request
  BY <1>1 DEF SignedInv, Types, BindingTypeOK, LocalsRead, Request, Task
<1>3. PICK s \in Slot : handler' = [handler EXCEPT ![s] = r]
  BY <1>1 DEF Arrive
<1>4. /\ signed \subseteq signed'
      /\ signed' \subseteq signed \cup {<<id[p], k>>}
      /\ task[p] = "register" => <<id[p], k>> \in signed'
      /\ UNCHANGED <<machines, late>>
  BY <1>1 DEF Arrive
<1>5. Types'
  <2>1. handler' \in [Slot -> Request \cup {None}]
    BY <1>2, <1>3 DEF SignedInv, Types, BindingTypeOK
  <2>2. signed' \subseteq Id \X Key
    BY <1>1, <1>4 DEF SignedInv, Types, BindingTypeOK, LocalsRead
  <2> QED BY <1>1, <1>4, <2>1, <2>2
          DEF SignedInv, Types, BindingTypeOK, LocalsRead, Goto, Mode
<1>6. Backed'
  <2>1. \A t \in Slot \ {s} : handler'[t] = handler[t]
    BY <1>3 DEF SignedInv, Types, BindingTypeOK
  <2>2. handler'[s] = r
    BY <1>3 DEF SignedInv, Types, BindingTypeOK
  <2>3. (r.task = "register" /\ r.at # "refused") => <<r.id, r.pub>> \in signed'
    BY <1>4
  <2> QED BY <1>4, <2>1, <2>2, <2>3 DEF SignedInv, Backed
<1>7. RegisteredWasSigned'
  BY <1>4 DEF SignedInv, RegisteredWasSigned
<1> QED BY <1>5, <1>6, <1>7 DEF SignedInv

\* Moving a request on keeps what it carries.
LEMMA MoveKeeps ==
  ASSUME SignedInv, NEW s \in Slot, handler[s] # None,
         NEW a \in {"upsert", "ok", "refused", "failed"}, MoveTo(s, a),
         handler[s].at # "refused",
         UNCHANGED <<localVars, cliVars, signed>>
  PROVE  /\ (machines' \in [Id -> Key \cup {None}] /\ late' \subseteq Id \X Key) => Types'
         /\ late' \subseteq signed => Backed'
<1>1. handler[s] \in Request
  BY DEF SignedInv, Types, BindingTypeOK
<1>2. /\ handler' = [handler EXCEPT ![s] = [handler[s] EXCEPT !.at = a]]
      /\ [handler[s] EXCEPT !.at = a] \in Request
      /\ [handler[s] EXCEPT !.at = a].id = handler[s].id
      /\ [handler[s] EXCEPT !.at = a].pub = handler[s].pub
      /\ [handler[s] EXCEPT !.at = a].task = handler[s].task
  BY <1>1 DEF MoveTo, Request
<1>3. handler' \in [Slot -> Request \cup {None}]
  BY <1>2 DEF SignedInv, Types, BindingTypeOK
<1>4. (machines' \in [Id -> Key \cup {None}] /\ late' \subseteq Id \X Key) => Types'
  BY <1>3 DEF SignedInv, Types, BindingTypeOK, LocalsRead, localVars, cliVars
<1>5. late' \subseteq signed => Backed'
  BY <1>2 DEF SignedInv, Types, BindingTypeOK, Backed
<1> QED BY <1>4, <1>5

\* An upsert of a signed pair keeps the rows signed.
LEMMA UpsertKeeps ==
  ASSUME SignedInv, NEW i \in Id, NEW k \in Key, Upsert(i, k),
         <<i, k>> \in signed, UNCHANGED signed
  PROVE  machines' \in [Id -> Key \cup {None}] /\ RegisteredWasSigned'
BY DEF Upsert, SignedInv, Types, BindingTypeOK, RegisteredWasSigned

\* The handlers let through or write only what was signed.
LEMMA ServeStep ==
  ASSUME SignedInv, NEW s \in Slot,
         LookUp(s) \/ Register(s) \/ RegisterFails(s) \/ Admit(s) \/ GateFails(s)
  PROVE  SignedInv'
<1>1. CASE LookUp(s) \/ Admit(s) \/ GateFails(s)
  <2>1. /\ UNCHANGED <<localVars, cliVars, machines, late, signed>>
        /\ handler[s] # None /\ handler[s].at # "refused"
        /\ \E a \in {"upsert", "ok", "refused", "failed"} : MoveTo(s, a)
    BY <1>1 DEF LookUp, Admit, GateFails, At
  <2>2. Types' /\ Backed'
    BY <2>1, MoveKeeps DEF SignedInv, Types, BindingTypeOK, Backed
  <2> QED BY <2>1, <2>2 DEF SignedInv, RegisteredWasSigned
<1>2. CASE RegisterFails(s)
  <2>1. /\ UNCHANGED <<localVars, cliVars, machines, signed>>
        /\ handler[s] # None /\ handler[s].at # "refused"
        /\ handler[s].task = "register"
        /\ MoveTo(s, "failed")
        /\ late' \subseteq late \cup {<<handler[s].id, handler[s].pub>>}
    BY <1>2 DEF RegisterFails, LeaveBehind, At
  <2>2. late' \subseteq signed
    BY <2>1 DEF SignedInv, Backed
  <2>3. Types' /\ Backed'
    BY <2>1, <2>2, MoveKeeps DEF SignedInv, Types, BindingTypeOK
  <2> QED BY <2>1, <2>3 DEF SignedInv, RegisteredWasSigned
<1>3. CASE Register(s)
  <2>1. /\ UNCHANGED <<localVars, cliVars, late, signed>>
        /\ handler[s] # None /\ handler[s].at # "refused"
        /\ handler[s].task = "register"
        /\ MoveTo(s, "ok")
        /\ Upsert(handler[s].id, handler[s].pub)
    BY <1>3 DEF Register, At
  <2>2. handler[s].id \in Id /\ handler[s].pub \in Key
    BY <2>1 DEF SignedInv, Types, BindingTypeOK, Request
  <2>3. machines' \in [Id -> Key \cup {None}] /\ RegisteredWasSigned'
    BY <2>1, <2>2, UpsertKeeps DEF SignedInv, Backed
  <2>4. Types' /\ Backed'
    BY <2>1, <2>3, MoveKeeps DEF SignedInv, Types, BindingTypeOK, Backed
  <2> QED BY <2>3, <2>4 DEF SignedInv
<1> QED BY <1>1, <1>2, <1>3

\* A late write was signed before it was late.
LEMMA LateStep ==
  ASSUME SignedInv, NEW i \in Id, NEW k \in Key, LateRegister(i, k)
  PROVE  SignedInv'
<1>1. <<i, k>> \in signed /\ Upsert(i, k) /\ late' \subseteq late
      /\ UNCHANGED <<localVars, cliVars, handler, signed>>
  BY DEF LateRegister, SignedInv, Backed
<1>2. machines' \in [Id -> Key \cup {None}] /\ RegisteredWasSigned'
  BY <1>1, UpsertKeeps
<1>3. Types'
  BY <1>1, <1>2 DEF SignedInv, Types, BindingTypeOK, LocalsRead, localVars, cliVars
<1>4. Backed'
  BY <1>1 DEF SignedInv, Backed
<1> QED BY <1>2, <1>3, <1>4 DEF SignedInv

\* A slot is freed; its process, if any, goes on with what it knows.
LEMMA FreeStep ==
  ASSUME SignedInv,
         \/ \E p \in Process : FinishLogin(p) \/ GoOnToPush(p) \/ HearRest(p)
         \/ \E s \in Slot : Drop(s)
  PROVE  SignedInv'
<1>1. PICK s \in Slot : Free(s)
  BY DEF FinishLogin, GoOnToPush, HearRest, Drop
<1>2. UNCHANGED <<localVars, machines, late, signed>>
  BY DEF FinishLogin, GoOnToPush, HearRest, Drop
<1>3. \/ UNCHANGED cliVars
      \/ \E p \in Process :
           \/ Exit(p)
           \/ /\ Goto(p, "config")
              /\ task' = [task EXCEPT ![p] = "push"]
              /\ id' = [id EXCEPT ![p] = None]
              /\ pub' = [pub EXCEPT ![p] = None]
  BY DEF FinishLogin, GoOnToPush, HearRest, Drop
<1>4. Types'
  <2>1. handler' \in [Slot -> Request \cup {None}]
    BY <1>1 DEF SignedInv, Types, BindingTypeOK, Free
  <2>2. /\ mode' \in [Process -> Mode] /\ task' \in [Process -> Task]
        /\ id' \in [Process -> Id \cup {None}] /\ pub' \in [Process -> Key \cup {None}]
        /\ LocalsRead'
    BY <1>3 DEF SignedInv, Types, BindingTypeOK, LocalsRead, cliVars, Exit, Goto,
                Mode, Task
  <2> QED BY <1>2, <2>1, <2>2 DEF SignedInv, Types, BindingTypeOK, localVars
<1>5. Backed'
  BY <1>1, <1>2 DEF SignedInv, Types, BindingTypeOK, Backed, Free
<1> QED BY <1>2, <1>4, <1>5 DEF SignedInv, RegisteredWasSigned

\* The request of a stopped process lives on without it.
LEMMA StopStep ==
  ASSUME SignedInv, NEW p \in Process, Stop(p)
  PROVE  SignedInv'
<1>1. /\ Exit(p) /\ Abandon({p})
      /\ writing' = writing \ {p}
      /\ UNCHANGED <<configId, keychain, minted, machines, late, signed>>
  BY DEF Stop
<1>2. \A s \in Slot : handler[s] # None => handler[s] \in Request
  BY DEF SignedInv, Types, BindingTypeOK
<1>3. \A s \in Slot :
        \/ handler'[s] = handler[s]
        \/ /\ handler[s] # None
           /\ handler'[s] \in Request
           /\ handler'[s].task = handler[s].task
           /\ handler'[s].id = handler[s].id
           /\ handler'[s].pub = handler[s].pub
           /\ handler'[s].at = handler[s].at
  BY <1>1, <1>2 DEF Abandon, Request
<1>4. handler' \in [Slot -> Request \cup {None}]
  <2>1. \A s \in Slot : handler'[s] \in Request \cup {None}
    BY <1>3 DEF SignedInv, Types, BindingTypeOK
  <2> QED BY <1>1, <2>1 DEF Abandon
<1>5. Types'
  BY <1>1, <1>4 DEF SignedInv, Types, BindingTypeOK, LocalsRead, Exit, Goto, Mode,
                    Task, localVars
<1>6. Backed'
  BY <1>1, <1>3 DEF SignedInv, Backed
<1> QED BY <1>1, <1>5, <1>6 DEF SignedInv, RegisteredWasSigned

\* Writes under way at the crash were signed.
LEMMA CrashStep ==
  ASSUME SignedInv, Crash
  PROVE  SignedInv'
<1>1. /\ handler' = [s \in Slot |-> None]
      /\ UNCHANGED <<localVars, machines, signed>>
  BY DEF Crash, LeaveBehind
<1>2. late' \subseteq signed
  BY DEF Crash, LeaveBehind, At, SignedInv, Backed
<1>3. late' \subseteq Id \X Key
  BY <1>2 DEF SignedInv, Types, BindingTypeOK
<1>4. /\ mode' \in [Process -> Mode] /\ task' \in [Process -> Task]
      /\ id' \in [Process -> Id \cup {None}] /\ pub' \in [Process -> Key \cup {None}]
      /\ LocalsRead'
  BY DEF Crash, LeaveBehind, SignedInv, Types, BindingTypeOK, LocalsRead, Mode, Task
<1>5. Types'
  BY <1>1, <1>3, <1>4 DEF SignedInv, Types, BindingTypeOK, localVars
<1>6. Backed'
  BY <1>1, <1>2 DEF Backed
<1> QED BY <1>1, <1>5, <1>6 DEF SignedInv, RegisteredWasSigned

\* Every step of the specification keeps the invariant.
LEMMA StepSigned == SignedInv /\ [Next]_vars => SignedInv'
<1> SUFFICES ASSUME SignedInv, [Next]_vars PROVE SignedInv'
  OBVIOUS
<1>1. ASSUME NEW p \in Process,
             Work(p) \/ FinishLogin(p) \/ ReadCopy(p) \/ WipeKey(p)
      PROVE  SignedInv'
  <2>1. CASE Sign(p) \/ NewSigner(p) BY <2>1, ArriveStep
  <2>2. CASE GoOnToPush(p) \/ HearRest(p) \/ FinishLogin(p) BY <2>2, FreeStep
  <2>3. CASE \/ StartRun(p) \/ HaveConfig(p) \/ BadConfig(p) \/ MissConfig(p)
             \/ NewConfig(p) \/ WriteConfig(p)
             \/ HaveKey(p) \/ MissKey(p) \/ NewKey(p)
             \/ ReadCopy(p) \/ SaveCopy(p) \/ WriteCopy(p)
             \/ WipeKey(p) \/ WipeFiles(p)
    BY <2>3, LocalStep, ServerSame DEF SignedInv
  <2> QED BY <1>1, <2>1, <2>2, <2>3 DEF Work
<1>2. ASSUME NEW s \in Slot, Serve(s) PROVE SignedInv'
  BY <1>2, ServeStep, FreeStep DEF Serve
<1>3. ASSUME Fail PROVE SignedInv'
  BY <1>3, ServeStep, StopStep, CrashStep DEF Fail
<1>4. CASE UNCHANGED vars
  BY <1>4 DEF vars, localVars, cliVars, serverVars, SignedInv, Types,
              BindingTypeOK, LocalsRead, Backed, RegisteredWasSigned
<1> QED BY <1>1, <1>2, <1>3, <1>4, LateStep DEF Next

-----------------------------------------------------------------------------
\* Whatever processes race, fail or are killed, the state has its types.
THEOREM BindingTypeCorrect == Spec => []BindingTypeOK
<1>1. SignedInv => BindingTypeOK
  BY DEF SignedInv, Types
<1> QED BY <1>1, InitSigned, StepSigned, PTL DEF Spec

\* A row of machines always carries a key that signed a registration of that
\* machine_id (machines.go:72-92), for any number of racing processes.
THEOREM RegisteredWasSignedAlways == Spec => []RegisteredWasSigned
<1>1. SignedInv => RegisteredWasSigned
  BY DEF SignedInv
<1> QED BY <1>1, InitSigned, StepSigned, PTL DEF Spec

-----------------------------------------------------------------------------
(***************************************************************************)
(* One process at a time (Alone), no wipe stopped half-way.  Then a        *)
(* machine_id is signed for with one key only (OneKeyEach), that of the    *)
(* keychain while the id is the one of config.json; the process works with *)
(* the id and the key that are there, or writes an id that was signed for  *)
(* with no other key (LocalsAgree); and a request carries                  *)
(* them, or those of a time before a wipe (Carried).                       *)
(***************************************************************************)
Alone == (\A p, q \in Process : p = q) /\ "wipe" \notin Faults

OneKeyEach ==
  /\ \A b, c \in signed : b[1] = c[1] => b[2] = c[2]
  /\ \A b \in signed : b[1] \in minted
  /\ configId \in minted \cup {None, Empty}
  /\ (\A p \in Process : mode[p] # "wipe") =>
       \A b \in signed : b[1] = configId => b[2] = keychain

LocalsAgree ==
  \A p \in Process :
    /\ mode[p] \in {"key", "newkey", "sign", "newsigner", "rewrite", "wait"} =>
         id[p] = configId /\ configId \in Id
    /\ mode[p] \in {"save", "resave"} =>
         /\ p \in writing /\ configId = Empty
         /\ id[p] \in minted
         /\ \A b \in signed : b[1] = id[p] => b[2] = keychain
    /\ mode[p] \in {"newkey", "newsigner"} => keychain = None
    /\ (mode[p] \in {"sign", "newsigner"} /\ task[p] = "register") => pub[p] = keychain
    /\ task[p] = "push" => /\ mode[p] \in {"config", "sign", "wait"}
                           /\ configId \in Id /\ keychain # None
                           /\ machines[configId] = keychain

Carried ==
  \A s \in Slot : handler[s] # None =>
    /\ handler[s].at # "refused"
    /\ (handler[s].task = "push" \/ handler[s].at = "ok") =>
         machines[handler[s].id] = handler[s].pub
    /\ \A p \in Process : handler[s].by = p =>
         /\ mode[p] = "wait" /\ task[p] = handler[s].task
         /\ handler[s].id = configId /\ handler[s].pub = keychain

OneRequest == \A s, t \in Slot :
  (handler[s] # None /\ handler[t] # None /\ handler[s].by = handler[t].by /\ s # t)
    => handler[s].by = None

AloneInv == OneKeyEach /\ LocalsAgree /\ Carried /\ OneRequest

LEMMA InitAlone == Init => AloneInv
BY DeviceBindingAssumption
DEF Init, AloneInv, OneKeyEach, LocalsAgree, Carried, OneRequest

\* While the process does not wait, no request is its own.
LEMMA NobodyAsks ==
  ASSUME Alone, AloneInv, NEW p \in Process, mode[p] # "wait",
         UNCHANGED <<serverVars, signed>>
  PROVE  Carried' /\ OneRequest'
BY DEF Alone, AloneInv, Carried, OneRequest, serverVars

\* Steps of the process on its own keep id and key what the server knows.
LEMMA LocalAlone ==
  ASSUME Alone, SignedInv, AloneInv, NEW p \in Process,
         \/ StartRun(p) \/ HaveConfig(p) \/ BadConfig(p) \/ MissConfig(p)
         \/ NewConfig(p) \/ WriteConfig(p)
         \/ HaveKey(p) \/ MissKey(p) \/ NewKey(p)
         \/ ReadCopy(p) \/ SaveCopy(p) \/ WriteCopy(p) \/ WipeKey(p) \/ WipeFiles(p)
  PROVE  AloneInv'
<1>1. \A q \in Process : q = p
  BY DEF Alone
<1>2. /\ BindingTypeOK /\ LocalsRead
      /\ OneKeyEach /\ LocalsAgree
  BY DEF SignedInv, Types, AloneInv
<1>3. mode[p] # "wait" /\ UNCHANGED <<serverVars, signed>>
  BY DEF StartRun, HaveConfig, BadConfig, MissConfig, NewConfig, WriteConfig,
         HaveKey, MissKey, NewKey, ReadCopy, SaveCopy, WriteCopy, WipeKey, WipeFiles
<1>4. Carried' /\ OneRequest'
  BY <1>3, NobodyAsks
<1>5. \A b \in signed : b[1] \in Id /\ b[2] \in Key /\ b[2] # None
  BY <1>2, DeviceBindingAssumption DEF BindingTypeOK
<1> USE DEF BindingTypeOK, LocalsRead, OneKeyEach, LocalsAgree, Goto, GoOn, localVars,
            serverVars
<1>6. CASE StartRun(p)
  BY <1>1, <1>2, <1>4, <1>6 DEF StartRun, AloneInv
<1>7. CASE HaveConfig(p)
  BY <1>1, <1>2, <1>4, <1>7 DEF HaveConfig, AloneInv
<1>8. CASE MissConfig(p)
  BY <1>1, <1>2, <1>4, <1>8, DeviceBindingAssumption DEF MissConfig, AloneInv
<1>9. CASE NewConfig(p)
  <2>1. PICK i \in Id \ minted : /\ id' = [id EXCEPT ![p] = i]
                                 /\ minted' = minted \cup {i}
    BY <1>9 DEF NewConfig
  <2>2. /\ configId' = Empty /\ p \in writing' /\ keychain' = keychain
        /\ mode' = [mode EXCEPT ![p] = "save"] /\ task' = task
        /\ mode[p] = "newid"
    BY <1>9 DEF NewConfig, OpenConfig
  <2>3. OneKeyEach'
    BY <1>1, <1>2, <1>3, <1>5, <2>1, <2>2, DeviceBindingAssumption
  <2>4. LocalsAgree'
    BY <1>1, <1>2, <1>3, <2>1, <2>2, DeviceBindingAssumption
  <2> QED BY <1>4, <2>3, <2>4 DEF AloneInv
<1>10. CASE HaveKey(p)
  BY <1>1, <1>2, <1>4, <1>10 DEF HaveKey, AloneInv
<1>11. CASE MissKey(p)
  BY <1>1, <1>2, <1>4, <1>11 DEF MissKey, AloneInv
<1>12. CASE NewKey(p)
  <2>1. PICK k \in Key \ minted : /\ keychain' = k
                                  /\ minted' = minted \cup {k}
                                  /\ pub' = [pub EXCEPT ![p] = k]
                                  /\ configId' = configId
    BY <1>12 DEF NewKey, MakeKey
  <2>2. mode[p] = "newkey" /\ mode' = [mode EXCEPT ![p] = "sign"]
        /\ UNCHANGED <<task, id, serverVars, signed>>
    BY <1>12 DEF NewKey
  <2>3. OneKeyEach'
    BY <1>1, <1>2, <1>5, <2>1, <2>2
  <2>4. LocalsAgree'
    BY <1>1, <1>2, <2>1, <2>2, DeviceBindingAssumption
  <2> QED BY <1>4, <2>3, <2>4 DEF AloneInv
<1>13. CASE ReadCopy(p)
  BY <1>1, <1>2, <1>4, <1>13 DEF ReadCopy, AloneInv
<1>14. CASE SaveCopy(p)
  <2>1. /\ configId' = Empty /\ p \in writing'
        /\ mode' = [mode EXCEPT ![p] = "resave"] /\ mode[p] = "rewrite"
        /\ UNCHANGED <<keychain, minted, task, id>>
    BY <1>14 DEF SaveCopy, OpenConfig
  <2>2. OneKeyEach'
    BY <1>1, <1>2, <1>3, <1>5, <2>1, DeviceBindingAssumption
  <2>3. LocalsAgree'
    BY <1>1, <1>2, <1>3, <2>1, DeviceBindingAssumption
  <2> QED BY <1>4, <2>2, <2>3 DEF AloneInv
<1>15. CASE WipeKey(p)
  BY <1>1, <1>2, <1>4, <1>15 DEF WipeKey, AloneInv
<1>16. CASE WipeFiles(p)
  <2>1. OneKeyEach'
    BY <1>2, <1>5, <1>16, DeviceBindingAssumption DEF WipeFiles
  <2>2. LocalsAgree'
    BY <1>1, <1>2, <1>16 DEF WipeFiles, Exit
  <2> QED BY <1>4, <2>1, <2>2 DEF AloneInv
<1>17. CASE BadConfig(p)
  BY <1>1, <1>2, <1>4, <1>17, DeviceBindingAssumption
  DEF BadConfig, Exit, Unreadable, AloneInv
<1>18. CASE WriteConfig(p) \/ WriteCopy(p)
  <2>1. /\ configId' = id[p] /\ id[p] \in Id /\ id[p] \in minted
        /\ mode[p] \in {"save", "resave"}
        /\ UNCHANGED <<keychain, minted>>
    BY <1>2, <1>18 DEF WriteConfig, WriteCopy, FillConfig
  <2>2. OneKeyEach'
    BY <1>1, <1>2, <1>3, <2>1
  <2>3. LocalsAgree'
    BY <1>1, <1>2, <1>18, <2>1, DeviceBindingAssumption
    DEF WriteConfig, WriteCopy, Exit, Task
  <2> QED BY <1>4, <2>2, <2>3 DEF AloneInv
<1> QED BY <1>6, <1>7, <1>8, <1>9, <1>10, <1>11, <1>12, <1>13, <1>14, <1>15, <1>16,
           <1>17, <1>18

\* The request leaves with the id and the key that are there: a registration
\* is let in, and a push carries what its registration has left in the row.
LEMMA ArriveAlone ==
  ASSUME Alone, SignedInv, AloneInv, NEW p \in Process, Sign(p) \/ NewSigner(p)
  PROVE  AloneInv'
<1>1. \A q \in Process : q = p
  BY DEF Alone
<1>2. /\ BindingTypeOK /\ LocalsRead
      /\ OneKeyEach /\ LocalsAgree /\ Carried /\ OneRequest
  BY DEF SignedInv, Types, AloneInv
<1>3. Sign(p)
  <2>1. ASSUME NewSigner(p) PROVE FALSE
    <3>1. keychain = None /\ task[p] = "register"
      BY <1>2, <2>1 DEF NewSigner, LocalsAgree, BindingTypeOK, Task
    <3>2. pub[p] = keychain /\ pub[p] \in Key
      BY <1>2, <2>1, <3>1 DEF NewSigner, LocalsAgree, LocalsRead
    <3> QED BY <3>1, <3>2, DeviceBindingAssumption
  <2> QED BY <2>1
<1>4. /\ mode[p] = "sign" /\ id[p] = configId /\ configId \in Id /\ keychain # None
      /\ task[p] = "register" => pub[p] = keychain
      /\ task[p] = "push" => machines[configId] = keychain
      /\ UNCHANGED <<localVars, task, id, pub, machines, late>>
      /\ mode' = [mode EXCEPT ![p] = "wait"]
  BY <1>2, <1>3 DEF Sign, LocalsAgree, Goto, Arrive
<1> DEFINE r == [by |-> p, task |-> task[p], id |-> configId, pub |-> keychain,
                 at |-> "lookup"]
<1>5. PICK s \in Slot : handler[s] = None /\ handler' = [handler EXCEPT ![s] = r]
  BY <1>2, <1>3, <1>4 DEF Sign, Arrive, BindingTypeOK, Task
<1>6. signed' = signed \/ signed' = signed \cup {<<configId, keychain>>}
  BY <1>3, <1>4 DEF Sign, Arrive
<1>7. OneKeyEach'
  <2>1. \A b \in signed : b[1] = configId => b[2] = keychain
    BY <1>1, <1>2, <1>4 DEF OneKeyEach
  <2> QED BY <1>1, <1>2, <1>4, <1>6, <2>1, DeviceBindingAssumption
          DEF OneKeyEach, localVars
<1>8. LocalsAgree'
  BY <1>1, <1>2, <1>4 DEF LocalsAgree, BindingTypeOK, localVars
<1>9. \A t \in Slot \ {s} : handler'[t] = handler[t]
      /\ (handler[t] # None => handler[t].by # p)
  BY <1>2, <1>4, <1>5 DEF BindingTypeOK, Carried
<1>10. handler'[s] = r /\ mode'[p] = "wait"
  BY <1>2, <1>4, <1>5 DEF BindingTypeOK
<1>11. Carried'
  <2>1. r.task = "push" => machines'[r.id] = r.pub
    BY <1>4
  <2> QED BY <1>1, <1>2, <1>4, <1>9, <1>10, <2>1 DEF Carried, localVars
<1>12. OneRequest'
  BY <1>2, <1>9, <1>10 DEF OneRequest
<1> QED BY <1>7, <1>8, <1>11, <1>12 DEF AloneInv

RowsStay == \A i \in Id : machines[i] # None => machines'[i] = machines[i]

\* A machine is signed for with one key, so a write changes no row.
LEMMA UpsertChangesNothing ==
  ASSUME SignedInv, AloneInv, NEW i \in Id, NEW k \in Key, Upsert(i, k),
         <<i, k>> \in signed
  PROVE  RowsStay /\ machines'[i] = k
BY DEF SignedInv, Types, BindingTypeOK, RegisteredWasSigned, AloneInv, OneKeyEach,
       Upsert, RowsStay

\* Moving a request on, not to "refused".
LEMMA MoveAlone ==
  ASSUME SignedInv, AloneInv, NEW s \in Slot, handler[s] # None,
         NEW a \in {"upsert", "ok", "failed"}, MoveTo(s, a),
         UNCHANGED <<localVars, cliVars, signed>>, RowsStay,
         a = "ok" => machines'[handler[s].id] = handler[s].pub
  PROVE  AloneInv'
<1>1. handler[s] \in Request
  BY DEF SignedInv, Types, BindingTypeOK
<1>2. /\ \A t \in Slot \ {s} : handler'[t] = handler[t]
      /\ handler'[s].at = a
      /\ handler'[s].by = handler[s].by /\ handler'[s].task = handler[s].task
      /\ handler'[s].id = handler[s].id /\ handler'[s].pub = handler[s].pub
  <2>1. /\ handler'[s] = [handler[s] EXCEPT !.at = a]
        /\ \A t \in Slot \ {s} : handler'[t] = handler[t]
    BY DEF MoveTo, SignedInv, Types, BindingTypeOK
  <2>2. [handler[s] EXCEPT !.at = a] \in Request
    BY <1>1 DEF Request
  <2> QED BY <1>1, <2>1, <2>2 DEF Request
<1>3. \A t \in Slot : handler[t] # None =>
        handler[t].id \in Id /\ handler[t].pub \in Key /\ handler[t].pub # None
  BY DeviceBindingAssumption DEF SignedInv, Types, BindingTypeOK, Request
<1>4. OneKeyEach'
  BY DEF AloneInv, OneKeyEach, localVars, cliVars
<1>5. LocalsAgree'
  <2>1. \A p \in Process : task[p] = "push" => machines'[configId] = machines[configId]
    BY DEF SignedInv, Types, BindingTypeOK, AloneInv, LocalsAgree, RowsStay
  <2> QED BY <2>1 DEF AloneInv, LocalsAgree, localVars, cliVars
<1>6. Carried'
  BY <1>2, <1>3 DEF AloneInv, Carried, RowsStay, localVars, cliVars
<1>7. OneRequest'
  BY <1>2 DEF AloneInv, OneRequest
<1> QED BY <1>4, <1>5, <1>6, <1>7 DEF AloneInv

\* No handler refuses: the row, if any, carries the one key the machine ever
\* signed with.
LEMMA ServeAlone ==
  ASSUME SignedInv, AloneInv, NEW s \in Slot,
         LookUp(s) \/ Register(s) \/ RegisterFails(s) \/ Admit(s) \/ GateFails(s)
  PROVE  AloneInv'
<1>0. ASSUME handler[s] # None
      PROVE  handler[s].id \in Id /\ handler[s].pub \in Key
  BY <1>0 DEF SignedInv, Types, BindingTypeOK, Request
<1>1. CASE LookUp(s)
  <2>1. /\ At(s, "register", "lookup")
        /\ UNCHANGED <<localVars, cliVars, machines, late, signed>>
    BY <1>1 DEF LookUp
  <2>2. machines[handler[s].id] \in {None, handler[s].pub}
    BY <1>0, <2>1 DEF At, SignedInv, Backed, RegisteredWasSigned, AloneInv, OneKeyEach
  <2> QED BY <1>1, <2>1, <2>2, MoveAlone DEF LookUp, At, RowsStay
<1>2. CASE Register(s)
  <2>1. /\ At(s, "register", "upsert") /\ MoveTo(s, "ok")
        /\ Upsert(handler[s].id, handler[s].pub)
        /\ UNCHANGED <<localVars, cliVars, late, signed>>
    BY <1>2 DEF Register
  <2>2. <<handler[s].id, handler[s].pub>> \in signed
    BY <2>1 DEF At, SignedInv, Backed
  <2>3. RowsStay /\ machines'[handler[s].id] = handler[s].pub
    BY <1>0, <2>1, <2>2, UpsertChangesNothing DEF At
  <2> QED BY <2>1, <2>3, MoveAlone DEF At
<1>3. CASE RegisterFails(s) \/ GateFails(s)
  BY <1>3, MoveAlone DEF RegisterFails, LeaveBehind, GateFails, At, RowsStay
<1>4. CASE Admit(s)
  <2>1. machines[handler[s].id] = handler[s].pub
    BY <1>4 DEF Admit, At, AloneInv, Carried
  <2> QED BY <1>4, <2>1, MoveAlone DEF Admit, At, RowsStay
<1> QED BY <1>1, <1>2, <1>3, <1>4

LEMMA LateAlone ==
  ASSUME SignedInv, AloneInv, NEW i \in Id, NEW k \in Key, LateRegister(i, k)
  PROVE  AloneInv'
<1>1. RowsStay
  BY UpsertChangesNothing DEF LateRegister, SignedInv, Backed
<1>2. UNCHANGED <<localVars, cliVars, handler, signed>>
  BY DEF LateRegister
<1>3. \A t \in Slot : handler[t] # None =>
        handler[t].id \in Id /\ handler[t].pub \in Key /\ handler[t].pub # None
  BY DeviceBindingAssumption DEF SignedInv, Types, BindingTypeOK, Request
<1>4. OneKeyEach' /\ OneRequest'
  BY <1>2 DEF AloneInv, OneKeyEach, OneRequest, localVars, cliVars
<1>5. LocalsAgree'
  <2>1. \A p \in Process : task[p] = "push" => machines'[configId] = machines[configId]
    BY <1>1 DEF SignedInv, Types, BindingTypeOK, AloneInv, LocalsAgree, RowsStay
  <2> QED BY <1>2, <2>1 DEF AloneInv, LocalsAgree, localVars, cliVars
<1>6. Carried'
  BY <1>1, <1>2, <1>3 DEF AloneInv, Carried, RowsStay, localVars, cliVars
<1> QED BY <1>4, <1>5, <1>6 DEF AloneInv

\* What is left when a slot is freed, or its process is gone, belongs to
\* nobody: a process has one request at most.
LEMMA FreeAlone ==
  ASSUME Alone, SignedInv, AloneInv,
         \/ \E p \in Process : FinishLogin(p) \/ GoOnToPush(p) \/ HearRest(p)
         \/ \E s \in Slot : Drop(s)
  PROVE  AloneInv'
<1>1. PICK s \in Slot :
        /\ Answered(s) /\ Free(s)
        /\ UNCHANGED <<localVars, machines, late, signed>>
        /\ \/ handler[s].by = None /\ UNCHANGED cliVars
           \/ \E p \in Process : handler[s].by = p /\ Exit(p)
           \/ \E p \in Process : /\ Registered(p, s)
                                 /\ Goto(p, "config")
                                 /\ task' = [task EXCEPT ![p] = "push"]
                                 /\ id' = [id EXCEPT ![p] = None]
                                 /\ pub' = [pub EXCEPT ![p] = None]
  BY DEF FinishLogin, GoOnToPush, HearRest, Drop, Registered
<1>2. /\ handler'[s] = None /\ \A t \in Slot \ {s} : handler'[t] = handler[t]
      /\ handler[s] # None
  BY <1>1 DEF Free, Answered, SignedInv, Types, BindingTypeOK
<1>3. OneRequest'
  BY <1>2 DEF AloneInv, OneRequest
<1>4. CASE UNCHANGED cliVars
  BY <1>1, <1>2, <1>3, <1>4
  DEF AloneInv, OneKeyEach, LocalsAgree, Carried, localVars, cliVars
<1>5. ASSUME NEW p \in Process, handler[s].by = p, mode'[p] # "wipe",
             \A q \in Process : q = p
      PROVE  OneKeyEach' /\ Carried'
  <2>1. \A t \in Slot \ {s} : handler[t] # None => handler[t].by # p
    BY <1>2, <1>5, DeviceBindingAssumption DEF AloneInv, OneRequest
  <2>2. Carried'
    BY <1>1, <1>2, <1>5, <2>1 DEF AloneInv, Carried, localVars
  <2>3. mode[p] = "wait"
    BY <1>2, <1>5 DEF AloneInv, Carried
  <2>4. OneKeyEach'
    BY <1>1, <1>5, <2>3 DEF AloneInv, OneKeyEach, localVars
  <2> QED BY <2>2, <2>4
<1>6. ASSUME NEW p \in Process, handler[s].by = p, Exit(p) PROVE AloneInv'
  <2>1. \A q \in Process : q = p
    BY DEF Alone
  <2>2. mode'[p] = "idle" /\ task'[p] = "register"
    BY <1>6 DEF Exit, Goto, SignedInv, Types, BindingTypeOK
  <2>3. LocalsAgree'
    BY <2>1, <2>2 DEF LocalsAgree
  <2> QED BY <1>3, <1>5, <1>6, <2>1, <2>2, <2>3 DEF AloneInv
<1>7. ASSUME NEW p \in Process, Registered(p, s), Goto(p, "config"),
             task' = [task EXCEPT ![p] = "push"]
      PROVE  AloneInv'
  <2>1. \A q \in Process : q = p
    BY DEF Alone
  <2>2. mode'[p] = "config" /\ task'[p] = "push" /\ handler[s].by = p
    BY <1>7 DEF Registered, Goto, SignedInv, Types, BindingTypeOK
  <2>3. /\ mode[p] = "wait" /\ handler[s].id = configId /\ handler[s].pub = keychain
        /\ machines[handler[s].id] = handler[s].pub
    BY <1>2, <1>7 DEF Registered, AloneInv, Carried
  <2>4. configId \in Id /\ keychain # None
    BY <1>2, <2>3, DeviceBindingAssumption
    DEF SignedInv, Types, BindingTypeOK, Request
  <2>5. LocalsAgree'
    BY <1>1, <2>1, <2>2, <2>3, <2>4 DEF LocalsAgree, localVars
  <2> QED BY <1>3, <1>5, <2>1, <2>2, <2>5 DEF AloneInv
<1> QED BY <1>1, <1>4, <1>6, <1>7

LEMMA StopAlone ==
  ASSUME Alone, SignedInv, AloneInv, NEW p \in Process, Stop(p)
  PROVE  AloneInv'
<1>1. \A q \in Process : q = p
  BY DEF Alone
<1>2. /\ mode[p] # "wipe" /\ Abandon({p})
      /\ mode'[p] = "idle" /\ task'[p] = "register"
      /\ UNCHANGED <<configId, keychain, minted, machines, late, signed>>
  BY DEF Alone, Stop, Exit, Goto, SignedInv, Types, BindingTypeOK
<1>3. \A t \in Slot : handler[t] # None => handler[t] \in Request
  BY DEF SignedInv, Types, BindingTypeOK
<1>4. \A t \in Slot : handler[t] # None =>
        /\ handler'[t].by = None
        /\ handler'[t].task = handler[t].task /\ handler'[t].at = handler[t].at
        /\ handler'[t].id = handler[t].id /\ handler'[t].pub = handler[t].pub
  <2> SUFFICES ASSUME NEW t \in Slot, handler[t] # None
               PROVE  /\ handler'[t].by = None
                      /\ handler'[t].task = handler[t].task
                      /\ handler'[t].at = handler[t].at
                      /\ handler'[t].id = handler[t].id
                      /\ handler'[t].pub = handler[t].pub
    OBVIOUS
  <2>1. handler[t].by = p \/ handler[t].by = None
    BY <1>1, <1>3 DEF Request
  <2>2. CASE handler[t].by = p
    BY <1>2, <1>3, <2>2 DEF Abandon, Request
  <2>3. CASE handler[t].by = None
    BY <1>2, <1>3, <2>3, DeviceBindingAssumption DEF Abandon, Request
  <2> QED BY <2>1, <2>2, <2>3
<1>5. \A t \in Slot : handler[t] = None => handler'[t] = None
  BY <1>2 DEF Abandon
<1>6. OneKeyEach' /\ LocalsAgree'
  BY <1>1, <1>2 DEF AloneInv, OneKeyEach, LocalsAgree, localVars
<1>7. Carried'
  BY <1>1, <1>2, <1>4, <1>5, DeviceBindingAssumption DEF AloneInv, Carried
<1>8. OneRequest'
  BY <1>4, <1>5 DEF OneRequest
<1> QED BY <1>6, <1>7, <1>8 DEF AloneInv

LEMMA CrashAlone ==
  ASSUME Alone, SignedInv, AloneInv, Crash
  PROVE  AloneInv'
<1>1. /\ handler' = [s \in Slot |-> None]
      /\ UNCHANGED <<localVars, machines, signed>>
  BY DEF Crash, LeaveBehind
<1>2. \A p \in Process : \/ /\ mode[p] = "wait"
                            /\ mode'[p] = "idle" /\ task'[p] = "register"
                         \/ /\ mode'[p] = mode[p] /\ task'[p] = task[p]
                            /\ id'[p] = id[p] /\ pub'[p] = pub[p]
  BY DEF Crash, LeaveBehind
<1>3. OneKeyEach'
  <2>1. (\A p \in Process : mode'[p] # "wipe") => \A p \in Process : mode[p] # "wipe"
    BY <1>2
  <2> QED BY <1>1, <2>1 DEF AloneInv, OneKeyEach, localVars
<1>4. LocalsAgree'
  BY <1>1, <1>2 DEF AloneInv, LocalsAgree, localVars
<1> QED BY <1>1, <1>3, <1>4 DEF AloneInv, Carried, OneRequest

LEMMA StepAlone == Alone /\ SignedInv /\ AloneInv /\ [Next]_vars => AloneInv'
<1> SUFFICES ASSUME Alone, SignedInv, AloneInv, [Next]_vars PROVE AloneInv'
  OBVIOUS
<1>1. ASSUME NEW p \in Process,
             Work(p) \/ FinishLogin(p) \/ ReadCopy(p) \/ WipeKey(p)
      PROVE  AloneInv'
  BY <1>1, LocalAlone, ArriveAlone, FreeAlone DEF Work
<1>2. ASSUME NEW s \in Slot, Serve(s) PROVE AloneInv'
  BY <1>2, ServeAlone, FreeAlone DEF Serve
<1>3. ASSUME Fail PROVE AloneInv'
  BY <1>3, ServeAlone, StopAlone, CrashAlone DEF Fail
<1>4. CASE UNCHANGED vars
  BY <1>4 DEF vars, localVars, cliVars, serverVars, AloneInv, OneKeyEach,
              LocalsAgree, Carried, OneRequest
<1> QED BY <1>1, <1>2, <1>3, <1>4, LateAlone DEF Next

\* Both invariants, for one process and no wipe stopped half-way.
LEMMA AloneAlways == ASSUME Alone PROVE Spec => [](SignedInv /\ AloneInv)
<1>1. Init => SignedInv /\ AloneInv
  BY InitSigned, InitAlone
<1>2. SignedInv /\ AloneInv /\ [Next]_vars => (SignedInv /\ AloneInv)'
  BY StepSigned, StepAlone
<1> QED BY <1>1, <1>2, PTL DEF Spec

-----------------------------------------------------------------------------
\* With one process at a time and no wipe stopped half-way, the row of the
\* machine_id of config.json carries the keychain's key (machines.go:122),
\* whatever fails, times out or runs late.
THEOREM BindingAgreesAlone == ASSUME Alone PROVE Spec => []BindingAgrees
<1>1. SignedInv /\ AloneInv => BindingAgrees
  <2> SUFFICES ASSUME SignedInv, AloneInv, configId \in Id,
                      \A p \in Process : mode[p] # "wipe"
               PROVE  machines[configId] \in {None, keychain}
    BY DEF BindingAgrees
  <2> QED BY DEF SignedInv, Types, BindingTypeOK, RegisteredWasSigned, AloneInv,
                 OneKeyEach
<1> QED BY <1>1, AloneAlways, PTL

\* Then no request is answered 401 or 409 for its key either (machines.go:87,
\* 117, device_sig_middleware.go:111).
THEOREM NeverRefusedAlone == ASSUME Alone PROVE Spec => []NeverRefused
<1>1. AloneInv => NeverRefused
  BY DEF AloneInv, Carried, NeverRefused
<1> QED BY <1>1, AloneAlways, PTL

\* machines.go:99, "do not allow changing the stored device key", is what the
\* server does as long as registrations do not race and no wipe stops half-way.
THEOREM KeyNeverChangesAlone == ASSUME Alone PROVE Spec => KeyNeverChanges
<1>1. ASSUME SignedInv, AloneInv, [Next]_vars PROVE RowsStay
  <2>1. CASE UNCHANGED machines
    BY <2>1 DEF RowsStay
  <2>2. ASSUME NEW s \in Slot, Register(s) PROVE RowsStay
    <3>1. handler[s].id \in Id /\ handler[s].pub \in Key
          /\ <<handler[s].id, handler[s].pub>> \in signed
      BY <1>1, <2>2 DEF Register, At, SignedInv, Types, BindingTypeOK, Backed, Request
    <3> QED BY <1>1, <2>2, <3>1, UpsertChangesNothing DEF Register
  <2>3. ASSUME NEW i \in Id, NEW k \in Key, LateRegister(i, k) PROVE RowsStay
    <3>1. <<i, k>> \in signed
      BY <1>1, <2>3 DEF LateRegister, SignedInv, Backed
    <3> QED BY <1>1, <2>3, <3>1, UpsertChangesNothing DEF LateRegister
  <2>4. ASSUME NEW p \in Process,
               Work(p) \/ FinishLogin(p) \/ ReadCopy(p) \/ WipeKey(p) \/ Stop(p)
        PROVE  UNCHANGED machines
    BY <2>4 DEF Work, StartRun, HaveConfig, BadConfig, MissConfig, NewConfig,
       WriteConfig, HaveKey, MissKey, NewKey, Sign, NewSigner, Arrive, GoOnToPush,
       HearRest, SaveCopy, WriteCopy, WipeFiles, FinishLogin, ReadCopy, WipeKey, Stop,
       serverVars
  <2>5. ASSUME NEW s \in Slot, Serve(s) \/ RegisterFails(s) \/ GateFails(s)
        PROVE  Register(s) \/ UNCHANGED machines
    BY <2>5 DEF Serve, LookUp, Admit, Drop, RegisterFails, GateFails
  <2>6. Crash \/ UNCHANGED vars => UNCHANGED machines
    BY DEF Crash, vars, serverVars
  <2> QED BY <1>1, <2>1, <2>2, <2>3, <2>4, <2>5, <2>6 DEF Next, Fail
<1>2. SignedInv /\ AloneInv /\ [Next]_vars =>
        [\A i \in Id : machines[i] # None => machines'[i] = machines[i]]_vars
  BY <1>1 DEF RowsStay
<1>3. Spec => [][\A i \in Id : machines[i] # None => machines'[i] = machines[i]]_vars
  BY <1>2, AloneAlways, PTL DEF Spec
<1> QED BY <1>3 DEF KeyNeverChanges
=============================================================================

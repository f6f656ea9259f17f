------------------------- MODULE PushPipelineProofs -------------------------
(***************************************************************************)
(* What is proved about PushPipeline: types, that a commit marked pushed   *)
(* is stored but for roots given up, and that a row in progress has an     *)
(* owner, for any number of processes, requests, commits, roots and        *)
(* attempts.  The server's own invariant IInv carries over, since each     *)
(* step of the pipeline is one of the server or does not concern it        *)
(* (ImplementsServer).  Of the two promises of the documentation that a    *)
(* run refutes, one is proved for the failures under which it holds, and   *)
(* the other in a form in which it holds whatever fails.                   *)
(***************************************************************************)
EXTENDS PushPipeline, PushServerProofs

(***************************************************************************)
(* The inductive invariant.  A process that waits for a slot has there its *)
(* own request, or the answer to it (Asked), and no two wait for one       *)
(* (Apart).  The roots a process is through with are stored or given up    *)
(* (Through).                                                              *)
(***************************************************************************)
Asked(s, u) == /\ stage[s] \notin {"idle", "answered"} => call[s].unit = u
               /\ answer[s].status = "ok" => answer[s].unit = u

Waits(p) ==
  IF mode[p] = "wait"
    THEN /\ slot[p] \in Slot
         /\ target[p] \in todo[p]
         /\ Asked(slot[p], <<now[p], target[p]>>)
    ELSE slot[p] = None

Settled(c, r) == db[<<c, r>>] # None \/ <<c, r>> \in gaveUp

Through(p) == mode[p] \in {"send", "wait", "mark"} =>
  /\ now[p] \in Commit
  /\ todo[p] \subseteq RootsOf[now[p]]
  /\ \A r \in todo[p] : batch[p][r] \in Body
  /\ \A r \in RootsOf[now[p]] \ todo[p] : Settled(now[p], r)
  /\ mode[p] = "mark" => todo[p] = {}

Apart == \A p, q \in Process : p # q /\ slot[p] = slot[q] => slot[p] = None

ProcessInv == /\ \A p \in Process : Waits(p) /\ Through(p)
              /\ Apart

PipelineInv == /\ IInv
               /\ PipelineTypeOK
               /\ ProcessInv
               /\ PushedIsStoredOrGaveUp
               /\ RowHasOwner

-----------------------------------------------------------------------------
(* What a step of the server does to the slots and to the database.         *)
Open(s) == stage[s] \notin {"idle", "answered"}

\* The request of a slot stays what it is until it is answered, and the answer
\* tells of its unit.
Onward(s) == /\ Open(s)' => Open(s) /\ call'[s] = call[s]
             /\ answer'[s].status = "ok" => \/ answer'[s] = answer[s]
                                            \/ Open(s) /\ answer'[s].unit = call[s].unit

DbGrows == \A u \in Unit : db[u] # None => db'[u] # None

\* A reply tells of the unit it was asked for, or is not "ok".
LEMMA ReplyOnward ==
  ASSUME IInv, NEW s \in Slot, Open(s), NEW a, Reply(s, a),
         a.status = "ok" => a.unit = call[s].unit
  PROVE  \A t \in Slot : Onward(t)
BY DEF Reply, Onward, Open, IInv, TypeOK

LEMMA HandleOnward ==
  ASSUME IInv, NEW s \in Slot, Handle(s)
  PROVE  (\A t \in Slot : Onward(t)) /\ UNCHANGED db
<1> USE DEF Open
<1>1. CASE CreateRow(s) BY <1>1 DEF CreateRow, GoPush, Onward, IInv, TypeOK
<1>2. CASE CreateConflict(s) BY <1>2 DEF CreateConflict, Onward, IInv, TypeOK
<1>3. CASE Replay(s) BY <1>3, ReplyOnward DEF Replay, Ok
<1>4. CASE Conflict(s) BY <1>4, ReplyOnward DEF Conflict, Says
<1>5. CASE PushSucceeds(s)
  <2>1. CASE call[s].keyed BY <1>5, <2>1 DEF PushSucceeds, LeavePush, Onward, IInv, TypeOK
  <2>2. CASE ~call[s].keyed BY <1>5, <2>2, ReplyOnward DEF PushSucceeds, Ok
  <2> QED BY <2>1, <2>2
<1>6. CASE Settle(s) BY <1>6, ReplyOnward DEF Settle, Ok
<1>7. CASE Undo(s) BY <1>7, ReplyOnward DEF Undo, Says
<1> QED BY <1>1, <1>2, <1>3, <1>4, <1>5, <1>6, <1>7 DEF Handle

LEMMA FailOnward ==
  ASSUME IInv, NEW s \in Slot, Fail(s)
  PROVE  (\A t \in Slot : Onward(t)) /\ UNCHANGED db
<1> USE DEF Open
<1>1. CASE CreateFails(s) BY <1>1 DEF CreateFails, GoPush, Onward, IInv, TypeOK
<1>2. CASE GetFails(s) BY <1>2 DEF GetFails, GoPush, Onward, IInv, TypeOK
<1>3. CASE PushFails(s)
  <2>1. CASE call[s].keyed BY <1>3, <2>1 DEF PushFails, LeavePush, Onward, IInv, TypeOK
  <2>2. CASE ~call[s].keyed BY <1>3, <2>2, ReplyOnward DEF PushFails, Says
  <2> QED BY <2>1, <2>2
<1>4. CASE SettleFails(s) BY <1>4, ReplyOnward DEF SettleFails, Ok
<1>5. CASE UndoFails(s) BY <1>5, ReplyOnward DEF UndoFails, Says
<1> QED BY <1>1, <1>2, <1>3, <1>4, <1>5 DEF Fail

\* What is stored stays stored.
LEMMA DatabaseOnward ==
  ASSUME IInv, Database
  PROVE  (\A t \in Slot : Onward(t)) /\ DbGrows
<1> USE DEF RunLate
<1>1. UNCHANGED <<stage, call, answer>>
  BY DEF Database, RunRPC, RunLateInsert, RunLateRPC, RunLateSettle, RunLateDelete
<1>2. ASSUME NEW s \in Slot, RunRPC(s) PROVE DbGrows
  <2>1. call[s].unit \in Unit /\ call[s].body \in Body
    BY <1>2, OpenCall DEF RunRPC, IInv
  <2> QED BY <1>2, <2>1, StoreUnitKeeps DEF RunRPC, IInv, DbGrows
<1>3. ASSUME NEW c \in late, RunLateRPC(c) PROVE DbGrows
  <2>1. c.unit \in Unit /\ c.body \in Body
    BY <1>3 DEF RunLateRPC, IInv, TypeOK, LateCall, StoreInv, LateCarries
  <2> QED BY <1>3, <2>1, StoreUnitKeeps DEF RunLateRPC, IInv, DbGrows
<1>4. ASSUME NEW c \in late, RunLateInsert(c) \/ RunLateSettle(c) \/ RunLateDelete(c)
      PROVE  DbGrows
  BY <1>4 DEF RunLateInsert, RunLateSettle, RunLateDelete, DbGrows
<1> QED BY <1>1, <1>2, <1>3, <1>4 DEF Database, Onward, Open

LEMMA DeliverOnward ==
  ASSUME IInv, NEW s \in Slot, Deliver(s)
  PROVE  (\A t \in Slot : Onward(t)) /\ UNCHANGED db
BY DEF Deliver, NoAnswer, Onward, Open, IInv, TypeOK

LEMMA VanishOnward ==
  ASSUME IInv, NEW S \in SUBSET Slot, Vanish(S)
  PROVE  (\A t \in Slot : Onward(t)) /\ UNCHANGED db
BY DEF Vanish, NoAnswer, Onward, Open, IInv, TypeOK

-----------------------------------------------------------------------------
(* A row in progress has an owner, or its key is adrift.                    *)
Owned(u) == u \in adrift \/ \E s \in Slot : Holds(s) /\ KeyOf(s) = u

\* The slots keep the keys they hold, no row begins, and no row in progress is
\* taken for one that ended.
LEMMA OwnersStay ==
  ASSUME RowHasOwner,
         \A u \in adrift \ adrift' : idem'[u].status # "in_progress",
         \A s \in Slot : Holds(s) => Holds(s)' /\ KeyOf(s)' = KeyOf(s),
         \A u \in Unit : idem'[u].status = "in_progress" => idem[u].status = "in_progress"
  PROVE  RowHasOwner'
BY DEF RowHasOwner

\* A slot that takes its row along, and no other.
LEMMA OwnerEnds ==
  ASSUME IInv, RowHasOwner, NEW s \in Slot, EndRow(KeyOf(s)), Open(s),
         \A t \in Slot \ {s} : Holds(t) => Holds(t)' /\ KeyOf(t)' = KeyOf(t),
         \A u \in Unit : idem'[u].status = "in_progress" =>
           idem[u].status = "in_progress" /\ u # KeyOf(s)
  PROVE  RowHasOwner'
<1> SUFFICES ASSUME NEW u \in Unit, idem'[u].status = "in_progress"
             PROVE  Owned(u)'
  BY DEF RowHasOwner, Owned
<1>1. CASE u \in adrift BY <1>1 DEF Owned, EndRow
<1>2. CASE \E t \in Slot : Holds(t) /\ KeyOf(t) = u
  <2>1. PICK t \in Slot : Holds(t) /\ KeyOf(t) = u BY <1>2
  <2>2. t # s BY <2>1
  <2> QED BY <2>1, <2>2 DEF Owned
<1> QED BY <1>1, <1>2 DEF RowHasOwner

\* Slots that leave their rows, whose keys go adrift.
LEMMA OwnersAbandon ==
  ASSUME IInv, RowHasOwner, UNCHANGED idem, NEW S \in SUBSET Slot, Abandon(S),
         \A t \in Slot \ S : Holds(t) => Holds(t)' /\ KeyOf(t)' = KeyOf(t)
  PROVE  RowHasOwner'
<1> SUFFICES ASSUME NEW u \in Unit, idem[u].status = "in_progress"
             PROVE  Owned(u)'
  BY DEF RowHasOwner, Owned
<1>1. CASE u \in adrift BY <1>1 DEF Owned, Abandon
<1>2. CASE \E t \in Slot : Holds(t) /\ KeyOf(t) = u
  <2>1. PICK t \in Slot : Holds(t) /\ KeyOf(t) = u BY <1>2
  <2>2. CASE t \in S BY <2>1, <2>2 DEF Owned, Abandon
  <2>3. CASE t \notin S BY <2>1, <2>3 DEF Owned
  <2> QED BY <2>2, <2>3
<1> QED BY <1>1, <1>2 DEF RowHasOwner

\* A slot that goes on to the RPC, perhaps with a new row.
LEMMA OwnerBegins ==
  ASSUME IInv, RowHasOwner, UNCHANGED adrift, NEW s \in Slot,
         stage[s] \in {"create", "get"}, GoPush(s),
         \A u \in Unit \ {KeyOf(s)} : idem'[u] = idem[u]
  PROVE  RowHasOwner'
<1> SUFFICES ASSUME NEW u \in Unit, idem'[u].status = "in_progress"
             PROVE  Owned(u)'
  BY DEF RowHasOwner, Owned
<1>1. \A t \in Slot : /\ call'[t] = call[t]
                      /\ stage'[t] = IF t = s THEN "push" ELSE stage[t]
  BY DEF GoPush, IInv, TypeOK
<1>2. CASE u = KeyOf(s)
  <2>1. call[s].keyed BY DEF IInv, KeyInv, KeyedStages
  <2> QED BY <1>1, <1>2, <2>1 DEF Owned, Holds, KeyOf
<1>3. CASE u # KeyOf(s)
  <2>1. CASE u \in adrift BY <2>1 DEF Owned
  <2>2. CASE \E t \in Slot : Holds(t) /\ KeyOf(t) = u
    <3>1. PICK t \in Slot : Holds(t) /\ KeyOf(t) = u BY <2>2
    <3>2. Holds(t)' /\ KeyOf(t)' = u BY <1>1, <3>1 DEF Holds, KeyOf
    <3> QED BY <3>2 DEF Owned
  <2> QED BY <1>3, <2>1, <2>2 DEF RowHasOwner
<1> QED BY <1>2, <1>3

LEMMA HandleOwner ==
  ASSUME IInv, RowHasOwner, NEW s \in Slot, Handle(s)
  PROVE  RowHasOwner'
<1> USE DEF histories
<1>1. CASE CreateRow(s)
  <2>1. \A u \in Unit \ {KeyOf(s)} : idem'[u] = idem[u]
    BY <1>1 DEF CreateRow, IInv, TypeOK
  <2> QED BY <1>1, <2>1, OwnerBegins DEF CreateRow
<1>2. CASE CreateConflict(s)
  BY <1>2, OwnersStay DEF CreateConflict, Holds, KeyOf, IInv, TypeOK
<1>3. CASE Replay(s) \/ Conflict(s)
  BY <1>3, OwnersStay DEF Replay, Conflict, Reply, Holds, KeyOf, IInv, TypeOK
<1>4. CASE PushSucceeds(s)
  BY <1>4, OwnersStay DEF PushSucceeds, LeavePush, Reply, Holds, KeyOf, IInv, TypeOK
<1>5. CASE Settle(s) \/ Undo(s)
  <2>1. Open(s) /\ KeyOf(s) \in Unit
    BY <1>5, OpenCall DEF Settle, Undo, Open, KeyOf, IdemKey, IInv
  <2>2. \A t \in Slot \ {s} : Holds(t) => Holds(t)' /\ KeyOf(t)' = KeyOf(t)
    BY <1>5 DEF Settle, Undo, Reply, Holds, KeyOf, IInv, TypeOK
  <2>3. \A u \in Unit : idem'[u].status = "in_progress" =>
          idem[u].status = "in_progress" /\ u # KeyOf(s)
    BY <1>5, <2>1 DEF Settle, Undo, Done, Absent, IInv, TypeOK
  <2>4. EndRow(KeyOf(s)) BY <1>5 DEF Settle, Undo
  <2> QED BY <2>1, <2>2, <2>3, <2>4, OwnerEnds
<1> QED BY <1>1, <1>2, <1>3, <1>4, <1>5 DEF Handle

LEMMA FailOwner ==
  ASSUME IInv, RowHasOwner, NEW s \in Slot, Fail(s)
  PROVE  RowHasOwner'
<1> USE DEF histories
<1>1. CASE CreateFails(s)
  <2>1. \A u \in Unit \ {KeyOf(s)} : idem'[u] = idem[u]
    BY <1>1 DEF CreateFails, IInv, TypeOK
  <2> QED BY <1>1, <2>1, OwnerBegins DEF CreateFails
<1>2. CASE GetFails(s) BY <1>2, OwnerBegins DEF GetFails
<1>3. CASE PushFails(s)
  BY <1>3, OwnersStay DEF PushFails, LeavePush, Reply, Holds, KeyOf, IInv, TypeOK
<1>4. CASE SettleFails(s) \/ UndoFails(s)
  <2>1. \A t \in Slot \ {s} : Holds(t) => Holds(t)' /\ KeyOf(t)' = KeyOf(t)
    BY <1>4 DEF SettleFails, UndoFails, Reply, Holds, KeyOf, IInv, TypeOK
  <2> QED BY <1>4, <2>1, OwnersAbandon DEF SettleFails, UndoFails
<1> QED BY <1>1, <1>2, <1>3, <1>4 DEF Fail

LEMMA NextOwner ==
  ASSUME IInv, RowHasOwner, [Next]_serverVars
  PROVE  RowHasOwner'
<1> USE DEF histories
<1>1. ASSUME NEW s \in Slot, NEW u \in Unit, NEW b \in Body, NEW k \in BOOLEAN,
             Receive(s, u, b, k)
      PROVE  RowHasOwner'
  BY <1>1, OwnersStay DEF Receive, Holds, KeyOf, IInv, TypeOK
<1>2. ASSUME NEW s \in Slot, NEW st \in {"limited", "failed"}, TurnAway(s, st)
      PROVE  RowHasOwner'
  BY <1>2, OwnersStay DEF TurnAway, Reply, Holds, KeyOf, IInv, TypeOK
<1>3. ASSUME NEW s \in Slot, Deliver(s)
      PROVE  RowHasOwner'
  BY <1>3, OwnersStay DEF Deliver, Holds, KeyOf, IInv, TypeOK
<1>4. CASE Database
  <2>1. ASSUME NEW s \in Slot, RunRPC(s) PROVE RowHasOwner'
    BY <2>1, OwnersStay DEF RunRPC, Holds, KeyOf
  <2>2. ASSUME NEW c \in late, RunLateInsert(c) PROVE RowHasOwner'
    BY <2>2 DEF RunLateInsert, RunLate, RowHasOwner, Holds, KeyOf, IdemKey, IInv, TypeOK
  <2>3. ASSUME NEW c \in late, RunLateRPC(c) \/ RunLateSettle(c) \/ RunLateDelete(c)
        PROVE  RowHasOwner'
    <3>1. \A u \in Unit :
            idem'[u].status = "in_progress" => idem[u].status = "in_progress"
      BY <2>3 DEF RunLateRPC, RunLateSettle, RunLateDelete, Done, Absent, IInv, TypeOK
    <3>2. \A u \in adrift \ adrift' : idem'[u].status # "in_progress"
      BY <2>3 DEF RunLateRPC, RunLateSettle, RunLateDelete, EndRow, Done, Absent, IInv, TypeOK
    <3> QED BY <2>3, <3>1, <3>2, OwnersStay
            DEF RunLateRPC, RunLateSettle, RunLateDelete, RunLate, Holds, KeyOf
  <2> QED BY <1>4, <2>1, <2>2, <2>3 DEF Database
<1>5. ASSUME NEW S \in SUBSET Slot, Vanish(S) PROVE RowHasOwner'
  BY <1>5, OwnersAbandon DEF Vanish, Holds, KeyOf
<1>6. CASE UNCHANGED serverVars
  BY <1>6, OwnersStay DEF serverVars, Holds, KeyOf
<1> QED
  BY <1>1, <1>2, <1>3, <1>4, <1>5, <1>6, HandleOwner, FailOwner
     DEF Next, Request, Disconnect, Crash

-----------------------------------------------------------------------------
(* One process moves, the others stay.                                      *)
Same(q) == /\ mode'[q] = mode[q] /\ queue'[q] = queue[q] /\ now'[q] = now[q]
           /\ batch'[q] = batch[q] /\ todo'[q] = todo[q] /\ target'[q] = target[q]
           /\ tries'[q] = tries[q] /\ slot'[q] = slot[q]

LEMMA SameKeeps ==
  ASSUME PipelineInv, NEW q \in Process, Same(q), DbGrows, gaveUp \subseteq gaveUp',
         \A s \in Slot : Unwatched(s) \/ Onward(s)
  PROVE  Waits(q)' /\ Through(q)'
<1>1. Waits(q) /\ Through(q) BY DEF PipelineInv, ProcessInv
<1>2. Waits(q)'
  <2>1. CASE mode[q] = "wait"
    <3> DEFINE s == slot[q]
               u == <<now[q], target[q]>>
    <3>1. s \in Slot /\ target[q] \in todo[q] /\ Asked(s, u)
      BY <1>1, <2>1 DEF Waits
    <3>2. Onward(s) BY <3>1 DEF Unwatched
    <3>3. UNCHANGED <<s, u>> BY DEF Same
    <3>4. Asked(s, u)' BY <3>1, <3>2, <3>3 DEF Asked, Onward, Open
    <3> QED BY <2>1, <3>1, <3>3, <3>4 DEF Waits, Same
  <2>2. CASE mode[q] # "wait" BY <1>1, <2>2 DEF Waits, Same
  <2> QED BY <2>1, <2>2
<1>3. ASSUME mode[q] \in {"send", "wait", "mark"}, NEW r \in RootsOf[now[q]] \ todo[q]
      PROVE  Settled(now[q], r)'
  <2>1. now[q] \in Commit /\ Settled(now[q], r) BY <1>1, <1>3 DEF Through
  <2>2. <<now[q], r>> \in Unit BY <2>1, PushPipelineAssumption DEF Unit
  <2> QED BY <2>1, <2>2 DEF Settled, DbGrows, Same
<1>4. Through(q)' BY <1>1, <1>3 DEF Through, Same, Settled
<1> QED BY <1>2, <1>4

LEMMA OneMoves ==
  ASSUME PipelineInv, NEW p \in Process, \A q \in Process \ {p} : Same(q),
         DbGrows, gaveUp \subseteq gaveUp',
         \A s \in Slot : Unwatched(s) \/ Onward(s), Waits(p)', Through(p)',
         slot'[p] = None \/ \A q \in Process \ {p} : slot[q] # slot'[p]
  PROVE  ProcessInv'
<1>1. \A q \in Process : Waits(q)' /\ Through(q)' BY SameKeeps
<1>2. Apart'
  <2> SUFFICES ASSUME NEW q \in Process, NEW r \in Process, q # r, slot'[q] = slot'[r]
               PROVE  slot'[q] = None
    BY DEF Apart
  <2>1. CASE q # p /\ r # p BY <2>1 DEF Same, PipelineInv, ProcessInv, Apart
  <2>2. CASE q = p \/ r = p BY <2>2 DEF Same
  <2> QED BY <2>1, <2>2
<1> QED BY <1>1, <1>2 DEF ProcessInv

\* The commits marked pushed stay settled.
LEMMA PushedKeeps ==
  ASSUME PipelineInv, DbGrows, gaveUp \subseteq gaveUp', pushed' = pushed
  PROVE  PushedIsStoredOrGaveUp'
<1> SUFFICES ASSUME NEW c \in pushed, NEW r \in RootsOf[c]
             PROVE  db'[<<c, r>>] # None \/ <<c, r>> \in gaveUp'
  BY DEF PushedIsStoredOrGaveUp
<1>1. <<c, r>> \in Unit
  BY PushPipelineAssumption DEF PipelineInv, PipelineTypeOK, Unit
<1> QED BY <1>1 DEF PipelineInv, PushedIsStoredOrGaveUp, DbGrows

LEMMA LeavesOthers ==
  ASSUME PipelineTypeOK, NEW p \in Process, Exit(p) \/ RootDone(p)
  PROVE  \A q \in Process \ {p} : Same(q)
BY DEF Exit, RootDone, Same, PipelineTypeOK

\* A process that is back at the start holds nothing.
LEMMA ExitSteps ==
  ASSUME PipelineInv, NEW p \in Process, BuildFails(p) \/ HearError(p) \/ Stop(p)
  PROVE  ProcessInv' /\ PushedIsStoredOrGaveUp'
<1>1. Exit(p) /\ UNCHANGED <<pushed, gaveUp>>
  BY DEF BuildFails, HearError, Stop, localVars
<1>2. mode'[p] = "idle" /\ slot'[p] = None
  BY <1>1 DEF Exit, PipelineInv, PipelineTypeOK
<1>3. (\A s \in Slot : Onward(s)) /\ DbGrows
  <2>1. CASE HearError(p)
    <3>1. slot[p] \in Slot BY <2>1 DEF HearError, PipelineInv, ProcessInv, Waits
    <3> QED BY <2>1, <3>1, DeliverOnward DEF HearError, PipelineInv, DbGrows
  <2>2. CASE BuildFails(p) \/ Stop(p)
    BY <2>2 DEF BuildFails, Stop, serverVars, Onward, Open, DbGrows
  <2> QED BY <2>1, <2>2
<1> QED BY <1>1, <1>2, <1>3, LeavesOthers, OneMoves, PushedKeeps
        DEF PipelineInv, Waits, Through

\* A process goes on, and what it is through with is settled.
LEMMA StartSteps ==
  ASSUME PipelineInv, NEW p \in Process, StartPush(p) \/ Build(p)
  PROVE  ProcessInv' /\ PushedIsStoredOrGaveUp'
<1>1. /\ \A q \in Process \ {p} : Same(q)
      /\ UNCHANGED <<pushed, gaveUp>>
      /\ slot' = slot
  BY DEF StartPush, Build, Same, localVars, PipelineInv, PipelineTypeOK
<1>2. (\A s \in Slot : Onward(s)) /\ DbGrows
  BY DEF StartPush, Build, serverVars, Onward, Open, DbGrows
<1>3. slot[p] = None
  BY DEF StartPush, Build, PipelineInv, ProcessInv, Waits
<1>4. mode'[p] \in {"build", "send"}
  BY DEF StartPush, Build, PipelineInv, PipelineTypeOK
<1>5. Through(p)'
  <2>1. CASE StartPush(p) BY <2>1 DEF StartPush, Through, PipelineInv, PipelineTypeOK
  <2>2. CASE Build(p)
    <3>1. PICK c \in queue[p] :
            /\ \A r \in RootsOf[c] : disk[r] # None
            /\ now' = [now EXCEPT ![p] = c]
            /\ todo' = [todo EXCEPT ![p] = RootsOf[c]]
            /\ batch' = [batch EXCEPT ![p] =
                 [r \in Project |-> IF r \in RootsOf[c] THEN disk[r] ELSE None]]
      BY <2>2 DEF Build
    <3>2. c \in Commit /\ RootsOf[c] \subseteq Project
      BY PushPipelineAssumption DEF PipelineInv, PipelineTypeOK
    <3>3. now'[p] = c /\ todo'[p] = RootsOf[c] /\ \A r \in RootsOf[c] : batch'[p][r] = disk[r]
      BY <3>1, <3>2 DEF PipelineInv, PipelineTypeOK
    <3>4. \A r \in RootsOf[c] : disk[r] \in Body
      BY <3>1, <3>2 DEF PipelineInv, PipelineTypeOK
    <3>5. mode'[p] = "send" BY <2>2 DEF Build, PipelineInv, PipelineTypeOK
    <3> QED BY <3>2, <3>3, <3>4, <3>5 DEF Through
  <2> QED BY <2>1, <2>2
<1>6. Waits(p)' BY <1>1, <1>3, <1>4 DEF Waits
<1> QED BY <1>1, <1>2, <1>3, <1>5, <1>6, OneMoves, PushedKeeps

\* The slot of a new request was idle and nobody waits for it.
LEMMA SendStep ==
  ASSUME PipelineInv, NEW p \in Process, Send(p)
  PROVE  ProcessInv' /\ PushedIsStoredOrGaveUp' /\ [Next]_serverVars
<1>1. PICK r \in todo[p], s \in Slot :
        /\ Unwatched(s)
        /\ target' = [target EXCEPT ![p] = r]
        /\ slot' = [slot EXCEPT ![p] = s]
        /\ \/ Receive(s, <<now[p], r>>, batch[p][r], TRUE)
           \/ \E st \in {"limited", "failed"} : TurnAway(s, st)
  BY DEF Send
<1>2. /\ mode[p] = "send" /\ mode' = [mode EXCEPT ![p] = "wait"]
      /\ UNCHANGED <<queue, now, batch, todo, tries, pushed, gaveUp, disk>>
  BY DEF Send, localVars
<1>3. now[p] \in Commit /\ r \in Project /\ batch[p][r] \in Body /\ Through(p)
  BY <1>2, PushPipelineAssumption DEF PipelineInv, ProcessInv, Through
<1>4. Request(s)
  <2>1. <<now[p], r>> \in Unit BY <1>3 DEF Unit
  <2> QED BY <1>1, <1>3, <2>1 DEF Request
<1>5. \A q \in Process \ {p} : Same(q)
  BY <1>1, <1>2 DEF Same, PipelineInv, PipelineTypeOK
<1>6. /\ UNCHANGED db
      /\ \A t \in Slot \ {s} : Onward(t)
      /\ Asked(s, <<now[p], r>>)'
  <2>1. CASE Receive(s, <<now[p], r>>, batch[p][r], TRUE)
    <3>1. answer[s] = NoAnswer
      BY <2>1 DEF Receive, PipelineInv, IInv, StoreInv, AnswerInStage
    <3> QED
      BY <1>2, <2>1, <3>1 DEF Receive, Asked, Onward, Open, NoAnswer, PipelineInv, IInv, TypeOK
  <2>2. ASSUME NEW st \in {"limited", "failed"}, TurnAway(s, st)
        PROVE  /\ UNCHANGED db
               /\ \A t \in Slot \ {s} : Onward(t)
               /\ Asked(s, <<now[p], r>>)'
    BY <1>2, <2>2 DEF TurnAway, Reply, Says, Asked, Onward, Open, PipelineInv, IInv, TypeOK
  <2> QED BY <1>1, <2>1, <2>2
<1>7. mode'[p] = "wait" /\ slot'[p] = s /\ target'[p] = r
  BY <1>1, <1>2, <1>3 DEF PipelineInv, PipelineTypeOK
<1>8. Waits(p)'
  BY <1>2, <1>6, <1>7 DEF Waits, Asked
<1>9. Through(p)'
  BY <1>2, <1>3, <1>6, <1>7 DEF Through, Settled
<1>10. ProcessInv'
  BY <1>1, <1>2, <1>5, <1>6, <1>7, <1>8, <1>9, OneMoves DEF DbGrows, Unwatched
<1>11. PushedIsStoredOrGaveUp' BY <1>2, <1>6, PushedKeeps DEF DbGrows
<1> QED BY <1>4, <1>10, <1>11 DEF Next

\* The answer a process waits for.
LEMMA Heard ==
  ASSUME PipelineInv, NEW p \in Process, mode[p] = "wait", Deliver(slot[p])
  PROVE  /\ slot[p] \in Slot
         /\ target[p] \in todo[p]
         /\ <<now[p], target[p]>> \in Unit
         /\ (\A s \in Slot : Onward(s)) /\ UNCHANGED db
         /\ answer[slot[p]].status = "ok" => db[<<now[p], target[p]>>] # None
<1>1. Waits(p) /\ Through(p) BY DEF PipelineInv, ProcessInv
<1>2. /\ slot[p] \in Slot /\ target[p] \in todo[p]
      /\ Asked(slot[p], <<now[p], target[p]>>)
  BY <1>1 DEF Waits
<1>3. now[p] \in Commit /\ target[p] \in Project
  BY <1>1, <1>2, PushPipelineAssumption DEF Through
<1> QED BY <1>2, <1>3, DeliverOnward DEF Unit, Asked, PipelineInv, IInv, StoreInv, AckedIsStored

\* "ok", or the last 429: the loop goes on to the next root.
LEMMA RootSteps ==
  ASSUME PipelineInv, NEW p \in Process, HearOk(p) \/ OutOfAttempts(p)
  PROVE  ProcessInv' /\ PushedIsStoredOrGaveUp'
<1>1. /\ mode[p] = "wait" /\ Deliver(slot[p]) /\ RootDone(p)
      /\ pushed' = pushed /\ gaveUp \subseteq gaveUp'
  BY DEF HearOk, OutOfAttempts, localVars
<1>2. UNCHANGED <<now, batch>> BY <1>1 DEF RootDone
<1>3. /\ todo'[p] = todo[p] \ {target[p]} /\ target'[p] = None /\ slot'[p] = None
      /\ mode'[p] = IF todo[p] = {target[p]} THEN "mark" ELSE "send"
  BY <1>1 DEF RootDone, PipelineInv, PipelineTypeOK
<1>4. /\ target[p] \in todo[p] /\ UNCHANGED db
      /\ \A s \in Slot : Onward(s)
  BY <1>1, Heard
<1>5. Through(p) BY DEF PipelineInv, ProcessInv
<1>6. Through(p)'
  <2>1. \A r \in RootsOf[now[p]] \ todo'[p] : Settled(now[p], r)'
    <3> TAKE r \in RootsOf[now[p]] \ todo'[p]
    <3>1. CASE r = target[p]
      <4>1. db'[<<now[p], target[p]>>] # None \/ <<now[p], target[p]>> \in gaveUp'
        <5>1. CASE HearOk(p) BY <1>1, <1>4, <5>1, Heard DEF HearOk
        <5>2. CASE OutOfAttempts(p) BY <5>2 DEF OutOfAttempts
        <5> QED BY <5>1, <5>2
      <4> QED BY <1>2, <3>1, <4>1 DEF Settled
    <3>2. CASE r # target[p]
      BY <1>1, <1>2, <1>3, <1>4, <1>5, <3>2 DEF Through, Settled
    <3> QED BY <3>1, <3>2
  <2> QED BY <1>1, <1>2, <1>3, <1>4, <1>5, <2>1 DEF Through, Settled
<1>7. Waits(p)' BY <1>3 DEF Waits
<1>8. DbGrows BY <1>4 DEF DbGrows
<1> QED BY <1>1, <1>3, <1>4, <1>6, <1>7, <1>8, LeavesOthers, OneMoves, PushedKeeps DEF PipelineInv

\* 429 with attempts left: back to sending, with the same roots to push.
LEMMA RetryStep ==
  ASSUME PipelineInv, NEW p \in Process, HearLimited(p)
  PROVE  ProcessInv' /\ PushedIsStoredOrGaveUp'
<1>1. /\ mode[p] = "wait" /\ Deliver(slot[p])
      /\ UNCHANGED <<queue, now, batch, todo, target, pushed, gaveUp>>
  BY DEF HearLimited, localVars
<1>2. /\ slot'[p] = None /\ mode'[p] = "send"
      /\ \A q \in Process \ {p} : Same(q)
  BY DEF HearLimited, Same, PipelineInv, PipelineTypeOK
<1>3. (\A s \in Slot : Onward(s)) /\ UNCHANGED db BY <1>1, Heard
<1>4. Through(p) BY DEF PipelineInv, ProcessInv
<1>5. Waits(p)' /\ Through(p)'
  BY <1>1, <1>2, <1>3, <1>4 DEF Waits, Through, Settled
<1>6. DbGrows BY <1>3 DEF DbGrows
<1> QED BY <1>1, <1>2, <1>3, <1>5, <1>6, OneMoves, PushedKeeps

\* The mark comes when no root of the commit is left to push.
LEMMA MarkStep ==
  ASSUME PipelineInv, NEW p \in Process, MarkPushed(p)
  PROVE  ProcessInv' /\ PushedIsStoredOrGaveUp'
<1>1. /\ mode[p] = "mark" /\ pushed' = pushed \cup {now[p]}
      /\ UNCHANGED <<todo, target, tries, slot, gaveUp, serverVars>>
  BY DEF MarkPushed
<1>2. mode'[p] \in {"idle", "build"} /\ \A q \in Process \ {p} : Same(q)
  BY DEF MarkPushed, Same, PipelineInv, PipelineTypeOK
<1>3. Waits(p) /\ Through(p) BY DEF PipelineInv, ProcessInv
<1>4. Waits(p)' /\ Through(p)'
  BY <1>1, <1>2, <1>3 DEF Waits, Through
<1>5. (\A s \in Slot : Onward(s)) /\ DbGrows /\ db' = db
  BY <1>1 DEF serverVars, Onward, Open, DbGrows
<1>6. slot'[p] = None BY <1>1, <1>3 DEF Waits
<1>7. PushedIsStoredOrGaveUp'
  <2>1. \A r \in RootsOf[now[p]] : Settled(now[p], r)
    BY <1>1, <1>3 DEF Through
  <2> QED BY <1>1, <1>5, <2>1 DEF PushedIsStoredOrGaveUp, Settled, PipelineInv
<1> QED BY <1>1, <1>2, <1>4, <1>5, <1>6, <1>7, OneMoves

\* Steps of the server alone.
LEMMA ServerSteps ==
  ASSUME PipelineInv, UNCHANGED <<cliVars, pushed, gaveUp>>, DbGrows,
         \A s \in Slot : Unwatched(s) \/ Onward(s)
  PROVE  ProcessInv' /\ PushedIsStoredOrGaveUp'
<1>1. \A q \in Process : Same(q) BY DEF cliVars, Same
<1>2. \A q \in Process : Waits(q)' /\ Through(q)' BY <1>1, SameKeeps
<1>3. Apart' BY DEF cliVars, Apart, PipelineInv, ProcessInv
<1> QED BY <1>2, <1>3, PushedKeeps DEF ProcessInv

\* The server dies: who waited is back at the start.
LEMMA CrashSteps ==
  ASSUME PipelineInv, ServerCrash
  PROVE  ProcessInv' /\ PushedIsStoredOrGaveUp'
<1>1. /\ UNCHANGED <<db, pushed, gaveUp>>
      /\ DbGrows
      /\ \A s \in Slot : Onward(s)
  BY VanishOnward DEF ServerCrash, Crash, localVars, DbGrows, PipelineInv
<1>2. \A q \in Process : IF mode[q] = "wait" THEN mode'[q] = "idle" /\ slot'[q] = None
                                             ELSE Same(q)
  BY DEF ServerCrash, Same
<1>3. \A q \in Process : Waits(q)' /\ Through(q)'
  BY <1>1, <1>2, SameKeeps DEF Waits, Through
<1>4. \A q \in Process : slot'[q] = None
  BY <1>2 DEF Same, PipelineInv, ProcessInv, Waits
<1> QED BY <1>1, <1>3, <1>4, PushedKeeps DEF ProcessInv, Apart

-----------------------------------------------------------------------------
(* Types.                                                                   *)
LocalTypes == /\ mode \in [Process -> {"idle", "build", "send", "wait", "mark"}]
              /\ queue \in [Process -> SUBSET Commit]
              /\ now \in [Process -> Commit \cup {None}]
              /\ batch \in [Process -> [Project -> Body \cup {None}]]
              /\ todo \in [Process -> SUBSET Project]
              /\ target \in [Process -> Project \cup {None}]
              /\ tries \in [Process -> 0..(MaxAttempts - 1)]
              /\ slot \in [Process -> Slot \cup {None}]
              /\ pushed \subseteq Commit
              /\ disk \in [Project -> Body \cup {None}]
              /\ gaveUp \subseteq Unit

LEMMA WorkTypes ==
  ASSUME PipelineInv, NEW p \in Process, Work(p) \/ Stop(p)
  PROVE  LocalTypes'
<1> USE PushPipelineAssumption
    DEF PipelineInv, PipelineTypeOK, LocalTypes, localVars, NoBatch
<1>1. CASE StartPush(p) BY <1>1 DEF StartPush, Pending
<1>2. CASE Build(p)
  <2>1. PICK c \in queue[p] :
            /\ now' = [now EXCEPT ![p] = c]
            /\ todo' = [todo EXCEPT ![p] = RootsOf[c]]
            /\ batch' = [batch EXCEPT ![p] =
                 [r \in Project |-> IF r \in RootsOf[c] THEN disk[r] ELSE None]]
    BY <1>2 DEF Build
  <2>2. c \in Commit /\ RootsOf[c] \subseteq Project OBVIOUS
  <2>3. [r \in Project |-> IF r \in RootsOf[c] THEN disk[r] ELSE None]
          \in [Project -> Body \cup {None}]
    OBVIOUS
  <2> QED BY <1>2, <2>1, <2>2, <2>3 DEF Build
<1>3. CASE BuildFails(p) \/ HearError(p) \/ Stop(p)
  <2>1. 0 \in 0..(MaxAttempts - 1) OBVIOUS
  <2>2. Exit(p) /\ UNCHANGED <<pushed, disk, gaveUp>>
    BY <1>3 DEF BuildFails, HearError, Stop
  <2>3. [r \in Project |-> None] \in [Project -> Body \cup {None}] OBVIOUS
  <2> QED BY <2>1, <2>2, <2>3 DEF Exit
<1>4. CASE Send(p) BY <1>4 DEF Send
<1>5. CASE HearOk(p) \/ OutOfAttempts(p)
  <2>1. 0 \in 0..(MaxAttempts - 1) OBVIOUS
  <2>2. gaveUp' \subseteq Unit
    <3>1. CASE HearOk(p) BY <3>1 DEF HearOk
    <3>2. CASE OutOfAttempts(p)
      <4>1. <<now[p], target[p]>> \in Unit BY <3>2, Heard DEF OutOfAttempts
      <4> QED BY <3>2, <4>1 DEF OutOfAttempts
    <3> QED BY <1>5, <3>1, <3>2
  <2>3. /\ RootDone(p) /\ UNCHANGED <<pushed, disk>>
    BY <1>5 DEF HearOk, OutOfAttempts
  <2> QED BY <2>1, <2>2, <2>3 DEF RootDone
<1>6. CASE HearLimited(p)
  <2>1. tries[p] + 1 \in 0..(MaxAttempts - 1) BY <1>6 DEF HearLimited
  <2> QED BY <1>6, <2>1 DEF HearLimited
<1>7. CASE MarkPushed(p)
  <2>1. now[p] \in Commit BY <1>7 DEF MarkPushed, ProcessInv, Through
  <2> QED BY <1>7, <2>1 DEF MarkPushed
<1> QED BY <1>1, <1>2, <1>3, <1>4, <1>5, <1>6, <1>7 DEF Work

LEMMA OtherTypes ==
  ASSUME PipelineInv,
         \/ UNCHANGED <<cliVars, localVars>>
         \/ ServerCrash
         \/ \E r \in Project, b \in Body \cup {None} : Edit(r, b)
  PROVE  LocalTypes'
<1> USE PushPipelineAssumption
    DEF PipelineInv, PipelineTypeOK, LocalTypes, cliVars, localVars
<1>1. CASE ServerCrash
  <2>1. 0 \in 0..(MaxAttempts - 1) OBVIOUS
  <2>2. NoBatch \in [Project -> Body \cup {None}] BY DEF NoBatch
  <2> QED BY <1>1, <2>1, <2>2 DEF ServerCrash
<1>2. CASE \E r \in Project, b \in Body \cup {None} : Edit(r, b)
  BY <1>2 DEF Edit
<1> QED BY <1>1, <1>2

-----------------------------------------------------------------------------
LEMMA InitPipeline == PipelineInit => PipelineInv
<1> SUFFICES ASSUME PipelineInit PROVE PipelineInv
  OBVIOUS
<1>1. IInv BY InitIInv DEF PipelineInit
<1>2. PipelineTypeOK
  BY <1>1, PushPipelineAssumption DEF PipelineInit, PipelineTypeOK, NoBatch, IInv
<1>3. RowHasOwner BY DEF PipelineInit, ServerInit, RowHasOwner, Absent
<1> QED BY <1>1, <1>2, <1>3 DEF PipelineInit, PipelineInv, ProcessInv, Waits, Through, Apart,
           PushedIsStoredOrGaveUp

LEMMA WorkStep ==
  ASSUME PipelineInv, NEW p \in Process, Work(p) \/ Stop(p)
  PROVE  ProcessInv' /\ PushedIsStoredOrGaveUp' /\ [Next]_serverVars
<1>1. CASE StartPush(p) \/ Build(p)
  BY <1>1, StartSteps DEF StartPush, Build
<1>2. CASE Send(p) BY <1>2, SendStep
<1>3. CASE HearOk(p) \/ OutOfAttempts(p)
  <2>1. slot[p] \in Slot /\ Deliver(slot[p])
    BY <1>3, Heard DEF HearOk, OutOfAttempts
  <2> QED BY <1>3, <2>1, RootSteps DEF Next
<1>4. CASE HearLimited(p)
  <2>1. slot[p] \in Slot /\ Deliver(slot[p]) BY <1>4, Heard DEF HearLimited
  <2> QED BY <1>4, <2>1, RetryStep DEF Next
<1>5. CASE HearError(p)
  <2>1. slot[p] \in Slot /\ Deliver(slot[p]) BY <1>5, Heard DEF HearError
  <2> QED BY <1>5, <2>1, ExitSteps DEF Next
<1>6. CASE BuildFails(p) \/ Stop(p) BY <1>6, ExitSteps DEF BuildFails, Stop
<1>7. CASE MarkPushed(p) BY <1>7, MarkStep DEF MarkPushed
<1> QED BY <1>1, <1>2, <1>3, <1>4, <1>5, <1>6, <1>7 DEF Work

LEMMA OtherStep ==
  ASSUME PipelineInv,
         \/ ServerStep \/ ServerCrash
         \/ \E s \in Slot : DropAnswer(s) \/ ClientGone(s)
         \/ \E r \in Project, b \in Body \cup {None} : Edit(r, b)
         \/ UNCHANGED pipelineVars
  PROVE  ProcessInv' /\ PushedIsStoredOrGaveUp' /\ [Next]_serverVars /\ LocalTypes'
<1>1. CASE ServerStep
  <2>1. UNCHANGED <<cliVars, localVars>> /\ Next BY <1>1 DEF ServerStep, Next
  <2>2. (\A t \in Slot : Onward(t)) /\ DbGrows
    BY <1>1, HandleOnward, FailOnward, DatabaseOnward DEF ServerStep, DbGrows, PipelineInv
  <2> QED BY <2>1, <2>2, ServerSteps, OtherTypes DEF localVars
<1>2. CASE ServerCrash
  BY <1>2, CrashSteps, OtherTypes DEF ServerCrash, Next
<1>3. ASSUME NEW s \in Slot, DropAnswer(s) \/ ClientGone(s)
      PROVE  ProcessInv' /\ PushedIsStoredOrGaveUp' /\ [Next]_serverVars /\ LocalTypes'
  <2>1. UNCHANGED <<cliVars, localVars>> /\ Next BY <1>3 DEF DropAnswer, ClientGone, Next
  <2>2. (\A t \in Slot : Onward(t)) /\ DbGrows
    BY <1>3, DeliverOnward, VanishOnward
       DEF DropAnswer, ClientGone, Disconnect, DbGrows, PipelineInv
  <2> QED BY <2>1, <2>2, ServerSteps, OtherTypes DEF localVars
<1>4. CASE (\E r \in Project, b \in Body \cup {None} : Edit(r, b)) \/ UNCHANGED pipelineVars
  <2>1. UNCHANGED <<cliVars, pushed, gaveUp, serverVars>>
    BY <1>4 DEF Edit, pipelineVars, localVars
  <2>2. (\A t \in Slot : Onward(t)) /\ DbGrows
    BY <2>1 DEF serverVars, Onward, Open, DbGrows
  <2>3. LocalTypes' BY <1>4, OtherTypes DEF pipelineVars
  <2> QED BY <2>1, <2>2, <2>3, ServerSteps
<1> QED BY <1>1, <1>2, <1>3, <1>4

LEMMA PipelineInvAlways == PipelineSpec => []PipelineInv
<1>1. PipelineInv /\ [PipelineNext]_pipelineVars => PipelineInv'
  <2> SUFFICES ASSUME PipelineInv, [PipelineNext]_pipelineVars PROVE PipelineInv'
    OBVIOUS
  <2>1. ProcessInv' /\ PushedIsStoredOrGaveUp' /\ [Next]_serverVars /\ LocalTypes'
    BY WorkStep, WorkTypes, OtherStep DEF PipelineNext
  <2>2. IInv' /\ RowHasOwner' BY <2>1, NextIInv, NextOwner DEF PipelineInv
  <2>3. PipelineTypeOK' BY <2>1, <2>2 DEF PipelineTypeOK, LocalTypes, IInv
  <2> QED BY <2>1, <2>2, <2>3 DEF PipelineInv
<1> QED BY InitPipeline, <1>1, PTL DEF PipelineSpec

\* The state of the processes, the local files and the server has its types.
THEOREM PipelineTypeCorrect == PipelineSpec => []PipelineTypeOK
<1>1. PipelineInv => PipelineTypeOK BY DEF PipelineInv
<1> QED BY <1>1, PipelineInvAlways, PTL

\* A commit marked pushed is stored, but for roots whose attempts all met the
\* rate limiter, however many processes push it at once, are killed or time
\* out, and whatever fails on the server (push.go:189-271).
THEOREM PushedIsStoredAlways == PipelineSpec => []PushedIsStoredOrGaveUp
<1>1. PipelineInv => PushedIsStoredOrGaveUp BY DEF PipelineInv
<1> QED BY <1>1, PipelineInvAlways, PTL

\* A row in progress has a request that will end it, unless the one that was to
\* end it failed, lost its client or died, or its insert ran late
\* (push.go:69-125); whatever fails, and however many calls are left behind.
THEOREM RowHasOwnerAlways == PipelineSpec => []RowHasOwner
<1>1. PipelineInv => RowHasOwner BY DEF PipelineInv
<1> QED BY <1>1, PipelineInvAlways, PTL

-----------------------------------------------------------------------------
(* What the processes see of the server.                                    *)

\* Every step of the processes and of the server is a step of the server or
\* leaves it alone: what is proved of the server by itself holds in use.
THEOREM ImplementsServer == PipelineSpec => Spec
<1>1. PipelineInit => ServerInit BY DEF PipelineInit
<1>2. PipelineInv /\ [PipelineNext]_pipelineVars => [Next]_serverVars
  BY WorkStep, OtherStep DEF PipelineNext
<1> QED BY <1>1, <1>2, PipelineInvAlways, PTL DEF PipelineSpec, Spec

\* Processes that retry, give up and are killed meet a server that stores each
\* unit once and tells of nothing it did not store (push.go:69-129).
THEOREM ImplementsPushOnceInUse == PipelineSpec => StoresOnce
BY ImplementsServer, ImplementsPushOnce, PTL

\* Where no request is turned away before the handler, no 429 is met.
Unlimited == gaveUp = {} /\ \A s \in Slot : answer[s].status # "limited"

LEMMA ServerUnlimited ==
  ASSUME "refuse" \notin Faults, TypeOK, [Next]_serverVars,
         \A s \in Slot : answer[s].status # "limited"
  PROVE  \A s \in Slot : answer'[s].status # "limited"
<1> USE DEF TypeOK
<1>1. ASSUME NEW s \in Slot, NEW a, Reply(s, a), a.status # "limited"
      PROVE  \A t \in Slot : answer'[t].status # "limited"
  BY <1>1 DEF Reply
<1>2. /\ \A u, r : Ok(u, r).status # "limited"
      /\ Says("conflict").status # "limited" /\ Says("failed").status # "limited"
      /\ NoAnswer.status # "limited"
  BY DEF Ok, Says, NoAnswer
<1>3. CASE UNCHANGED answer BY <1>3
<1>4. ASSUME NEW s \in Slot, Handle(s) PROVE \A t \in Slot : answer'[t].status # "limited"
  BY <1>1, <1>2, <1>4
     DEF Handle, CreateRow, CreateConflict, Replay, Conflict, PushSucceeds, Settle, Undo,
         GoPush, LeavePush
<1>5. ASSUME NEW s \in Slot, Fail(s) PROVE \A t \in Slot : answer'[t].status # "limited"
  BY <1>1, <1>2, <1>5
     DEF Fail, CreateFails, GetFails, PushFails, SettleFails, UndoFails, GoPush, LeavePush
<1>6. ASSUME NEW s \in Slot, Request(s) PROVE UNCHANGED answer
  BY <1>6 DEF Request, Receive, TurnAway
<1>7. ASSUME NEW s \in Slot, Deliver(s) PROVE \A t \in Slot : answer'[t].status # "limited"
  BY <1>2, <1>7 DEF Deliver
<1>8. ASSUME NEW S \in SUBSET Slot, Vanish(S)
      PROVE  \A t \in Slot : answer'[t].status # "limited"
  BY <1>2, <1>8 DEF Vanish
<1>9. CASE Database
  BY <1>3, <1>9 DEF Database, RunRPC, RunLate, RunLateInsert, RunLateRPC, RunLateSettle,
                     RunLateDelete
<1>10. CASE UNCHANGED serverVars BY <1>3, <1>10 DEF serverVars
<1> QED
  BY <1>3, <1>4, <1>5, <1>6, <1>7, <1>8, <1>9, <1>10 DEF Next, Disconnect, Crash

\* A commit marked pushed is stored wherever no request is turned away: what
\* README says of `sentra push` fails only where requests are answered 429,
\* whatever else fails, crashes or times out (push.go:189-271).
THEOREM PushedIsStoredUnlimited ==
  ASSUME "refuse" \notin Faults
  PROVE  PipelineSpec => []PushedIsStored
<1>1. PipelineInit => Unlimited
  BY DEF PipelineInit, ServerInit, Unlimited, NoAnswer
<1>2. ASSUME PipelineInv, Unlimited, [PipelineNext]_pipelineVars PROVE Unlimited'
  <2>1. [Next]_serverVars BY <1>2, WorkStep, OtherStep DEF PipelineNext
  <2>2. \A s \in Slot : answer'[s].status # "limited"
    BY <1>2, <2>1, ServerUnlimited DEF PipelineInv, IInv, Unlimited
  <2>3. ASSUME NEW p \in Process PROVE ~OutOfAttempts(p)
    BY <1>2 DEF OutOfAttempts, PipelineInv, ProcessInv, Waits, Unlimited
  <2>4. UNCHANGED gaveUp
    BY <1>2, <2>3
       DEF PipelineNext, Work, StartPush, Build, BuildFails, Send, HearOk, HearLimited,
           HearError, MarkPushed, Stop, ServerStep, DropAnswer, ClientGone, ServerCrash, Edit,
           localVars, pipelineVars
  <2> QED BY <1>2, <2>2, <2>4 DEF Unlimited
<1>3. PipelineInv /\ Unlimited => PushedIsStored
  BY DEF PipelineInv, Unlimited, PushedIsStoredOrGaveUp, PushedIsStored, Stored
<1> QED BY <1>1, <1>2, <1>3, PipelineInvAlways, PTL DEF PipelineSpec
-----------------------------------------------------------------------------
(* Why a retry is answered 409.                                             *)

\* Only a request that read a row answers "conflict".
LEMMA AnswersConflict ==
  ASSUME TypeOK, Next, NEW s \in Slot, stage[s] = "get",
         answer[s].status # "conflict", answer'[s].status = "conflict"
  PROVE  Conflict(s)
<1> USE DEF TypeOK
<1>2. ASSUME NEW t \in Slot, NEW a, Reply(t, a)
      PROVE  t = s /\ a.status = "conflict"
  BY <1>2 DEF Reply
<1>3. /\ \A u, r : Ok(u, r).status # "conflict"
      /\ Says("failed").status # "conflict" /\ NoAnswer.status # "conflict"
  BY DEF Ok, Says, NoAnswer
<1>4. ~UNCHANGED answer OBVIOUS
<1>5. ASSUME NEW t \in Slot, Handle(t) PROVE Conflict(s)
  BY <1>2, <1>3, <1>4, <1>5
     DEF Handle, CreateRow, CreateConflict, Replay, Conflict, PushSucceeds, Settle, Undo,
         GoPush, LeavePush
<1>6. ASSUME NEW t \in Slot, Fail(t) PROVE FALSE
  BY <1>2, <1>3, <1>4, <1>6
     DEF Fail, CreateFails, GetFails, PushFails, SettleFails, UndoFails, GoPush, LeavePush
<1>7. ASSUME NEW t \in Slot, Request(t) PROVE FALSE
  BY <1>2, <1>4, <1>7 DEF Request, Receive, TurnAway
<1>8. ASSUME NEW t \in Slot, Deliver(t) PROVE FALSE
  BY <1>3, <1>8 DEF Deliver
<1>9. ASSUME NEW S \in SUBSET Slot, Vanish(S) PROVE FALSE
  BY <1>3, <1>9 DEF Vanish
<1>10. ASSUME Database PROVE FALSE
  BY <1>4, <1>10 DEF Database, RunRPC, RunLate, RunLateInsert, RunLateRPC, RunLateSettle,
                      RunLateDelete
<1> QED BY <1>5, <1>6, <1>7, <1>8, <1>9, <1>10 DEF Next, Disconnect, Crash

\* A retry is answered 409 (push.go:94-96) because the row it met is gone by now,
\* because another request still works on its key, or because the key is adrift:
\* there is no fourth reason, whatever fails and however many requests fail open.
ConflictHasReason ==
  [][\A s \in Slot :
       (stage[s] = "get" /\ answer'[s].status = "conflict") =>
         \/ idem[KeyOf(s)].status = "absent"
         \/ \E t \in Slot \ {s} : Holds(t) /\ KeyOf(t) = KeyOf(s)
         \/ KeyOf(s) \in adrift]_serverVars

\* What a run refutes of push.schema.json:55, "return the existing commit on
\* retries", in the form in which it holds.
THEOREM ConflictHasReasonAlways == Spec => ConflictHasReason
<1> DEFINE Inv == IInv /\ RowHasOwner
<1>1. ServerInit => Inv
  BY InitIInv DEF ServerInit, RowHasOwner, Absent
<1>2. Inv /\ [Next]_serverVars => Inv'
  BY NextIInv, NextOwner
<1>3. ASSUME Inv, Next, NEW s \in Slot, stage[s] = "get", answer'[s].status = "conflict",
             idem[KeyOf(s)].status # "absent", KeyOf(s) \notin adrift
      PROVE  \E t \in Slot \ {s} : Holds(t) /\ KeyOf(t) = KeyOf(s)
  <2>1. KeyOf(s) \in Unit BY <1>3, OpenCall DEF IInv, KeyOf, IdemKey
  <2>2. idem[KeyOf(s)].status = "in_progress"
    <3>1. answer[s].status # "conflict" BY <1>3 DEF IInv, StoreInv, AnswerInStage, NoAnswer
    <3>2. Conflict(s) BY <1>3, <3>1, AnswersConflict DEF IInv
    <3> QED BY <1>3, <2>1, <3>2, RowTypes DEF Conflict, IInv, TypeOK, Row
  <2>3. PICK t \in Slot : Holds(t) /\ KeyOf(t) = KeyOf(s)
    BY <1>3, <2>1, <2>2 DEF RowHasOwner
  <2>4. t # s BY <1>3, <2>3 DEF Holds
  <2> QED BY <2>3, <2>4
<1>4. Inv /\ [Next]_serverVars =>
        [\A s \in Slot :
           (stage[s] = "get" /\ answer'[s].status = "conflict") =>
             \/ idem[KeyOf(s)].status = "absent"
             \/ \E t \in Slot \ {s} : Holds(t) /\ KeyOf(t) = KeyOf(s)
             \/ KeyOf(s) \in adrift]_serverVars
  BY <1>3
<1> QED BY <1>1, <1>2, <1>4, PTL DEF Spec, ConflictHasReason
=============================================================================

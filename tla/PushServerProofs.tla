-------------------------- MODULE PushServerProofs --------------------------
(***************************************************************************)
(* What PushServer guarantees for every set of slots, units and bodies,    *)
(* every choice of Faults and any number of calls left behind.             *)
(***************************************************************************)
EXTENDS PushServer, TLAPS

-----------------------------------------------------------------------------
(* Facts about the helpers the actions share.                               *)

\* The rows and answers the handler writes have the types of the tables.
LEMMA RowTypes ==
  /\ Absent \in Row
  /\ InProgress \in Row
  /\ \A b \in Body \cup {None} : Done(b) \in Row
BY DEF Absent, InProgress, Done, Row

\* So have the answers.
LEMMA AnswerTypes ==
  /\ NoAnswer \in Answer
  /\ \A u \in Unit, b \in Body \cup {None} : Ok(u, b) \in Answer
  /\ \A st \in {"conflict", "failed", "limited"} : Says(st) \in Answer
BY DEF NoAnswer, Ok, Says, Answer

\* Between its arrival and its answer a request has a unit and a body.
LEMMA OpenCall ==
  ASSUME TypeOK, NEW s \in Slot, stage[s] \notin {"idle", "answered"}
  PROVE  /\ call[s] \in Call
         /\ call[s].unit \in Unit
         /\ call[s].body \in Body
         /\ call[s].keyed \in BOOLEAN
BY DEF TypeOK, Call

\* sentra_push_v1 only ever fills an empty unit.
LEMMA StoreUnitKeeps ==
  ASSUME TypeOK, NEW u \in Unit, NEW b \in Body, StoreUnit(u, b)
  PROVE  /\ db' \in [Unit -> Body \cup {None}]
         /\ db'[u] # None
         /\ \A w \in Unit : db[w] # None => db'[w] = db[w]
BY PushServerAssumption DEF StoreUnit, TypeOK

-----------------------------------------------------------------------------
(* The inductive invariant.  AckedIsStored is not inductive alone: an answer *)
(* is written from a row (DoneIsStored) or from what the RPC left behind    *)
(* (RpcIsStored, SettleIsStored).  KeyExclusive needs HolderHasRow: who     *)
(* holds a key nobody failed open on has its row in progress, so nobody     *)
(* else can insert it.                                                      *)
\* Only a request waiting for the RPC has one running.
RpcInPush == \A s \in Slot : rpc[s] # "none" => stage[s] = "push"

\* Once its RPC ran, the unit of a request is stored.
RpcIsStored == \A s \in Slot : rpc[s] = "applied" => db[call[s].unit] # None

\* A request is about to settle its row only after its RPC ran.
SettleIsStored == \A s \in Slot : stage[s] = "settle" => db[call[s].unit] # None

\* Only requests with a key call the idempotency store.
KeyedStages == \A s \in Slot :
  stage[s] \in {"create", "get", "settle", "undo"} => call[s].keyed

\* Answers exist only after the handler replied, "ok" ones name a unit.
AnswerInStage == \A s \in Slot :
  /\ stage[s] # "answered" => answer[s] = NoAnswer
  /\ answer[s].status = "ok" => answer[s].unit \in Unit

\* A request that holds a key nobody failed open on has its row.
HolderHasRow == \A s \in Slot :
  (Holds(s) /\ KeyOf(s) \notin opened) => idem[KeyOf(s)].status = "in_progress"

\* A call left behind carries what its request would have sent.
LateCarries == \A c \in late :
  /\ c.does = "store" => c.body \in Body
  /\ c.does = "settle" => c.body # None /\ c.body = db[c.unit]

\* An update left behind meets the row of its own request, as long as nobody
\* failed open on the key.
LateSettleAlone == \A c \in late :
  (c.does = "settle" /\ IdemKey(c.unit) \notin opened) =>
    /\ idem[IdemKey(c.unit)].status # "absent"
    /\ \A s \in Slot : Holds(s) => KeyOf(s) # IdemKey(c.unit)

StoreInv == RpcInPush /\ RpcIsStored /\ SettleIsStored /\ AnswerInStage
            /\ AckedIsStored /\ DoneIsStored /\ LateCarries
KeyInv == KeyedStages /\ HolderHasRow /\ KeyExclusive /\ LateSettleAlone

IInv == TypeOK /\ StoreInv /\ KeyInv

\* A call under way is the one its request is at.
LEMMA InFlightCall ==
  ASSUME IInv, NEW s \in Slot, NEW c \in InFlight(s)
  PROVE  /\ c \in LateCall
         /\ c.unit = call[s].unit
         /\ c.does = "store" => c.body \in Body
         /\ c.does = "settle" => /\ stage[s] = "settle"
                                 /\ c.body # None
                                 /\ c.body = db[c.unit]
<1>1. stage[s] \notin {"idle", "answered"} /\ call[s] \in Call
  BY DEF InFlight, IInv, TypeOK
<1>2. call[s].unit \in Unit /\ call[s].body \in Body
  BY <1>1, OpenCall DEF IInv
<1>3. CASE stage[s] = "create"
  BY <1>2, <1>3 DEF InFlight, LateCall
<1>4. CASE stage[s] = "push"
  BY <1>2, <1>4 DEF InFlight, LateCall
<1>5. CASE stage[s] = "settle"
  <2>1. db[call[s].unit] # None /\ db[call[s].unit] \in Body \cup {None}
    BY <1>2, <1>5 DEF IInv, StoreInv, SettleIsStored, TypeOK
  <2> QED BY <1>2, <1>5, <2>1 DEF InFlight, LateCall
<1>6. CASE stage[s] = "undo"
  BY <1>2, <1>6 DEF InFlight, LateCall
<1> QED BY <1>1, <1>3, <1>4, <1>5, <1>6 DEF InFlight, IInv, TypeOK, Stage

\* What is left behind is typed and carries what its request would have sent.
LEMMA LeftBehind ==
  ASSUME IInv, NEW S \in SUBSET Slot, LeaveBehind(S), UNCHANGED db
  PROVE  /\ late' \subseteq LateCall
         /\ LateCarries'
         /\ \A c \in late' : c.does = "settle" =>
              c \in late \/ \E s \in S : stage[s] = "settle" /\ c.unit = call[s].unit
<1>1. ASSUME NEW c \in late'
      PROVE  c \in late \/ \E s \in S : c \in InFlight(s)
  BY DEF LeaveBehind
<1>2. \A c \in late' : c \in LateCall
  BY <1>1, InFlightCall DEF IInv, TypeOK
<1>3. LateCarries'
  BY <1>1, InFlightCall DEF LateCarries, IInv, StoreInv
<1>4. \A c \in late' : c.does = "settle" =>
        c \in late \/ \E s \in S : stage[s] = "settle" /\ c.unit = call[s].unit
  BY <1>1, InFlightCall
<1> QED BY <1>2, <1>3, <1>4

\* The keys that go adrift are keys.
LEMMA AbandonType ==
  ASSUME IInv, NEW S \in SUBSET Slot, Abandon(S)
  PROVE  adrift' \subseteq Unit
<1>1. \A s \in S : Holds(s) => KeyOf(s) \in Unit
  BY OpenCall DEF IInv, Holds, KeyOf, IdemKey
<1> QED BY <1>1 DEF Abandon, IInv, TypeOK

\* An update a request leaves behind when it ends meets the row of nobody else.
LEMMA SettleLeft ==
  ASSUME IInv, NEW S \in SUBSET Slot, LeaveBehind(S), UNCHANGED <<idem, db, opened>>,
         \A s \in S : ~Holds(s)',
         \A t \in Slot \ S : Holds(t)' => Holds(t) /\ KeyOf(t)' = KeyOf(t)
  PROVE  LateSettleAlone'
<1> SUFFICES ASSUME NEW c \in late', c.does = "settle", IdemKey(c.unit) \notin opened
             PROVE  /\ idem[IdemKey(c.unit)].status # "absent"
                    /\ \A t \in Slot : Holds(t)' => KeyOf(t)' # IdemKey(c.unit)
  BY DEF LateSettleAlone, IdemKey
<1>1. CASE c \in late
  BY <1>1 DEF IInv, KeyInv, LateSettleAlone
<1>2. CASE \E s \in S : stage[s] = "settle" /\ c.unit = call[s].unit
  <2>1. PICK s \in S : stage[s] = "settle" /\ c.unit = call[s].unit
    BY <1>2
  <2>2. Holds(s) /\ KeyOf(s) = IdemKey(c.unit)
    BY <2>1 DEF IInv, KeyInv, KeyedStages, Holds, KeyOf
  <2>3. idem[IdemKey(c.unit)].status = "in_progress"
    BY <2>2 DEF IInv, KeyInv, HolderHasRow
  <2>4. \A t \in Slot : (Holds(t) /\ t # s) => KeyOf(t) # IdemKey(c.unit)
    BY <2>2 DEF IInv, KeyInv, KeyExclusive
  <2> QED BY <2>3, <2>4
<1> QED BY <1>1, <1>2, LeftBehind

\* The row was absent, so by HolderHasRow no other request holds its key.
LEMMA CreateRowStep ==
  ASSUME IInv, NEW s \in Slot, CreateRow(s)
  PROVE  IInv'
<1> USE PushServerAssumption DEF KeyOf, IdemKey, histories, EndRow, GoPush
<1>1. TypeOK'
 BY OpenCall, RowTypes DEF IInv, TypeOK, Stage, CreateRow
<1>2. StoreInv'
 BY DEF IInv, TypeOK, CreateRow, StoreInv, RpcInPush, RpcIsStored,
    SettleIsStored, AnswerInStage, AckedIsStored, DoneIsStored, LateCarries, InProgress
<1>3. KeyInv'
 BY OpenCall DEF IInv, TypeOK, CreateRow, KeyInv, KeyedStages, HolderHasRow,
    LateSettleAlone,
    KeyExclusive, Holds, InProgress
<1> QED BY <1>1, <1>2, <1>3 DEF IInv

\* Nothing but the stage changes.
LEMMA CreateConflictStep ==
  ASSUME IInv, NEW s \in Slot, CreateConflict(s)
  PROVE  IInv'
<1> USE PushServerAssumption DEF KeyOf, IdemKey, histories, EndRow
<1>1. TypeOK'
 BY DEF IInv, TypeOK, Stage, CreateConflict
<1>2. StoreInv'
 BY DEF IInv, CreateConflict, StoreInv, RpcInPush, RpcIsStored,
    SettleIsStored, AnswerInStage, AckedIsStored, DoneIsStored, LateCarries
<1>3. KeyInv'
 BY DEF IInv, CreateConflict, KeyInv, KeyedStages, HolderHasRow, LateSettleAlone,
    KeyExclusive, Holds
<1> QED BY <1>1, <1>2, <1>3 DEF IInv

\* The key joins opened, which frees HolderHasRow, KeyExclusive and
\* LateSettleAlone from it.
LEMMA CreateFailsStep ==
  ASSUME IInv, NEW s \in Slot, CreateFails(s)
  PROVE  IInv'
<1> USE PushServerAssumption DEF KeyOf, IdemKey, histories, EndRow, GoPush
<1>0. /\ UNCHANGED db
      /\ LateCarries' /\ late' \subseteq LateCall
      /\ \A c \in late' : c.does = "settle" => c \in late
  <2>1. CASE LeaveBehind({s})
   BY <2>1, LeftBehind DEF CreateFails
  <2>2. CASE UNCHANGED late
   BY <2>2 DEF CreateFails, IInv, StoreInv, LateCarries, TypeOK
  <2> QED BY <2>1, <2>2 DEF CreateFails
<1>1. TypeOK'
 BY <1>0, OpenCall, RowTypes DEF IInv, TypeOK, Stage, CreateFails
<1>2. StoreInv'
 BY <1>0 DEF IInv, TypeOK, CreateFails, StoreInv, RpcInPush, RpcIsStored,
    SettleIsStored, AnswerInStage, AckedIsStored, DoneIsStored, InProgress
<1>3. KeyedStages' /\ KeyExclusive'
 BY DEF IInv, CreateFails, KeyInv, KeyedStages, KeyExclusive, Holds
<1>4. /\ \A u \in Unit :
           /\ idem[u].status = "in_progress" => idem'[u].status = "in_progress"
           /\ idem[u].status # "absent" => idem'[u].status # "absent"
      /\ \A t \in Slot :
          (Holds(t)' /\ KeyOf(t)' \notin opened') =>
            /\ Holds(t)
            /\ KeyOf(t) \notin opened
            /\ KeyOf(t)' = KeyOf(t)
            /\ KeyOf(t) \in Unit
  <2>1. \A u \in Unit :
           /\ idem[u].status = "in_progress" => idem'[u].status = "in_progress"
           /\ idem[u].status # "absent" => idem'[u].status # "absent"
   BY DEF IInv, TypeOK, CreateFails, InProgress
  <2>2. \A t \in Slot :
          (Holds(t)' /\ KeyOf(t)' \notin opened') =>
            /\ Holds(t)
            /\ KeyOf(t) \notin opened
            /\ KeyOf(t)' = KeyOf(t)
            /\ KeyOf(t) \in Unit
   BY OpenCall DEF IInv, CreateFails, Holds
  <2> QED BY <2>1, <2>2
<1>5. HolderHasRow'
 BY <1>4 DEF IInv, KeyInv, HolderHasRow
<1>6. LateSettleAlone'
  <2> SUFFICES ASSUME NEW c \in late', c.does = "settle", c.unit \notin opened'
               PROVE  /\ idem'[c.unit].status # "absent"
                      /\ \A t \in Slot : Holds(t)' => KeyOf(t)' # c.unit
    BY DEF LateSettleAlone
  <2>1. c \in late /\ c.unit \in Unit /\ c.unit \notin opened
   BY <1>0 DEF IInv, TypeOK, LateCall, CreateFails
  <2> QED BY <1>4, <2>1 DEF IInv, KeyInv, LateSettleAlone
<1> QED BY <1>1, <1>2, <1>3, <1>5, <1>6 DEF IInv, KeyInv

\* The response comes from a done row: DoneIsStored.
LEMMA ReplayStep ==
  ASSUME IInv, NEW s \in Slot, Replay(s)
  PROVE  IInv'
<1> USE PushServerAssumption DEF KeyOf, IdemKey, histories, EndRow, Reply
<1>1. TypeOK'
 BY OpenCall, AnswerTypes DEF IInv, TypeOK, Stage, Row, Replay
<1>2. StoreInv'
 BY OpenCall DEF IInv, TypeOK, Replay, StoreInv, RpcInPush, RpcIsStored,
    SettleIsStored, AnswerInStage, AckedIsStored, DoneIsStored, LateCarries, Ok
<1>3. KeyInv'
 BY DEF IInv, TypeOK, Replay, KeyInv, KeyedStages, HolderHasRow, LateSettleAlone,
    KeyExclusive, Holds
<1> QED BY <1>1, <1>2, <1>3 DEF IInv

\* A 409 acknowledges nothing.
LEMMA ConflictStep ==
  ASSUME IInv, NEW s \in Slot, Conflict(s)
  PROVE  IInv'
<1> USE PushServerAssumption DEF KeyOf, IdemKey, histories, EndRow, Reply
<1>1. TypeOK'
 BY AnswerTypes DEF IInv, TypeOK, Stage, Conflict
<1>2. StoreInv'
 BY DEF IInv, TypeOK, Conflict, StoreInv, RpcInPush, RpcIsStored,
    SettleIsStored, AnswerInStage, AckedIsStored, DoneIsStored, LateCarries, Says
<1>3. KeyInv'
 BY DEF IInv, TypeOK, Conflict, KeyInv, KeyedStages, HolderHasRow, LateSettleAlone,
    KeyExclusive, Holds
<1> QED BY <1>1, <1>2, <1>3 DEF IInv

\* The key joins opened.
LEMMA GetFailsStep ==
  ASSUME IInv, NEW s \in Slot, GetFails(s)
  PROVE  IInv'
<1> USE PushServerAssumption DEF KeyOf, IdemKey, histories, EndRow, GoPush
<1>1. TypeOK'
 BY OpenCall DEF IInv, TypeOK, Stage, GetFails
<1>2. StoreInv'
 BY DEF IInv, TypeOK, GetFails, StoreInv, RpcInPush, RpcIsStored,
    SettleIsStored, AnswerInStage, AckedIsStored, DoneIsStored, LateCarries
<1>3. KeyInv'
 BY DEF IInv, GetFails, KeyInv, KeyedStages, HolderHasRow, LateSettleAlone,
    KeyExclusive, Holds
<1> QED BY <1>1, <1>2, <1>3 DEF IInv

\* The unit is stored now, and stored units stay.
LEMMA RunRPCStep ==
  ASSUME IInv, NEW s \in Slot, RunRPC(s)
  PROVE  IInv'
<1> USE PushServerAssumption DEF KeyOf, IdemKey, histories, EndRow
<1>1. TypeOK'
 BY OpenCall DEF IInv, TypeOK, RunRPC, StoreUnit
<1>2. StoreInv'
 BY OpenCall DEF IInv, TypeOK, RunRPC, StoreInv, RpcInPush, RpcIsStored,
    SettleIsStored, AnswerInStage, AckedIsStored, DoneIsStored, LateCarries, StoreUnit
<1>3. KeyInv'
 BY DEF IInv, RunRPC, KeyInv, KeyedStages, HolderHasRow, LateSettleAlone,
    KeyExclusive, Holds
<1> QED BY <1>1, <1>2, <1>3 DEF IInv

\* The RPC ran, so what is settled or answered is stored: RpcIsStored.
LEMMA PushSucceedsStep ==
  ASSUME IInv, NEW s \in Slot, PushSucceeds(s)
  PROVE  IInv'
<1> USE PushServerAssumption DEF KeyOf, IdemKey, histories, EndRow, Reply, LeavePush
<1>0. /\ call[s] \in Call
      /\ call[s].unit \in Unit
      /\ call[s].body \in Body
      /\ call[s].keyed \in BOOLEAN
 BY OpenCall DEF IInv, PushSucceeds
<1>1. TypeOK'
 BY <1>0, AnswerTypes DEF IInv, TypeOK, Stage, PushSucceeds
<1>2. StoreInv'
 BY <1>0 DEF IInv, TypeOK, PushSucceeds, StoreInv, RpcInPush, RpcIsStored,
    SettleIsStored, AnswerInStage, AckedIsStored, DoneIsStored, LateCarries, NoAnswer, Ok
<1>3. KeyInv'
 BY DEF IInv, TypeOK, PushSucceeds, KeyInv, KeyedStages, HolderHasRow, LateSettleAlone,
    KeyExclusive, Holds
<1> QED BY <1>1, <1>2, <1>3 DEF IInv

\* The RPC may be left behind; nothing is acknowledged.
LEMMA PushFailsStep ==
  ASSUME IInv, NEW s \in Slot, PushFails(s)
  PROVE  IInv'
<1> USE PushServerAssumption DEF KeyOf, IdemKey, histories, EndRow, Reply, LeavePush
<1>0. /\ call[s] \in Call
      /\ call[s].unit \in Unit
      /\ call[s].body \in Body
      /\ call[s].keyed \in BOOLEAN
 BY OpenCall DEF IInv, PushFails
<1>1. /\ late' \subseteq LateCall
      /\ LateCarries'
      /\ \A c \in late' : c.does = "settle" => c \in late
 BY LeftBehind DEF PushFails
<1>2. TypeOK'
 BY <1>0, <1>1, AnswerTypes DEF IInv, TypeOK, Stage, PushFails
<1>3. StoreInv'
 BY <1>1 DEF IInv, TypeOK, PushFails, StoreInv, RpcInPush, RpcIsStored,
    SettleIsStored, AnswerInStage, AckedIsStored, DoneIsStored, Ok, Says
<1>4. KeyInv'
 BY <1>1 DEF IInv, TypeOK, PushFails, KeyInv, KeyedStages, HolderHasRow,
    LateSettleAlone, KeyExclusive, Holds
<1> QED BY <1>2, <1>3, <1>4 DEF IInv

\* Row and answer carry what is stored: SettleIsStored.
LEMMA SettleStep ==
  ASSUME IInv, NEW s \in Slot, Settle(s)
  PROVE  IInv'
<1> USE PushServerAssumption DEF KeyOf, IdemKey, histories, EndRow, Reply
<1>1. TypeOK'
 BY OpenCall, RowTypes, AnswerTypes DEF IInv, TypeOK, Stage, Settle
<1>2. StoreInv'
 BY OpenCall DEF IInv, TypeOK, Settle, StoreInv, RpcInPush, RpcIsStored,
    SettleIsStored, AnswerInStage, AckedIsStored, DoneIsStored, LateCarries, Ok, Done
<1>3. KeyInv'
 BY DEF IInv, TypeOK, Settle, KeyInv, KeyedStages, HolderHasRow, LateSettleAlone,
    KeyExclusive, Holds
<1> QED BY <1>1, <1>2, <1>3 DEF IInv

\* The row stays in progress, and the update may still come; the answer is
\* stored all the same.
LEMMA SettleFailsStep ==
  ASSUME IInv, NEW s \in Slot, SettleFails(s)
  PROVE  IInv'
<1> USE PushServerAssumption DEF KeyOf, IdemKey, histories, EndRow, Reply
<1>1. TypeOK'
 BY OpenCall, AnswerTypes, LeftBehind, AbandonType DEF IInv, TypeOK, Stage, SettleFails
<1>2. StoreInv'
 BY OpenCall, LeftBehind DEF IInv, TypeOK, SettleFails, StoreInv, RpcInPush,
    RpcIsStored, SettleIsStored, AnswerInStage, AckedIsStored, DoneIsStored, Ok
<1>3. LateSettleAlone'
  <2>1. ~Holds(s)' /\ \A t \in Slot \ {s} : Holds(t)' => Holds(t) /\ KeyOf(t)' = KeyOf(t)
   BY DEF SettleFails, Holds, IInv, TypeOK
  <2> QED BY <2>1, SettleLeft DEF SettleFails
<1>4. KeyInv'
 BY <1>3 DEF IInv, TypeOK, SettleFails, KeyInv, KeyedStages, HolderHasRow, KeyExclusive, Holds
<1> QED BY <1>1, <1>2, <1>4 DEF IInv

\* Deleting the row leaves nobody without one: its holder is answered.
LEMMA UndoStep ==
  ASSUME IInv, NEW s \in Slot, Undo(s)
  PROVE  IInv'
<1> USE PushServerAssumption DEF KeyOf, IdemKey, histories, EndRow, Reply
<1>1. TypeOK'
 BY OpenCall, RowTypes, AnswerTypes DEF IInv, TypeOK, Stage, Undo
<1>2. StoreInv'
 BY DEF IInv, TypeOK, Undo, StoreInv, RpcInPush, RpcIsStored, SettleIsStored,
    AnswerInStage, AckedIsStored, DoneIsStored, LateCarries, Says, Absent
<1>3. KeyInv'
 BY DEF IInv, TypeOK, Undo, KeyInv, KeyedStages, HolderHasRow, LateSettleAlone,
    KeyExclusive, Holds
<1> QED BY <1>1, <1>2, <1>3 DEF IInv

\* The row stays, and the delete may still come; nothing is acknowledged.
LEMMA UndoFailsStep ==
  ASSUME IInv, NEW s \in Slot, UndoFails(s)
  PROVE  IInv'
<1> USE PushServerAssumption DEF KeyOf, IdemKey, histories, EndRow, Reply
<1>1. TypeOK'
 BY OpenCall, AnswerTypes, LeftBehind, AbandonType DEF IInv, TypeOK, Stage, UndoFails
<1>2. StoreInv'
 BY OpenCall, LeftBehind DEF IInv, TypeOK, UndoFails, StoreInv, RpcInPush,
    RpcIsStored, SettleIsStored, AnswerInStage, AckedIsStored, DoneIsStored, Says
<1>3. LateSettleAlone'
  <2>1. ~Holds(s)' /\ \A t \in Slot \ {s} : Holds(t)' => Holds(t) /\ KeyOf(t)' = KeyOf(t)
   BY DEF UndoFails, Holds, IInv, TypeOK
  <2> QED BY <2>1, SettleLeft DEF UndoFails
<1>4. KeyInv'
 BY <1>3 DEF IInv, TypeOK, UndoFails, KeyInv, KeyedStages, HolderHasRow, KeyExclusive, Holds
<1> QED BY <1>1, <1>2, <1>4 DEF IInv

\* An answer leaves.
LEMMA DeliverStep ==
  ASSUME IInv, NEW s \in Slot, Deliver(s)
  PROVE  IInv'
<1> USE PushServerAssumption DEF KeyOf, IdemKey, histories, EndRow
<1>1. TypeOK'
 BY AnswerTypes DEF IInv, TypeOK, Stage, Deliver
<1>2. StoreInv'
 BY DEF IInv, TypeOK, Deliver, StoreInv, RpcInPush, RpcIsStored,
    SettleIsStored, AnswerInStage, AckedIsStored, DoneIsStored, LateCarries, NoAnswer
<1>3. KeyInv'
 BY DEF IInv, Deliver, KeyInv, KeyedStages, HolderHasRow, LateSettleAlone,
    KeyExclusive, Holds
<1> QED BY <1>1, <1>2, <1>3 DEF IInv

\* A new request holds no key and has acknowledged nothing.
LEMMA ReceiveStep ==
  ASSUME IInv, NEW s \in Slot, NEW u \in Unit, NEW b \in Body, NEW k \in BOOLEAN,
         Receive(s, u, b, k)
  PROVE  IInv'
<1> USE PushServerAssumption DEF KeyOf, IdemKey, histories, EndRow
<1>1. TypeOK'
 BY DEF IInv, TypeOK, Stage, Call, Receive
<1>2. StoreInv'
 BY DEF IInv, TypeOK, Receive, StoreInv, RpcInPush, RpcIsStored,
    SettleIsStored, AnswerInStage, AckedIsStored, DoneIsStored, LateCarries
<1>3. KeyInv'
 BY DEF IInv, TypeOK, Receive, KeyInv, KeyedStages, HolderHasRow, LateSettleAlone,
    KeyExclusive, Holds
<1> QED BY <1>1, <1>2, <1>3 DEF IInv

\* A request turned away touches no table.
LEMMA TurnAwayStep ==
  ASSUME IInv, NEW s \in Slot, NEW st \in {"limited", "failed"}, TurnAway(s, st)
  PROVE  IInv'
<1> USE PushServerAssumption DEF KeyOf, IdemKey, histories, EndRow, Reply
<1>1. TypeOK'
 BY AnswerTypes DEF IInv, TypeOK, Stage, TurnAway
<1>2. StoreInv'
 BY DEF IInv, TypeOK, TurnAway, StoreInv, RpcInPush, RpcIsStored,
    SettleIsStored, AnswerInStage, AckedIsStored, DoneIsStored, LateCarries, Says
<1>3. KeyInv'
 BY DEF IInv, TurnAway, KeyInv, KeyedStages, HolderHasRow, LateSettleAlone,
    KeyExclusive, Holds
<1> QED BY <1>1, <1>2, <1>3 DEF IInv

\* A row appears for nobody, where there was none.
LEMMA RunLateInsertStep ==
  ASSUME IInv, NEW c \in late, RunLateInsert(c)
  PROVE  IInv'
<1> USE PushServerAssumption DEF KeyOf, IdemKey, histories, EndRow, RunLate
<1>0. c.unit \in Unit
 BY DEF IInv, TypeOK, LateCall
<1>1. TypeOK'
 BY <1>0, RowTypes DEF IInv, TypeOK, RunLateInsert
<1>2. StoreInv'
 BY <1>0 DEF IInv, TypeOK, RunLateInsert, StoreInv, RpcInPush, RpcIsStored,
    SettleIsStored, AnswerInStage, AckedIsStored, DoneIsStored, LateCarries, InProgress
<1>3. KeyInv'
  <2>1. \A u \in Unit : idem[u].status # "absent" => idem'[u] = idem[u]
   BY <1>0 DEF IInv, TypeOK, RunLateInsert
  <2>2. \A t \in Slot : Holds(t) => KeyOf(t) \in Unit
   BY OpenCall DEF IInv, Holds
  <2>3. HolderHasRow'
   BY <2>1, <2>2 DEF IInv, RunLateInsert, KeyInv, HolderHasRow, Holds
  <2>4. LateSettleAlone'
   BY <2>1 DEF IInv, TypeOK, RunLateInsert, KeyInv, LateSettleAlone, Holds, LateCall
  <2> QED BY <2>3, <2>4 DEF IInv, RunLateInsert, KeyInv, KeyedStages, KeyExclusive, Holds
<1> QED BY <1>1, <1>2, <1>3 DEF IInv

\* A late RPC only fills an empty unit.
LEMMA RunLateRPCStep ==
  ASSUME IInv, NEW c \in late, RunLateRPC(c)
  PROVE  IInv'
<1> USE PushServerAssumption DEF KeyOf, IdemKey, histories, EndRow, RunLate
<1>0. c.unit \in Unit /\ c.body \in Body
 BY DEF IInv, TypeOK, LateCall, RunLateRPC, StoreInv, LateCarries
<1>1. TypeOK'
 BY <1>0, StoreUnitKeeps DEF IInv, TypeOK, RunLateRPC
<1>2. StoreInv'
 BY <1>0 DEF IInv, TypeOK, RunLateRPC, StoreUnit, StoreInv, RpcInPush, RpcIsStored,
    SettleIsStored, AnswerInStage, AckedIsStored, DoneIsStored, LateCarries, LateCall
<1>3. KeyInv'
 BY DEF IInv, RunLateRPC, KeyInv, KeyedStages, HolderHasRow, LateSettleAlone,
    KeyExclusive, Holds
<1> QED BY <1>1, <1>2, <1>3 DEF IInv

\* The row, if any, carries what is stored: LateCarries.  It is nobody's, or
\* somebody failed open on its key: LateSettleAlone.
LEMMA RunLateSettleStep ==
  ASSUME IInv, NEW c \in late, RunLateSettle(c)
  PROVE  IInv'
<1> USE PushServerAssumption DEF KeyOf, IdemKey, histories, EndRow, RunLate
<1>0. c.unit \in Unit /\ c.body = db[c.unit] /\ c.body # None /\ c.body \in Body \cup {None}
 BY DEF IInv, TypeOK, LateCall, RunLateSettle, StoreInv, LateCarries
<1>1. TypeOK'
 BY <1>0, RowTypes DEF IInv, TypeOK, RunLateSettle
<1>2. StoreInv'
 BY <1>0 DEF IInv, TypeOK, RunLateSettle, StoreInv, RpcInPush, RpcIsStored,
    SettleIsStored, AnswerInStage, AckedIsStored, DoneIsStored, LateCarries, Done
<1>3. KeyInv'
 BY <1>0 DEF IInv, TypeOK, RunLateSettle, KeyInv, KeyedStages, HolderHasRow,
    LateSettleAlone, KeyExclusive, Holds, Done, LateCall
<1> QED BY <1>1, <1>2, <1>3 DEF IInv

\* The key joins opened.
LEMMA RunLateDeleteStep ==
  ASSUME IInv, NEW c \in late, RunLateDelete(c)
  PROVE  IInv'
<1> USE PushServerAssumption DEF KeyOf, IdemKey, histories, EndRow, RunLate
<1>0. c.unit \in Unit
 BY DEF IInv, TypeOK, LateCall
<1>1. TypeOK'
 BY <1>0, RowTypes DEF IInv, TypeOK, RunLateDelete
<1>2. StoreInv'
 BY <1>0 DEF IInv, TypeOK, RunLateDelete, StoreInv, RpcInPush, RpcIsStored,
    SettleIsStored, AnswerInStage, AckedIsStored, DoneIsStored, LateCarries, Absent
<1>3. KeyInv'
 BY <1>0 DEF IInv, TypeOK, RunLateDelete, KeyInv, KeyedStages, HolderHasRow,
    LateSettleAlone, KeyExclusive, Holds, LateCall
<1> QED BY <1>1, <1>2, <1>3 DEF IInv

\* The tables survive; who vanished holds no key.
LEMMA VanishStep ==
  ASSUME IInv, NEW S \in SUBSET Slot, Vanish(S)
  PROVE  IInv'
<1> USE PushServerAssumption DEF KeyOf, IdemKey, histories, EndRow
<1>1. TypeOK'
 BY AnswerTypes, LeftBehind, AbandonType DEF IInv, TypeOK, Stage, Vanish
<1>2. StoreInv'
 BY LeftBehind DEF IInv, Vanish, StoreInv, RpcInPush, RpcIsStored, SettleIsStored,
    AnswerInStage, AckedIsStored, DoneIsStored, NoAnswer
<1>3. LateSettleAlone'
 BY SettleLeft DEF Vanish, Holds
<1>4. KeyInv'
 BY <1>3 DEF IInv, Vanish, KeyInv, KeyedStages, HolderHasRow, KeyExclusive, Holds
<1> QED BY <1>1, <1>2, <1>4 DEF IInv

\* Nothing is open and every table is empty.
LEMMA InitIInv == ServerInit => IInv
BY RowTypes, AnswerTypes DEF ServerInit, IInv, TypeOK, Stage, StoreInv,
   RpcInPush, RpcIsStored, SettleIsStored, AnswerInStage, AckedIsStored,
   DoneIsStored, LateCarries, KeyInv, KeyedStages, HolderHasRow, LateSettleAlone, KeyExclusive, Holds,
   NoAnswer, Absent, IdemKey

\* The invariant reads no variable but these.
LEMMA StutterIInv == IInv /\ UNCHANGED serverVars => IInv'
BY DEF serverVars, IInv, TypeOK, StoreInv, RpcInPush, RpcIsStored,
   SettleIsStored, AnswerInStage, AckedIsStored, DoneIsStored, LateCarries, KeyInv,
   KeyedStages, HolderHasRow, LateSettleAlone, KeyExclusive, Holds, KeyOf

\* One case per action.
LEMMA NextIInv == IInv /\ [Next]_serverVars => IInv'
<1> SUFFICES ASSUME IInv, [Next]_serverVars PROVE IInv'
  OBVIOUS
<1>1. ASSUME NEW s \in Slot, Request(s) PROVE IInv'
 BY <1>1, ReceiveStep, TurnAwayStep DEF Request
<1>2. ASSUME NEW s \in Slot, Handle(s) PROVE IInv'
 BY <1>2, CreateRowStep, CreateConflictStep, ReplayStep, ConflictStep,
    PushSucceedsStep, SettleStep, UndoStep DEF Handle
<1>3. ASSUME NEW s \in Slot, Fail(s) PROVE IInv'
 BY <1>3, CreateFailsStep, GetFailsStep, PushFailsStep, SettleFailsStep,
    UndoFailsStep DEF Fail
<1>4. ASSUME Database PROVE IInv'
 BY <1>4, RunRPCStep, RunLateInsertStep, RunLateRPCStep, RunLateSettleStep,
    RunLateDeleteStep DEF Database
<1> QED
  BY <1>1, <1>2, <1>3, <1>4, DeliverStep, VanishStep, StutterIInv
     DEF Next, Disconnect, Crash

-----------------------------------------------------------------------------
\* The inductive invariant holds throughout.
THEOREM SpecIInv == Spec => []IInv
BY InitIInv, NextIInv, PTL DEF Spec

\* Type correctness for all constants.
THEOREM TypeCorrect == Spec => []TypeOK
BY SpecIInv, PTL DEF IInv

\* Whoever is told "ok" (push.go:127-129) is told what the database stores.
THEOREM AckedIsStoredAlways == Spec => []AckedIsStored
<1>1. IInv => AckedIsStored
 BY DEF IInv, StoreInv
<1> QED BY <1>1, SpecIInv, PTL

\* A done row (idempotency.go:160-215) replays what the database stores.
THEOREM DoneIsStoredAlways == Spec => []DoneIsStored
<1>1. IInv => DoneIsStored
 BY DEF IInv, StoreInv
<1> QED BY <1>1, SpecIInv, PTL

\* Requests share a key only after one of them failed open on it
\* (push.go:70-84).
THEOREM KeyExclusiveAlways == Spec => []KeyExclusive
<1>1. IInv => KeyExclusive
 BY DEF IInv, KeyInv
<1> QED BY <1>1, SpecIInv, PTL

-----------------------------------------------------------------------------
\* Told depends on the answers alone.
LEMMA ToldFrame ==
  ASSUME answer' = answer
  PROVE  Told' = Told
BY DEF Told

\* Answering "ok" with what is stored is a Tell.
LEMMA ReplyTells ==
  ASSUME IInv, NEW s \in Slot, NEW u \in Unit, db[u] # None, UNCHANGED db,
         stage[s] # "answered", Reply(s, Ok(u, db[u]))
  PROVE  Once!Tell(s, u)
<1>1. answer[s] = NoAnswer
 BY DEF IInv, StoreInv, AnswerInStage
<1>2. Told[s] = None
 BY <1>1 DEF Told, NoAnswer
<1>3. answer' = [answer EXCEPT ![s] = Ok(u, db[u])]
 BY DEF Reply
<1>4. Told' = [Told EXCEPT ![s] = <<u, db[u]>>]
 BY <1>3 DEF Told, Ok, IInv, TypeOK
<1> QED BY <1>2, <1>4 DEF Once!Tell

\* Any other answer tells nothing.
LEMMA ReplySaysNothing ==
  ASSUME IInv, NEW s \in Slot, NEW st \in {"conflict", "failed", "limited"},
         stage[s] # "answered", Reply(s, Says(st))
  PROVE  Told' = Told
<1>1. answer[s] = NoAnswer
 BY DEF IInv, StoreInv, AnswerInStage
<1>2. answer' = [answer EXCEPT ![s] = Says(st)]
 BY DEF Reply
<1> QED BY <1>1, <1>2 DEF Told, NoAnswer, Says

\* Running the RPC is a Store, or nothing if the unit is stored.
LEMMA RunStores ==
  ASSUME IInv, NEW u \in Unit, NEW b \in Body, StoreUnit(u, b), UNCHANGED answer
  PROVE  Once!Store(u, b) \/ UNCHANGED Once!onceVars
BY ToldFrame DEF StoreUnit, Once!Store, Once!onceVars

\* What the handler does.
LEMMA HandleRefines ==
  ASSUME IInv, NEW s \in Slot, Handle(s)
  PROVE  [Once!OnceNext]_(Once!onceVars)
<1>1. CASE CreateRow(s) \/ CreateConflict(s)
 BY <1>1, ToldFrame DEF CreateRow, CreateConflict, GoPush, Once!onceVars
<1>2. CASE Replay(s)
  <2>1. call[s].unit \in Unit /\ stage[s] = "get"
   BY <1>2, OpenCall DEF Replay, IInv
  <2>2. idem[KeyOf(s)].response = db[call[s].unit] /\ db[call[s].unit] # None
   BY <1>2, <2>1 DEF Replay, KeyOf, IInv, StoreInv, DoneIsStored
  <2> QED BY <1>2, <2>1, <2>2, ReplyTells DEF Replay, Once!OnceNext
<1>3. CASE Conflict(s)
 BY <1>3, ReplySaysNothing DEF Conflict, Once!onceVars
<1>4. CASE PushSucceeds(s)
  <2>1. call[s].unit \in Unit /\ stage[s] = "push" /\ db[call[s].unit] # None
   BY <1>4, OpenCall DEF PushSucceeds, IInv, StoreInv, RpcIsStored
  <2> QED
    BY <1>4, <2>1, ReplyTells, ToldFrame DEF PushSucceeds, LeavePush,
       Once!OnceNext, Once!onceVars
<1>5. CASE Settle(s)
  <2>1. call[s].unit \in Unit /\ stage[s] = "settle" /\ db[call[s].unit] # None
   BY <1>5, OpenCall DEF Settle, IInv, StoreInv, SettleIsStored
  <2> QED BY <1>5, <2>1, ReplyTells DEF Settle, Once!OnceNext
<1>6. CASE Undo(s)
 BY <1>6, ReplySaysNothing DEF Undo, Once!onceVars
<1> QED BY <1>1, <1>2, <1>3, <1>4, <1>5, <1>6 DEF Handle

\* What goes wrong in a handler.
LEMMA FailRefines ==
  ASSUME IInv, NEW s \in Slot, Fail(s)
  PROVE  [Once!OnceNext]_(Once!onceVars)
<1>1. CASE CreateFails(s) \/ GetFails(s)
 BY <1>1, ToldFrame DEF CreateFails, GetFails, GoPush, Once!onceVars
<1>2. CASE PushFails(s)
 BY <1>2, ReplySaysNothing, ToldFrame DEF PushFails, LeavePush, Once!onceVars
<1>3. CASE SettleFails(s)
  <2>1. call[s].unit \in Unit /\ stage[s] = "settle" /\ db[call[s].unit] # None
   BY <1>3, OpenCall DEF SettleFails, IInv, StoreInv, SettleIsStored
  <2> QED BY <1>3, <2>1, ReplyTells DEF SettleFails, Once!OnceNext
<1>4. CASE UndoFails(s)
 BY <1>4, ReplySaysNothing DEF UndoFails, Once!onceVars
<1> QED BY <1>1, <1>2, <1>3, <1>4 DEF Fail

\* Arrivals tell and store nothing.
LEMMA RequestRefines ==
  ASSUME IInv, NEW s \in Slot, Request(s)
  PROVE  UNCHANGED Once!onceVars
<1>1. ASSUME NEW u \in Unit, NEW b \in Body, NEW k \in BOOLEAN, Receive(s, u, b, k)
      PROVE  UNCHANGED Once!onceVars
 BY <1>1, ToldFrame DEF Receive, Once!onceVars
<1>2. ASSUME NEW st \in {"limited", "failed"}, TurnAway(s, st)
      PROVE  UNCHANGED Once!onceVars
 BY <1>2, ReplySaysNothing DEF TurnAway, Once!onceVars
<1> QED BY <1>1, <1>2 DEF Request

\* What the database runs, for a caller or for nobody.
LEMMA DatabaseRefines ==
  ASSUME IInv, Database
  PROVE  [Once!OnceNext]_(Once!onceVars)
<1>1. ASSUME NEW s \in Slot, RunRPC(s)
      PROVE  [Once!OnceNext]_(Once!onceVars)
 BY <1>1, RunStores, OpenCall DEF RunRPC, Once!OnceNext, IInv
<1>2. ASSUME NEW c \in late, RunLateRPC(c)
      PROVE  [Once!OnceNext]_(Once!onceVars)
  <2>1. c.unit \in Unit /\ c.body \in Body
   BY <1>2 DEF RunLateRPC, RunLate, IInv, TypeOK, LateCall, StoreInv, LateCarries
  <2> QED BY <1>2, <2>1, RunStores DEF RunLateRPC, RunLate, Once!OnceNext
<1>3. ASSUME NEW c \in late, RunLateInsert(c) \/ RunLateSettle(c) \/ RunLateDelete(c)
      PROVE  UNCHANGED Once!onceVars
 BY <1>3, ToldFrame DEF RunLateInsert, RunLateSettle, RunLateDelete, RunLate,
    Once!onceVars
<1> QED BY <1>1, <1>2, <1>3 DEF Database

\* Answers that leave are forgotten.
LEMMA AnswersLeave ==
  ASSUME IInv, NEW S \in SUBSET Slot, UNCHANGED db,
         answer' = [s \in Slot |-> IF s \in S THEN NoAnswer ELSE answer[s]]
  PROVE  Once!Forget(S)
BY DEF Once!Forget, Told, NoAnswer

\* Deliveries, clients that leave, crashes.
LEMMA LeaveRefines ==
  ASSUME IInv, Crash \/ \E s \in Slot : Deliver(s) \/ Disconnect(s)
  PROVE  [Once!OnceNext]_(Once!onceVars)
<1>1. ASSUME NEW S \in SUBSET Slot, Vanish(S)
      PROVE  [Once!OnceNext]_(Once!onceVars)
 BY <1>1, AnswersLeave DEF Vanish, Once!OnceNext
<1>2. ASSUME NEW s \in Slot, Deliver(s)
      PROVE  [Once!OnceNext]_(Once!onceVars)
  <2>1. answer' = [t \in Slot |-> IF t \in {s} THEN NoAnswer ELSE answer[t]]
   BY <1>2 DEF Deliver, IInv, TypeOK
  <2>2. {s} \in SUBSET Slot /\ UNCHANGED db
   BY <1>2 DEF Deliver
  <2> QED BY <2>1, <2>2, AnswersLeave DEF Once!OnceNext
<1> QED BY <1>1, <1>2 DEF Crash, Disconnect

\* A push is stored once and "ok" means stored: PushServer implements PushOnce.
THEOREM ImplementsPushOnce == Spec => StoresOnce
<1>1. ServerInit => Once!OnceInit
 BY DEF ServerInit, Once!OnceInit, Told, NoAnswer
<1>2. IInv /\ [Next]_serverVars => [Once!OnceNext]_(Once!onceVars)
  <2> SUFFICES ASSUME IInv, [Next]_serverVars
               PROVE  [Once!OnceNext]_(Once!onceVars)
    OBVIOUS
  <2>1. CASE UNCHANGED serverVars
   BY <2>1, ToldFrame DEF serverVars, Once!onceVars
  <2> QED
    BY <2>1, RequestRefines, HandleRefines, FailRefines, DatabaseRefines,
       LeaveRefines DEF Next
<1> QED BY <1>1, <1>2, SpecIInv, PTL DEF Spec, StoresOnce, Once!OnceSpec
=============================================================================

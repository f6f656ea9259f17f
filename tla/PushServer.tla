----------------------------- MODULE PushServer -----------------------------
(***************************************************************************)
(* The server side of POST /push: server/internal/httpapi/push.go with the *)
(* idempotency table behind server/internal/repo/idempotency.go and the    *)
(* sentra_push_v1 RPC behind server/internal/repo/push.go.                 *)
(*                                                                         *)
(* Every request runs in its own goroutine and makes up to four separate   *)
(* calls over the network: insert the key row, read it, run the RPC, then  *)
(* mark the row done or delete it.  Each call is a step of its own here,   *)
(* so requests interleave at every call.  Each call can fail, by itself    *)
(* (the client gives up after 10 s) or because the client of the request   *)
(* went away and with it the context every call carries; a call that       *)
(* failed may have taken effect, and one the server gave up on may still   *)
(* run at any later time.  The server can die between any two steps.       *)
(***************************************************************************)
EXTENDS Integers, FiniteSets

CONSTANTS Slot,     \* requests the server can have open at the same time
          Commit,   \* client_ids, one per local commit of the CLI
          Project,  \* project roots
          Body,     \* encrypted file sets of a request
          None,     \* no body
          Faults,   \* the kinds of failure the environment can produce
          MaxLate   \* calls left behind at the same time

FaultKind == {"create", "get", "settle", "undo", "store", "refuse", "disconnect", "crash"}

ASSUME PushServerAssumption == /\ Faults \subseteq FaultKind
                               /\ MaxLate \in Nat
                               /\ None \notin Body
                               /\ Slot # {}

VARIABLES stage,   \* stage[s]: which call of the handler s makes next
          call,    \* call[s]: the request being handled
          rpc,     \* rpc[s]: how far the RPC of s got
          answer,  \* answer[s]: what the handler wrote back
          idem,    \* the rows of idempotency_keys, by key
          db,      \* what sentra_push_v1 has stored
          late,    \* calls nobody waits for that the database may still run
          opened,  \* history: keys some request went ahead on without its row,
                   \* or whose row a call left behind deleted
          adrift   \* history: keys whose row was left, or inserted, with nobody
                   \* to end it, and has not ended since

histories == <<opened, adrift>>
serverVars == <<stage, call, rpc, answer, idem, db, late, opened, adrift>>

-----------------------------------------------------------------------------
(* A unit is what one request of `sentra push` carries: one project's share *)
(* of one commit.  The user is fixed.                                       *)
Unit == Commit \X Project

\* The X-Idempotency-Key the CLI derives, a hash of user, root and client_id.
IdemKeyWithoutRoot(u) == <<u[1], CHOOSE p \in Project : TRUE>>
IdemKey(u) == u

Call == [unit : Unit, body : Body, keyed : BOOLEAN]
Row == [status : {"absent", "in_progress", "done"}, response : Body \cup {None}]
Answer == [status : {"none", "ok", "conflict", "failed", "limited"},
           unit : Unit \cup {None}, response : Body \cup {None}]

Absent == [status |-> "absent", response |-> None]
InProgress == [status |-> "in_progress", response |-> None]
Done(b) == [status |-> "done", response |-> b]
NoAnswer == [status |-> "none", unit |-> None, response |-> None]
Ok(u, b) == [status |-> "ok", unit |-> u, response |-> b]
Says(st) == [status |-> st, unit |-> None, response |-> None]

\* A call on its way to the database, of a request that may be gone.
LateCall == [does : {"insert", "store", "settle", "delete"},
             unit : Unit, body : Body \cup {None}]

Stage == {"idle", "create", "get", "push", "settle", "undo", "answered"}

TypeOK == /\ stage \in [Slot -> Stage]
          /\ call \in [Slot -> Call \cup {None}]
          /\ \A s \in Slot : stage[s] \notin {"idle", "answered"} => call[s] \in Call
          /\ rpc \in [Slot -> {"none", "sent", "applied"}]
          /\ answer \in [Slot -> Answer]
          /\ idem \in [Unit -> Row]
          /\ db \in [Unit -> Body \cup {None}]
          /\ late \subseteq LateCall
          /\ opened \subseteq Unit
          /\ adrift \subseteq Unit

ServerInit == /\ stage = [s \in Slot |-> "idle"]
              /\ call = [s \in Slot |-> None]
              /\ rpc = [s \in Slot |-> "none"]
              /\ answer = [s \in Slot |-> NoAnswer]
              /\ idem = [u \in Unit |-> Absent]
              /\ db = [u \in Unit |-> None]
              /\ late = {}
              /\ opened = {}
              /\ adrift = {}

-----------------------------------------------------------------------------
KeyOf(s) == IdemKey(call[s].unit)

\* The handler writes its answer and returns; the answer knows the unit of
\* the request it belongs to.
Reply(s, a) == /\ stage' = [stage EXCEPT ![s] = "answered"]
               /\ call' = [call EXCEPT ![s] = None]
               /\ answer' = [answer EXCEPT ![s] = a]
               /\ rpc' = [rpc EXCEPT ![s] = "none"]

\* The handler goes on to the RPC.
GoPush(s) == /\ stage' = [stage EXCEPT ![s] = "push"]
             /\ rpc' = [rpc EXCEPT ![s] = "sent"]
             /\ UNCHANGED <<call, answer>>

\* The RPC is over: the handler goes on to its last call.
LeavePush(s, st) == /\ stage' = [stage EXCEPT ![s] = st]
                    /\ rpc' = [rpc EXCEPT ![s] = "none"]
                    /\ UNCHANGED <<call, answer>>

\* A request holds its key from the insert of the row to its answer.
Holds(s) == stage[s] \in {"push", "settle", "undo"} /\ call[s].keyed

\* The call of s that is on its way and that the database has not run.
InFlight(s) ==
  LET Sent(d, b) == {[does |-> d, unit |-> call[s].unit, body |-> b]}
  IN  CASE stage[s] = "create" -> Sent("insert", None)
        [] stage[s] = "push" /\ rpc[s] = "sent" -> Sent("store", call[s].body)
        [] stage[s] = "settle" -> Sent("settle", db[call[s].unit])
        [] stage[s] = "undo" -> Sent("delete", None)
        [] OTHER -> {}

\* The calls of S fail: each is lost or may run at any later time.
LeaveBehind(S) ==
  /\ \E L \in SUBSET UNION {InFlight(s) : s \in S} : late' = late \cup L
  /\ Cardinality(late') =< MaxLate

\* The requests of S end no row any more: their keys are adrift, until
\* somebody settles or deletes the row.
Abandon(S) == adrift' = adrift \cup {KeyOf(s) : s \in {t \in S : Holds(t)}}
EndRow(u) == adrift' = adrift \ {u}

\* sentra_push_v1: (user, project, client_id) is unique; a retry of a stored
\* unit returns the stored one.
StoreUnit(u, b) == db' = IF db[u] = None THEN [db EXCEPT ![u] = b] ELSE db

-----------------------------------------------------------------------------
(* A request that passed the middlewares and the schema: the handler tries  *)
(* to claim the key, or, without a key, pushes at once.                     *)
ReceiveUnread(s, u, b, k) ==
  /\ stage[s] = "idle"
  /\ stage' = [stage EXCEPT ![s] = IF k THEN "create" ELSE "push"]
  /\ rpc' = [rpc EXCEPT ![s] = IF k THEN "none" ELSE "sent"]
  /\ UNCHANGED <<call, answer, idem, db, late, histories>>
Receive(s, u, b, k) ==
  /\ stage[s] = "idle"
  /\ call' = [call EXCEPT ![s] = [unit |-> u, body |-> b, keyed |-> k]]
  /\ stage' = [stage EXCEPT ![s] = IF k THEN "create" ELSE "push"]
  /\ rpc' = [rpc EXCEPT ![s] = IF k THEN "none" ELSE "sent"]
  /\ UNCHANGED <<answer, idem, db, late, histories>>

\* A request the rate limiter (429), the other middlewares, the schema or
\* the key syntax turn away before anything is called.
TurnAway(s, st) ==
  /\ "refuse" \in Faults
  /\ stage[s] = "idle"
  /\ Reply(s, Says(st))
  /\ UNCHANGED <<idem, db, late, histories>>

\* Create inserted the row: this request owns the key.
UpsertRow(s) ==
  /\ stage[s] = "create"
  /\ idem' = [idem EXCEPT ![KeyOf(s)] = InProgress]
  /\ GoPush(s)
  /\ UNCHANGED <<db, late, histories>>
CreateRow(s) ==
  /\ stage[s] = "create"
  /\ idem[KeyOf(s)].status = "absent"
  /\ idem' = [idem EXCEPT ![KeyOf(s)] = InProgress]
  /\ GoPush(s)
  /\ UNCHANGED <<db, late, histories>>

\* Create hit the primary key (409): read the row next.
CreateConflict(s) ==
  /\ stage[s] = "create"
  /\ idem[KeyOf(s)].status # "absent"
  /\ stage' = [stage EXCEPT ![s] = "get"]
  /\ UNCHANGED <<call, rpc, answer, idem, db, late, histories>>

\* Create failed, with the row inserted, not inserted, or inserted some time
\* later: the handler fails open.
CreateFailsClosed(s) ==
  /\ "create" \in Faults
  /\ stage[s] = "create"
  /\ \/ LeaveBehind({s}) /\ UNCHANGED idem
     \/ /\ idem[KeyOf(s)].status = "absent"
        /\ idem' = [idem EXCEPT ![KeyOf(s)] = InProgress]
        /\ UNCHANGED late
  /\ Reply(s, Says("failed"))
  /\ UNCHANGED <<db, histories>>
CreateFails(s) ==
  /\ "create" \in Faults
  /\ stage[s] = "create"
  /\ \/ LeaveBehind({s}) /\ UNCHANGED idem
     \/ /\ idem[KeyOf(s)].status = "absent"
        /\ idem' = [idem EXCEPT ![KeyOf(s)] = InProgress]
        /\ UNCHANGED late
  /\ GoPush(s)
  /\ opened' = opened \cup {KeyOf(s)}
  /\ UNCHANGED <<db, adrift>>

\* Get found the row done: replay its response.
ReplayAnyRow(s) ==
  /\ stage[s] = "get"
  /\ idem[KeyOf(s)].status # "absent"
  /\ Reply(s, Ok(call[s].unit, idem[KeyOf(s)].response))
  /\ UNCHANGED <<idem, db, late, histories>>
Replay(s) ==
  /\ stage[s] = "get"
  /\ idem[KeyOf(s)].status = "done"
  /\ Reply(s, Ok(call[s].unit, idem[KeyOf(s)].response))
  /\ UNCHANGED <<idem, db, late, histories>>

\* Get found the row in progress, or no row any more: 409.
Conflict(s) ==
  /\ stage[s] = "get"
  /\ idem[KeyOf(s)].status # "done"
  /\ Reply(s, Says("conflict"))
  /\ UNCHANGED <<idem, db, late, histories>>

\* Get failed: the handler fails open.
GetFails(s) ==
  /\ "get" \in Faults
  /\ stage[s] = "get"
  /\ GoPush(s)
  /\ opened' = opened \cup {KeyOf(s)}
  /\ UNCHANGED <<idem, db, late, adrift>>

\* The database runs the RPC of an open request.
RunRPC(s) ==
  /\ stage[s] = "push"
  /\ rpc[s] = "sent"
  /\ StoreUnit(call[s].unit, call[s].body)
  /\ rpc' = [rpc EXCEPT ![s] = "applied"]
  /\ UNCHANGED <<stage, call, answer, idem, late, histories>>

\* The database runs a call whose caller timed out, lost its client or died.
RunLate(c, d) == /\ c \in late
                 /\ c.does = d
                 /\ late' = late \ {c}
                 /\ UNCHANGED <<stage, call, rpc, answer>>

\* The insert of a row: nobody will end it if no request goes on with the key.
RunLateInsert(c) ==
  /\ RunLate(c, "insert")
  /\ IF idem[IdemKey(c.unit)].status = "absent"
     THEN /\ idem' = [idem EXCEPT ![IdemKey(c.unit)] = InProgress]
          /\ adrift' = adrift \cup {IdemKey(c.unit)}
     ELSE UNCHANGED <<idem, adrift>>
  /\ UNCHANGED <<db, opened>>

RunLateRPC(c) ==
  /\ RunLate(c, "store")
  /\ StoreUnit(c.unit, c.body)
  /\ UNCHANGED <<idem, histories>>

RunLateSettle(c) ==
  /\ RunLate(c, "settle")
  /\ idem' = IF idem[IdemKey(c.unit)].status = "absent" THEN idem
             ELSE [idem EXCEPT ![IdemKey(c.unit)] = Done(c.body)]
  /\ EndRow(IdemKey(c.unit))
  /\ UNCHANGED <<db, opened>>

\* The row may be another request's by now.
RunLateDelete(c) ==
  /\ RunLate(c, "delete")
  /\ idem' = [idem EXCEPT ![IdemKey(c.unit)] = Absent]
  /\ opened' = opened \cup {IdemKey(c.unit)}
  /\ EndRow(IdemKey(c.unit))
  /\ UNCHANGED db

\* The RPC answered.  With a key the row is settled next, without one the
\* handler answers.
PushSucceeds(s) ==
  /\ stage[s] = "push"
  /\ rpc[s] = "applied"
  /\ IF call[s].keyed
     THEN LeavePush(s, "settle")
     ELSE Reply(s, Ok(call[s].unit, db[call[s].unit]))
  /\ UNCHANGED <<idem, db, late, histories>>

\* Push returned an error: refused by the database, or timed out before or
\* after the database ran it.
PushFails(s) ==
  /\ "store" \in Faults
  /\ stage[s] = "push"
  /\ LeaveBehind({s})
  /\ IF call[s].keyed
     THEN LeavePush(s, "undo")
     ELSE Reply(s, Says("failed"))
  /\ UNCHANGED <<idem, db, histories>>

\* SetDone patches the row if it is there, whoever inserted it.
SettleOwnBody(s) ==
  /\ stage[s] = "settle"
  /\ idem' = IF idem[KeyOf(s)].status = "absent" THEN idem
             ELSE [idem EXCEPT ![KeyOf(s)] = Done(call[s].body)]
  /\ EndRow(KeyOf(s))
  /\ Reply(s, Ok(call[s].unit, db[call[s].unit]))
  /\ UNCHANGED <<db, late, opened>>
Settle(s) ==
  /\ stage[s] = "settle"
  /\ idem' = IF idem[KeyOf(s)].status = "absent" THEN idem
             ELSE [idem EXCEPT ![KeyOf(s)] = Done(db[call[s].unit])]
  /\ EndRow(KeyOf(s))
  /\ Reply(s, Ok(call[s].unit, db[call[s].unit]))
  /\ UNCHANGED <<db, late, opened>>

\* SetDone failed and the handler ignores it.
SettleFails(s) ==
  /\ "settle" \in Faults
  /\ stage[s] = "settle"
  /\ LeaveBehind({s})
  /\ Abandon({s})
  /\ Reply(s, Ok(call[s].unit, db[call[s].unit]))
  /\ UNCHANGED <<idem, db, opened>>

\* Delete removes the row of the key, whoever inserted it.
UndoNothing(s) ==
  /\ stage[s] = "undo"
  /\ Reply(s, Says("failed"))
  /\ UNCHANGED <<idem, db, late, histories>>
Undo(s) ==
  /\ stage[s] = "undo"
  /\ idem' = [idem EXCEPT ![KeyOf(s)] = Absent]
  /\ EndRow(KeyOf(s))
  /\ Reply(s, Says("failed"))
  /\ UNCHANGED <<db, late, opened>>

\* Delete failed and the handler ignores it.
UndoFails(s) ==
  /\ "undo" \in Faults
  /\ stage[s] = "undo"
  /\ LeaveBehind({s})
  /\ Abandon({s})
  /\ Reply(s, Says("failed"))
  /\ UNCHANGED <<idem, db, opened>>

\* The answer leaves the server, read by the client or lost.
Deliver(s) ==
  /\ stage[s] = "answered"
  /\ stage' = [stage EXCEPT ![s] = "idle"]
  /\ answer' = [answer EXCEPT ![s] = NoAnswer]
  /\ UNCHANGED <<call, rpc, idem, db, late, histories>>

\* The requests of S are gone, with what they held in memory.
Vanish(S) ==
  /\ LeaveBehind(S)
  /\ Abandon(S)
  /\ stage' = [s \in Slot |-> IF s \in S THEN "idle" ELSE stage[s]]
  /\ call' = [s \in Slot |-> IF s \in S THEN None ELSE call[s]]
  /\ rpc' = [s \in Slot |-> IF s \in S THEN "none" ELSE rpc[s]]
  /\ answer' = [s \in Slot |-> IF s \in S THEN NoAnswer ELSE answer[s]]
  /\ UNCHANGED <<idem, db, opened>>

\* The server notices that the client of s is gone and cancels r.Context(),
\* which every call of the handler carries: the call under way fails, so do,
\* before they are sent, all that would follow it (the RPC after an insert,
\* the delete after an RPC), and the answer has no reader.
Disconnect(s) ==
  /\ "disconnect" \in Faults
  /\ stage[s] \notin {"idle", "answered"}
  /\ Vanish({s})

\* The process dies: every open request is gone, the tables stay.
Crash ==
  /\ "crash" \in Faults
  /\ \E s \in Slot : stage[s] # "idle"
  /\ Vanish(Slot)

-----------------------------------------------------------------------------
Handle(s) == \/ CreateRow(s) \/ CreateConflict(s)
             \/ Replay(s) \/ Conflict(s)
             \/ PushSucceeds(s)
             \/ Settle(s) \/ Undo(s)

Fail(s) == \/ CreateFails(s) \/ GetFails(s) \/ PushFails(s)
           \/ SettleFails(s) \/ UndoFails(s)

Database == \/ \E s \in Slot : RunRPC(s)
            \/ \E c \in late : \/ RunLateInsert(c) \/ RunLateRPC(c)
                             \/ RunLateSettle(c) \/ RunLateDelete(c)

Request(s) ==
  \/ \E u \in Unit, b \in Body, k \in BOOLEAN : Receive(s, u, b, k)
  \/ \E st \in {"limited", "failed"} : TurnAway(s, st)

Next == \/ \E s \in Slot : \/ Request(s) \/ Handle(s) \/ Deliver(s)
                          \/ Fail(s) \/ Disconnect(s)
        \/ Database
        \/ Crash

Spec == ServerInit /\ [][Next]_serverVars

-----------------------------------------------------------------------------
\* A request answered "ok" (push.go:127-129, or replayed at :88-93) names
\* what the database stores for its own unit, whatever failed, timed out or
\* was replayed on the way.
AckedIsStored ==
  \A s \in Slot : answer[s].status = "ok" =>
    /\ answer[s].response # None
    /\ answer[s].response = db[answer[s].unit]

\* A row marked done (push.go:124) can be replayed for ever: its response is
\* what the database stores for the unit of that key.
DoneIsStored ==
  \A u \in Unit : idem[IdemKey(u)].status = "done" =>
    /\ db[u] # None
    /\ idem[IdemKey(u)].response = db[u]

\* The key is a lock as long as the idempotency store answers: two requests
\* hold the same key (push.go:69-98) only after one of them failed open on it,
\* or a delete somebody gave up on (:112) removed a row it no longer meant.
KeyExclusive ==
  \A s, t \in Slot :
    (Holds(s) /\ Holds(t) /\ s # t /\ KeyOf(s) = KeyOf(t)) => KeyOf(s) \in opened

\* The server stores a unit once and answers with it: PushOnce, with an
\* "ok" that has not left the server as the abstract answer.
Told == [s \in Slot |-> IF answer[s].status = "ok"
                        THEN <<answer[s].unit, answer[s].response>> ELSE None]
Once == INSTANCE PushOnce WITH Caller <- Slot, stored <- db, answered <- Told
StoresOnce == Once!OnceSpec

\* contracts/push.schema.json:55: the server must "return the existing commit
\* on retries".  A retry that finds its unit stored and no other request
\* working on it (push.go:94-96) is never answered 409.
RetryReturnsCommit ==
  [][\A s \in Slot :
       (stage[s] = "get" /\ answer'[s].status = "conflict") =>
         \/ db[call[s].unit] = None
         \/ \E t \in Slot \ {s} : Holds(t) /\ KeyOf(t) = KeyOf(s)]_serverVars
=============================================================================

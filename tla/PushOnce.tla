------------------------------ MODULE PushOnce ------------------------------
(***************************************************************************)
(* What POST /push promises, whatever happens between the CLI, the server, *)
(* the idempotency table and the database.  A unit is one project's share  *)
(* of one commit, the (user, project, client_id) triple of                 *)
(* contracts/push.schema.json.  A unit is stored at most once and never    *)
(* changes afterwards; a caller told "ok" is told what is stored.          *)
(* PushServer implements this specification.                               *)
(***************************************************************************)
CONSTANTS Caller,  \* the requests that can be open at the same time
          Unit,    \* the units that can be pushed
          Body,    \* the encrypted file sets a unit can carry
          None     \* neither a body nor an answer

VARIABLES stored,   \* stored[u] is the body kept for unit u, or None
          answered  \* answered[c] is the <<unit, body>> c was told, or None

onceVars == <<stored, answered>>

OnceInit == /\ stored = [u \in Unit |-> None]
            /\ answered = [c \in Caller |-> None]

\* The first body to arrive for a unit is kept; later ones change nothing.
Store(u, b) == /\ stored[u] = None
               /\ stored' = [stored EXCEPT ![u] = b]
               /\ UNCHANGED answered

\* A caller is told the body kept for the unit it pushed.
Tell(c, u) == /\ answered[c] = None
              /\ stored[u] # None
              /\ answered' = [answered EXCEPT ![c] = <<u, stored[u]>>]
              /\ UNCHANGED stored

\* Callers read, or lose, their answers.
Forget(C) == /\ answered' = [c \in Caller |-> IF c \in C THEN None ELSE answered[c]]
             /\ UNCHANGED stored

OnceNext == \/ \E u \in Unit, b \in Body : Store(u, b)
            \/ \E c \in Caller, u \in Unit : Tell(c, u)
            \/ \E C \in SUBSET Caller : Forget(C)

OnceSpec == OnceInit /\ [][OnceNext]_onceVars
=============================================================================

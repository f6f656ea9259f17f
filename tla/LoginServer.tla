--------------------------- MODULE LoginServer ----------------------------
(***************************************************************************)
(* `sentra login` waits for the browser (cli/login.go:105-222): an HTTP    *)
(* server on the loopback interface takes the code from a callback, any    *)
(* number of callbacks may come at once, each handled by a goroutine, and  *)
(* the command waits for a code, an error or the end of two minutes.       *)
(***************************************************************************)
CONSTANTS Callback, \* the requests to /callback
          Code,     \* authorization codes
          NoCode    \* a callback without a code, an empty channel

ASSUME LoginAssumption == NoCode \notin Code \cup Callback

\* A callback carries a state, right or wrong, and a code or an error.
Request == [right : BOOLEAN, code : Code \cup {NoCode}]
Failure == {"state", "oauth", "serve"}

VARIABLES waiting,   \* where the command is
          listening, \* does the server take connections?
          codeCh,    \* channels of capacity 1
          errCh,
          cbOnce,    \* sync.Once: is it done?
          handler,   \* handler[c]: where the goroutine of callback c is
          request,
          authCode,  \* the code the command goes on with
          first      \* history: the callback that did cbOnce

loginVars == <<waiting, listening, codeCh, errCh, cbOnce, handler, request, authCode, first>>

LoginTypeOK ==
  /\ waiting \in {"select", "gotCode", "gotError", "exchange", "session", "failed"}
  /\ listening \in BOOLEAN
  /\ codeCh \in Code \cup {NoCode}
  /\ errCh \in Failure \cup {NoCode}
  /\ cbOnce \in BOOLEAN
  /\ handler \in [Callback -> {"none", "state", "accepted", "close", "done"}]
  /\ request \in [Callback -> Request \cup {NoCode}]
  /\ \A c \in Callback : handler[c] # "none" => request[c] \in Request
  /\ authCode \in Code \cup {NoCode}
  /\ first \in Callback \cup {NoCode}
  /\ waiting \in {"exchange", "session"} => authCode # NoCode

LoginInit == /\ waiting = "select"
             /\ listening = TRUE
             /\ codeCh = NoCode
             /\ errCh = NoCode
             /\ cbOnce = FALSE
             /\ handler = [c \in Callback |-> "none"]
             /\ request = [c \in Callback |-> NoCode]
             /\ authCode = NoCode
             /\ first = NoCode

-----------------------------------------------------------------------------
(* The handler.                                                             *)
Goes(c, t) == handler' = [handler EXCEPT ![c] = t]

Arrive(c) ==
  /\ listening
  /\ handler[c] = "none"
  /\ Goes(c, "state")
  /\ \E r \in Request : request' = [request EXCEPT ![c] = r]
  /\ UNCHANGED <<waiting, listening, codeCh, errCh, cbOnce, authCode, first>>

\* A send on errCh that does not wait: a second error is dropped.
\* Mutant: one that waits for the channel to be free.
SendBlocks(e) == errCh = NoCode /\ errCh' = e
Send(e) == errCh' = IF errCh = NoCode THEN e ELSE errCh

BadState(c) ==
  /\ handler[c] = "state"
  /\ ~request[c].right
  /\ Send("state")
  /\ Goes(c, "done")
  /\ UNCHANGED <<waiting, listening, codeCh, cbOnce, request, authCode, first>>

Fresh(c) == handler[c] = "state" /\ request[c].right

\* The first callback with the right state does cbOnce ...
\* Mutant: every callback with the right state is handled.
AcceptAny(c) ==
  /\ Fresh(c)
  /\ cbOnce' = TRUE
  /\ first' = IF first = NoCode THEN c ELSE first
  /\ Goes(c, "accepted")
  /\ UNCHANGED <<waiting, listening, codeCh, errCh, request, authCode>>
Accept(c) ==
  /\ Fresh(c)
  /\ ~cbOnce
  /\ cbOnce' = TRUE
  /\ first' = c
  /\ Goes(c, "accepted")
  /\ UNCHANGED <<waiting, listening, codeCh, errCh, request, authCode>>

\* ... and the others are answered 409.
Conflict(c) ==
  /\ Fresh(c)
  /\ cbOnce
  /\ Goes(c, "done")
  /\ UNCHANGED <<waiting, listening, codeCh, errCh, cbOnce, request, authCode, first>>

OAuthError(c) ==
  /\ handler[c] = "accepted"
  /\ request[c].code = NoCode
  /\ Send("oauth")
  /\ Goes(c, "done")
  /\ UNCHANGED <<waiting, listening, codeCh, cbOnce, request, authCode, first>>

GotCode(c) ==
  /\ handler[c] = "accepted"
  /\ request[c].code # NoCode
  /\ codeCh' = IF codeCh = NoCode THEN request[c].code ELSE codeCh
  /\ Goes(c, "close")
  /\ UNCHANGED <<waiting, listening, errCh, cbOnce, request, authCode, first>>

\* The goroutine of the handler that shuts the server down.
CloseListener(c) ==
  /\ handler[c] = "close"
  /\ listening' = FALSE
  /\ Goes(c, "done")
  /\ UNCHANGED <<waiting, codeCh, errCh, cbOnce, request, authCode, first>>

ServeFails ==
  /\ listening
  /\ listening' = FALSE
  /\ Send("serve")
  /\ UNCHANGED <<waiting, codeCh, cbOnce, handler, request, authCode, first>>

-----------------------------------------------------------------------------
(* The command: select, and Shutdown, which waits for the handlers.         *)
TakeCode ==
  /\ waiting = "select"
  /\ codeCh # NoCode
  /\ authCode' = codeCh
  /\ codeCh' = NoCode
  /\ waiting' = "gotCode"
  /\ listening' = FALSE
  /\ UNCHANGED <<errCh, cbOnce, handler, request, first>>

TakeError ==
  /\ waiting = "select"
  /\ errCh # NoCode
  /\ errCh' = NoCode
  /\ waiting' = "gotError"
  /\ listening' = FALSE
  /\ UNCHANGED <<codeCh, cbOnce, handler, request, authCode, first>>

TimedOut ==
  /\ waiting = "select"
  /\ waiting' = "gotError"
  /\ listening' = FALSE
  /\ UNCHANGED <<codeCh, errCh, cbOnce, handler, request, authCode, first>>

Shutdown ==
  /\ waiting \in {"gotCode", "gotError"}
  /\ \A c \in Callback : handler[c] \notin {"state", "accepted"}
  /\ waiting' = IF waiting = "gotCode" THEN "exchange" ELSE "failed"
  /\ UNCHANGED <<listening, codeCh, errCh, cbOnce, handler, request, authCode, first>>

\* ExchangePKCE
ExchangePKCE ==
  /\ waiting = "exchange"
  /\ waiting' \in {"session", "failed"}
  /\ UNCHANGED <<listening, codeCh, errCh, cbOnce, handler, request, authCode, first>>

Handle(c) == \/ BadState(c) \/ Accept(c) \/ Conflict(c)
             \/ OAuthError(c) \/ GotCode(c) \/ CloseListener(c)
Main == TakeCode \/ TakeError \/ TimedOut \/ Shutdown \/ ExchangePKCE
LoginNext == (\E c \in Callback : Arrive(c) \/ Handle(c)) \/ ServeFails \/ Main

LoginSpec == LoginInit /\ [][LoginNext]_loginVars

-----------------------------------------------------------------------------
\* The command exchanges the code of the first callback that had the right
\* state, and when that one had none it exchanges nothing (login.go:120-128).
AcceptsFirst ==
  authCode # NoCode => first # NoCode /\ authCode = request[first].code

\* A login ends, whatever number of callbacks comes (login.go:112, :146, :184).
LoginEnds == <>(waiting \in {"session", "failed"})
=============================================================================

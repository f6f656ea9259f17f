---------------------------- MODULE RequestGate ----------------------------
(***************************************************************************)
(* What stands between the network and the push handler: the access token  *)
(* (auth/middleware.go, auth/jwks_verifier.go), the token bucket of the    *)
(* user (httpapi/rate_limit.go) and the signature of the machine           *)
(* (httpapi/device_sig_middleware.go, auth/device_binding.go), in this     *)
(* order (httpapi/router.go).  Each keeps its state in the memory of the   *)
(* server and reads the clock.                                             *)
(*                                                                         *)
(* Time passes while nobody is between two statements: only a request that *)
(* waits for the key set of the issuer waits.                              *)
(***************************************************************************)
EXTENDS Integers, FiniteSetsExt

CONSTANTS Slot,      \* goroutines of the server
          Message,   \* signed requests of one user's machine, each with a nonce
          Kid,       \* key IDs of the token issuer
          None,
          Throttle,  \* 30 s between two fetches of the key set
          FetchTime, \* 10 s timeout of a fetch
          Early,     \* 30 s a timestamp may lie in the future
          Window,    \* 5 min it may lie in the past
          TTL,       \* 10 min a nonce is remembered
          Token,     \* credits of one token: a bucket counts fractions of it
          Rate,      \* credits a bucket gains per unit of time
          Burst,     \* credits of a full bucket
          Idle,      \* 30 min after which an unused bucket is dropped
          MaxTime    \* bound of the clock

\* The nonce outlives the timestamp, as the constants of the code have it, and a
\* bucket can hold a token, which SENTRA_PUSH_BURST decides (default 60).  Any
\* SENTRA_PUSH_RPM is allowed: a bucket need not be full when it is dropped.
ASSUME GateAssumption ==
  /\ Throttle \in Nat \ {0}
  /\ {FetchTime, Early, Window, TTL, Idle, MaxTime} \subseteq Nat
  /\ {Token, Rate, Burst} \subseteq Nat \ {0}
  /\ None \notin Int \cup Kid \cup Message \cup [ts : Int, kid : Kid] \cup [tokens : Int, last : Int]
  /\ TTL > Early + Window
  /\ Burst >= Token

VARIABLES clock,
          published, \* published[k]: since when the issuer publishes key k, or None
          keys,      \* JWKSVerifier.keys
          lastFetch, \* JWKSVerifier.lastFetch
          bucket,    \* the user's bucket, None if there is none
          nonces,    \* nonces[m]: until when recentNonces remembers m's nonce
          sent,      \* sent[m]: timestamp and key of the token of m, None before
          at,        \* at[h]: where goroutine h is
          msg,       \* msg[h]: the request it handles
          since,     \* since[h]: when it began to fetch the key set
          got,       \* got[h]: the key set it was sent
          served,    \* history: served[m]: times m reached the handler since the start
          wait,      \* history: when the last refusal said a token is there, or None
          taken      \* history: taken[t]: tokens taken by time t since the start

issuerVars == <<published, sent>>
verifierVars == <<keys, lastFetch>>
fetchVars == <<since, got>>
limitVars == <<bucket, wait, taken>>
nonceVars == <<nonces, served>>
vars == <<clock, issuerVars, verifierVars, at, msg, fetchVars, limitVars, nonceVars>>

Time == 0..MaxTime
Keyset == {k \in Kid : published[k] # None}

GateTypeOK ==
  /\ clock \in Time
  /\ published \in [Kid -> Time \cup {None}]
  /\ keys \subseteq Kid
  /\ lastFetch \in Time \cup {None}
  /\ bucket = None \/ bucket \in [tokens : 0..Burst, last : Time]
  /\ nonces \in [Message -> Nat \cup {None}]
  /\ sent \in [Message -> [ts : Int, kid : Kid] \cup {None}]
  /\ at \in [Slot -> {"idle", "parse", "refresh", "fetch", "apply", "reparse",
                      "limit", "verify", "mark"}]
  /\ msg \in [Slot -> Message \cup {None}]
  /\ since \in [Slot -> Time \cup {None}]
  /\ got \in [Slot -> SUBSET Kid]
  /\ served \in [Message -> Nat]
  /\ wait \in Nat \cup {None}
  /\ taken \in [Time -> Nat]
  /\ \A h \in Slot : at[h] # "idle" => msg[h] # None /\ sent[msg[h]] # None

Init == /\ clock = 0
        /\ \E k \in Kid : published = [j \in Kid |-> IF j = k THEN 0 ELSE None]
        /\ keys = {}
        /\ lastFetch = None
        /\ bucket = None
        /\ nonces = [m \in Message |-> None]
        /\ sent = [m \in Message |-> None]
        /\ at = [h \in Slot |-> "idle"]
        /\ msg = [h \in Slot |-> None]
        /\ since = [h \in Slot |-> None]
        /\ got = [h \in Slot |-> {}]
        /\ served = [m \in Message |-> 0]
        /\ wait = None
        /\ taken = [t \in Time |-> 0]

-----------------------------------------------------------------------------
Go(h, s) == at' = [at EXCEPT ![h] = s]

\* The request is answered, with a refusal or by the handler.
Answer(h) == Go(h, "idle") /\ msg' = [msg EXCEPT ![h] = None]

\* The CLI signs a request, by its own clock, with a token of the issuer.
Send(m) ==
  /\ sent[m] = None
  /\ \E t \in (clock - Window)..(clock + Early + 1), k \in Keyset :
       sent' = [sent EXCEPT ![m] = [ts |-> t, kid |-> k]]
  /\ UNCHANGED <<clock, published, verifierVars, at, msg, fetchVars, limitVars, nonceVars>>

\* A request arrives, perhaps not for the first time.
Arrive(h, m) ==
  /\ at[h] = "idle"
  /\ sent[m] # None
  /\ Go(h, "parse")
  /\ msg' = [msg EXCEPT ![h] = m]
  /\ UNCHANGED <<clock, issuerVars, verifierVars, fetchVars, limitVars, nonceVars>>

-----------------------------------------------------------------------------
(* Verify: the token is checked with the keys at hand, then once more.      *)
Known(h) == sent[msg[h]].kid \in keys

Parse(h) ==
  /\ at[h] = "parse"
  /\ Go(h, IF Known(h) THEN "limit" ELSE "refresh")
  /\ UNCHANGED <<clock, issuerVars, verifierVars, msg, fetchVars, limitVars, nonceVars>>

Throttled == lastFetch # None /\ clock - lastFetch < Throttle

\* refresh asks the issuer, unless the key set was fetched lately.
StartRefresh(h) ==
  /\ at[h] = "refresh"
  /\ IF Throttled
       THEN Go(h, "reparse") /\ UNCHANGED since
       ELSE Go(h, "fetch") /\ since' = [since EXCEPT ![h] = clock]
  /\ UNCHANGED <<clock, issuerVars, verifierVars, msg, got, limitVars, nonceVars>>

Fetched(h) ==
  /\ at[h] = "fetch"
  /\ Go(h, "apply")
  /\ got' = [got EXCEPT ![h] = Keyset]
  /\ UNCHANGED <<clock, issuerVars, verifierVars, msg, since, limitVars, nonceVars>>

\* No answer, or an error.
FetchFailsQuietly(h) ==
  /\ at[h] = "fetch"
  /\ Go(h, "reparse")
  /\ lastFetch' = clock
  /\ since' = [since EXCEPT ![h] = None]
  /\ UNCHANGED <<clock, issuerVars, keys, msg, got, limitVars, nonceVars>>
FetchFails(h) ==
  /\ at[h] = "fetch"
  /\ Answer(h)
  /\ since' = [since EXCEPT ![h] = None]
  /\ UNCHANGED <<clock, issuerVars, verifierVars, got, limitVars, nonceVars>>

\* The answer replaces the keys, whatever replaced them meanwhile.
Apply(h) ==
  /\ at[h] = "apply"
  /\ keys' = got[h]
  /\ lastFetch' = clock
  /\ Go(h, "reparse")
  /\ since' = [since EXCEPT ![h] = None]
  /\ got' = [got EXCEPT ![h] = {}]
  /\ UNCHANGED <<clock, issuerVars, msg, limitVars, nonceVars>>

Reparse(h) ==
  /\ at[h] = "reparse"
  /\ IF Known(h) THEN Go(h, "limit") /\ UNCHANGED msg ELSE Answer(h)
  /\ UNCHANGED <<clock, issuerVars, verifierVars, fetchVars, limitVars, nonceVars>>

-----------------------------------------------------------------------------
(* take: the bucket of the user, refilled up to now.                        *)
DroppedUnused == bucket = None \/ clock # bucket.last
Dropped == bucket = None \/ clock - bucket.last > Idle
Credits == IF Dropped THEN Burst
           ELSE Min({Burst, bucket.tokens + (clock - bucket.last) * Rate})

\* The whole units of time until the missing credits are there.
RetryAfterFloor == (Token - Credits) \div Rate
RetryAfter == (Token - Credits + Rate - 1) \div Rate

TakenOneMore == [t \in Time |-> IF t < clock THEN taken[t] ELSE taken[t] + 1]

AdmitFraction(h) ==
  /\ at[h] = "limit"
  /\ Credits > 0
  /\ bucket' = [tokens |-> Credits - Token, last |-> clock]
  /\ wait' = None
  /\ taken' = TakenOneMore
  /\ Go(h, "verify")
  /\ UNCHANGED <<clock, issuerVars, verifierVars, msg, fetchVars, nonceVars>>
Admit(h) ==
  /\ at[h] = "limit"
  /\ Credits >= Token
  /\ bucket' = [tokens |-> Credits - Token, last |-> clock]
  /\ wait' = None
  /\ taken' = TakenOneMore
  /\ Go(h, "verify")
  /\ UNCHANGED <<clock, issuerVars, verifierVars, msg, fetchVars, nonceVars>>

\* 429 with Retry-After: no token is taken.
Limit(h) ==
  /\ at[h] = "limit"
  /\ Credits < Token
  /\ bucket' = [tokens |-> Credits, last |-> clock]
  /\ wait' = clock + RetryAfter
  /\ Answer(h)
  /\ UNCHANGED <<taken, clock, issuerVars, verifierVars, fetchVars, nonceVars>>

-----------------------------------------------------------------------------
(* requireDeviceSignature: the timestamp is in its window ...               *)
TimelyOrEarly(m) == clock <= sent[m].ts + Window
Timely(m) == sent[m].ts - Early <= clock /\ clock <= sent[m].ts + Window

VerifySignature(h) ==
  /\ at[h] = "verify"
  /\ IF Timely(msg[h]) THEN Go(h, "mark") /\ UNCHANGED msg ELSE Answer(h)
  /\ UNCHANGED <<clock, issuerVars, verifierVars, fetchVars, limitVars, nonceVars>>

(* ... and seenOrMark has not seen the nonce.                               *)
Cleaned == [m \in Message |-> IF nonces[m] # None /\ clock > nonces[m] THEN None ELSE nonces[m]]
Seen(m) == Cleaned[m] # None /\ clock < Cleaned[m]

Serve(h) ==
  /\ at[h] = "mark"
  /\ ~Seen(msg[h])
  /\ nonces' = [Cleaned EXCEPT ![msg[h]] = clock + TTL]
  /\ served' = [served EXCEPT ![msg[h]] = @ + 1]
  /\ Answer(h)
  /\ UNCHANGED <<clock, issuerVars, verifierVars, fetchVars, limitVars>>

Repeated(h) ==
  /\ at[h] = "mark"
  /\ Seen(msg[h])
  /\ nonces' = Cleaned
  /\ Answer(h)
  /\ UNCHANGED <<clock, issuerVars, verifierVars, fetchVars, limitVars, served>>

-----------------------------------------------------------------------------
\* The issuer publishes or withdraws a key.
Rotate(k) ==
  /\ Keyset # {k}
  /\ published' = [published EXCEPT ![k] = IF @ = None THEN clock ELSE None]
  /\ UNCHANGED <<clock, sent, verifierVars, at, msg, fetchVars, limitVars, nonceVars>>

Tick ==
  /\ clock < MaxTime
  /\ \A h \in Slot : \/ at[h] = "idle"
                     \/ at[h] \in {"fetch", "apply"} /\ clock < since[h] + FetchTime
  /\ clock' = clock + 1
  /\ UNCHANGED <<issuerVars, verifierVars, at, msg, fetchVars, limitVars, nonceVars>>

\* The server starts again with nothing in memory.
Restart ==
  /\ keys' = {}
  /\ lastFetch' = None
  /\ bucket' = None
  /\ nonces' = [m \in Message |-> None]
  /\ at' = [h \in Slot |-> "idle"]
  /\ msg' = [h \in Slot |-> None]
  /\ since' = [h \in Slot |-> None]
  /\ got' = [h \in Slot |-> {}]
  /\ served' = [m \in Message |-> 0]
  /\ wait' = None
  /\ taken' = [t \in Time |-> 0]
  /\ UNCHANGED <<clock, issuerVars>>

Verify(h) == Parse(h) \/ StartRefresh(h) \/ Fetched(h) \/ FetchFails(h) \/ Apply(h) \/ Reparse(h)

Next == \/ \E m \in Message : Send(m)
        \/ \E h \in Slot, m \in Message : Arrive(h, m)
        \/ \E h \in Slot : \/ Verify(h)
                           \/ Admit(h) \/ Limit(h)
                           \/ VerifySignature(h) \/ Serve(h) \/ Repeated(h)
        \/ \E k \in Kid : Rotate(k)
        \/ Tick
        \/ Restart

Spec == Init /\ [][Next]_vars

-----------------------------------------------------------------------------
\* A token whose key the issuer has published long enough is not refused
\* (jwks_verifier.go:80-121): however two fetches cross, the throttle never
\* keeps an older key set for longer than one throttle and one fetch.
KnownInTime ==
  \A h \in Slot : at[h] = "reparse" =>
    LET k == sent[msg[h]].kid
    IN published[k] # None /\ clock - published[k] >= Throttle + FetchTime => k \in keys

\* A request that arrives twice is served once, as long as the server lives
\* (device_sig_middleware.go:121-127).
ServedOnce == \A m \in Message : served[m] <= 1

\* A client that waits as long as Retry-After says is admitted, if nobody took
\* the token before it (rate_limit.go:58-63).
RetryAfterHolds == wait # None /\ clock >= wait => Credits >= Token

\* Over any span of time the user gets no more than a full bucket, what it gains
\* meanwhile, and Gift for every Idle + 1 of it: a bucket that was idle so long
\* is dropped and made anew, full (rate_limit.go:34-52), which is more than it
\* would have gained when the rate is low (rate_limit.go:107-120).
Gift == IF Burst > Rate * (Idle + 1) THEN Burst - Rate * (Idle + 1) ELSE 0
Taken(a, b) == taken[b] - IF a = 0 THEN 0 ELSE taken[a - 1]
Within(credits, span) ==
  \E n \in 0..span : /\ n * (Idle + 1) <= span
                     /\ credits <= Burst + Rate * span + n * Gift
BoundedRate ==
  \A a \in 0..clock : \A b \in a..clock : Within(Token * Taken(a, b), b - a)
=============================================================================

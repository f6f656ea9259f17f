-------------------------- MODULE RequestGateProofs --------------------------
(***************************************************************************)
(* Proofs about RequestGate for any number of goroutines, requests and     *)
(* keys and any spans of time that satisfy GateAssumption.                 *)
(*                                                                         *)
(* ServedOnce needs Remembered: a request that was served has its nonce in *)
(* memory until after its timestamp has run out.  KnownInTime needs        *)
(* KeysFresh: the key set at hand is no older than one fetch at the time   *)
(* it was put there, and what a fetch brought (GotFresh) is no older than  *)
(* the fetch.  RetryAfterHolds needs Promised: the credits missing at a    *)
(* refusal are there when it said.  BoundedRate needs Accounted: when the  *)
(* bucket was last used, what the user had taken since any time and what   *)
(* was left in the bucket were together within the bound of that span.  A  *)
(* drop adds at most Gift to what Idle + 1 units of time bring.            *)
(***************************************************************************)
EXTENDS RequestGate, TLAPS

\* The server's past does not lie in the future, and a fetch takes its time at most.
Clocked ==
  /\ lastFetch # None => lastFetch <= clock
  /\ bucket # None => bucket.last <= clock
  /\ \A k \in Kid : published[k] # None => published[k] <= clock
  /\ \A h \in Slot : at[h] \in {"fetch", "apply"} =>
       since[h] \in Time /\ since[h] <= clock /\ clock <= since[h] + FetchTime

Timed == \A h \in Slot : at[h] = "mark" => Timely(msg[h])

Remembered ==
  \A m \in Message : /\ served[m] <= 1
                     /\ served[m] > 0 =>
                          /\ sent[m] # None
                          /\ \/ nonces[m] # None /\ nonces[m] > sent[m].ts + Window
                             \/ clock > sent[m].ts + Window

GotFresh ==
  \A h \in Slot : at[h] = "apply" =>
    \A k \in Kid : published[k] # None /\ published[k] < since[h] => k \in got[h]

KeysFresh ==
  /\ lastFetch # None =>
       \A k \in Kid : published[k] # None /\ published[k] + FetchTime < lastFetch => k \in keys
  /\ \A h \in Slot : at[h] = "reparse" => lastFetch # None /\ clock - lastFetch < Throttle

Promised ==
  wait # None => /\ bucket # None
                 /\ bucket.tokens + (wait - bucket.last) * Rate >= Token

GateInv == GateTypeOK /\ Clocked /\ Timed /\ Remembered /\ GotFresh /\ KeysFresh /\ Promised

\* GateAssumption, one constant at a time.
LEMMA Spans ==
  /\ Throttle \in Nat /\ Throttle > 0
  /\ FetchTime \in Nat /\ Early \in Nat /\ Window \in Nat /\ TTL \in Nat
  /\ Idle \in Nat /\ MaxTime \in Nat
  /\ Token \in Nat /\ Rate \in Nat /\ Burst \in Nat /\ Token > 0 /\ Rate > 0 /\ Burst > 0
  /\ TTL > Early + Window /\ Burst >= Token
  /\ \A x \in Int : None # x
  /\ None \notin Kid /\ None \notin Message
  /\ None \notin [ts : Int, kid : Kid] /\ None \notin [tokens : Int, last : Int]
BY GateAssumption

\* The types of the clock and of what is compared with it.
LEMMA Times ==
  ASSUME GateTypeOK
  PROVE  /\ clock \in Nat /\ clock <= MaxTime
         /\ lastFetch # None => lastFetch \in Nat
         /\ bucket # None => bucket.tokens \in Nat /\ bucket.last \in Nat
         /\ wait # None => wait \in Nat
         /\ \A k \in Kid : published[k] # None => published[k] \in Nat
         /\ \A h \in Slot : since[h] # None => since[h] \in Nat
         /\ \A m \in Message : /\ sent[m] # None => sent[m].ts \in Int /\ sent[m].kid \in Kid
                               /\ nonces[m] # None => nonces[m] \in Nat
BY Spans DEF GateTypeOK, Time

LEMMA InitGate == Init => GateInv
BY GateAssumption
   DEF Init, GateInv, GateTypeOK, Clocked, Timed, Remembered, GotFresh, KeysFresh, Promised, Time

-----------------------------------------------------------------------------
(* The token bucket.                                                        *)
\* The smaller of two numbers.
LEMMA MinOfTwo ==
  ASSUME NEW a \in Int, NEW b \in Int
  PROVE  Min({a, b}) = IF a <= b THEN a ELSE b
<1>1. \E x \in {a, b} : \A y \in {a, b} : x <= y OBVIOUS
<1> QED BY <1>1 DEF Min

\* A longer wait gains no fewer credits.
LEMMA MoreTime ==
  ASSUME NEW a \in Int, NEW b \in Int, a <= b, NEW r \in Nat
  PROVE  a * r <= b * r
OBVIOUS

\* A bucket holds no less than nothing and no more than Burst.
LEMMA CreditsType ==
  ASSUME GateTypeOK, Clocked
  PROVE  Credits \in 0..Burst
<1>1. CASE Dropped BY <1>1, GateAssumption DEF Credits
<1>2. CASE ~Dropped
  <2>1. /\ bucket.tokens \in 0..Burst /\ bucket.last \in Nat
        /\ clock \in Nat /\ bucket.last <= clock
    BY <1>2, GateAssumption DEF Dropped, GateTypeOK, Clocked, Time
  <2> DEFINE gain == (clock - bucket.last) * Rate
  <2>2. gain \in Nat
    <3>1. 0 * Rate <= gain BY <2>1, MoreTime, GateAssumption
    <3> QED BY <3>1, <2>1, GateAssumption
  <2>3. Credits = IF Burst <= bucket.tokens + gain THEN Burst ELSE bucket.tokens + gain
    BY <1>2, <2>1, <2>2, MinOfTwo, GateAssumption DEF Credits
  <2> QED BY <2>1, <2>2, <2>3, GateAssumption
<1> QED BY <1>1, <1>2

\* Rounded up, the wait brings the credits that are missing.
LEMMA RoundedUp ==
  ASSUME NEW n \in Nat, NEW r \in Nat \ {0}
  PROVE  /\ (n + r - 1) \div r \in Nat
         /\ ((n + r - 1) \div r) * r >= n
<1> DEFINE q == (n + r - 1) \div r
           x == (n + r - 1) % r
<1>1. n + r - 1 \in Nat OBVIOUS
<1>2. q \in Int /\ x \in 0..(r - 1) /\ n + r - 1 = r * q + x
  BY <1>1
<1>3. r * q >= n BY <1>2
<1>4. q >= 0
  BY <1>1, <1>2
<1> QED BY <1>2, <1>3, <1>4

\* A refusal promises credits for when it says.
LEMMA LimitPromises ==
  ASSUME GateTypeOK, Clocked, NEW h \in Slot, Limit(h)
  PROVE  /\ bucket' \in [tokens : 0..Burst, last : Time] /\ bucket'.last = clock
         /\ wait' \in Nat
         /\ bucket'.tokens + (wait' - bucket'.last) * Rate >= Token
<1>1. Credits \in 0..Burst /\ Credits < Token
  BY CreditsType DEF Limit
<1>2. clock \in Time /\ clock \in Nat BY GateAssumption DEF GateTypeOK, Time
<1>3. Token - Credits \in Nat BY <1>1, GateAssumption
<1>4. RetryAfter \in Nat /\ RetryAfter * Rate >= Token - Credits
  BY <1>3, RoundedUp, GateAssumption DEF RetryAfter
<1>5. wait' = clock + RetryAfter /\ bucket' = [tokens |-> Credits, last |-> clock]
  BY DEF Limit
<1>6. wait' - bucket'.last = RetryAfter BY <1>2, <1>4, <1>5
<1> QED BY <1>1, <1>2, <1>4, <1>5, <1>6, GateAssumption

\* A goroutine goes on with its request, or has answered it.
Moves(h) ==
  /\ \/ /\ at[h] # "idle"
        /\ \E s \in {"parse", "refresh", "fetch", "apply", "reparse", "limit", "verify", "mark"} : Go(h, s)
        /\ UNCHANGED msg
     \/ Answer(h)
  /\ UNCHANGED sent

LEMMA MovesType ==
  ASSUME GateTypeOK, NEW h \in Slot, Moves(h)
  PROVE  /\ at' \in [Slot -> {"idle", "parse", "refresh", "fetch", "apply", "reparse",
                              "limit", "verify", "mark"}]
         /\ msg' \in [Slot -> Message \cup {None}]
         /\ \A g \in Slot : at'[g] # "idle" => msg'[g] # None /\ sent'[msg'[g]] # None
         /\ \A g \in Slot \ {h} : at'[g] = at[g] /\ msg'[g] = msg[g]
BY DEF GateTypeOK, Moves, Go, Answer

\* A bucket that admits a request has what is left of it.
LEMMA AdmitType ==
  ASSUME GateTypeOK, Clocked, NEW h \in Slot, Admit(h)
  PROVE  bucket' \in [tokens : 0..Burst, last : Time]
<1>1. Credits \in 0..Burst /\ Credits >= Token
  BY CreditsType DEF Admit
<1>2. Credits - Token \in 0..Burst BY <1>1, GateAssumption
<1> QED BY <1>2 DEF Admit, GateTypeOK

LEMMA CleanedType ==
  ASSUME GateTypeOK
  PROVE  /\ Cleaned \in [Message -> Nat \cup {None}]
         /\ \A m \in Message : Cleaned[m] = IF nonces[m] # None /\ clock > nonces[m]
                                             THEN None ELSE nonces[m]
BY DEF Cleaned, GateTypeOK

\* A request whose time has not run out, and whose nonce is not in memory, has
\* not been served; its nonce outlives it.
LEMMA ServeOnce ==
  ASSUME GateInv, NEW h \in Slot, Serve(h)
  PROVE  Remembered'
<1> DEFINE m == msg[h]
<1>1. /\ m \in Message /\ sent[m] \in [ts : Int, kid : Kid] /\ Timely(m)
      /\ clock \in Nat /\ nonces \in [Message -> Nat \cup {None}] /\ served \in [Message -> Nat]
  <2>1. clock \in Nat BY Times DEF GateInv
  <2>2. at[h] = "mark" /\ Timely(m) BY DEF Serve, GateInv, Timed
  <2> QED BY <2>1, <2>2 DEF GateInv, GateTypeOK
<1> USE GateAssumption
<1>2. served[m] = 0
  <2> SUFFICES ASSUME served[m] > 0 PROVE FALSE
    BY <1>1
  <2>1. clock <= sent[m].ts + Window BY <1>1 DEF Timely
  <2>2. nonces[m] # None /\ nonces[m] > sent[m].ts + Window
    BY <1>1, <2>1 DEF GateInv, Remembered
  <2>3. nonces[m] \in Nat /\ sent[m].ts \in Int BY <1>1, <2>2
  <2>4. clock < nonces[m] BY <1>1, <2>1, <2>2, <2>3
  <2>5. Cleaned[m] = nonces[m] BY <1>1, <2>3, <2>4, CleanedType DEF GateInv
  <2> QED BY <2>2, <2>4, <2>5 DEF Serve, Seen
<1>3. clock + TTL > sent[m].ts + Window /\ clock + TTL # None
  <2>1. sent[m].ts \in Int /\ sent[m].ts - Early <= clock BY <1>1 DEF Timely
  <2> QED BY <1>1, <2>1
<1>4. ASSUME NEW n \in Message, n # m
      PROVE  /\ served'[n] = served[n] /\ sent' = sent /\ clock' = clock
             /\ nonces'[n] = IF nonces[n] # None /\ clock > nonces[n] THEN None ELSE nonces[n]
  BY <1>1, <1>4, CleanedType DEF Serve, GateInv, issuerVars
<1>5. ASSUME NEW n \in Message, n # m
      PROVE  /\ served'[n] <= 1
             /\ served'[n] > 0 => /\ sent'[n] # None
                                  /\ \/ nonces'[n] # None /\ nonces'[n] > sent'[n].ts + Window
                                     \/ clock' > sent'[n].ts + Window
  <2>1. /\ served[n] <= 1
        /\ served[n] > 0 => /\ sent[n] # None
                            /\ \/ nonces[n] # None /\ nonces[n] > sent[n].ts + Window
                               \/ clock > sent[n].ts + Window
    BY DEF GateInv, Remembered
  <2>2. sent[n] # None => sent[n].ts \in Int
    BY DEF GateInv, GateTypeOK
  <2>3. nonces[n] # None => nonces[n] \in Nat BY <1>1
  <2> QED BY <1>1, <1>4, <1>5, <2>1, <2>2, <2>3
<1>6. /\ served'[m] = 1 /\ sent'[m] = sent[m] /\ nonces'[m] = clock + TTL
  BY <1>1, <1>2, CleanedType DEF Serve, GateInv, issuerVars
<1> QED BY <1>1, <1>3, <1>5, <1>6 DEF Remembered

-----------------------------------------------------------------------------
(* One lemma per group of actions.                                          *)
LEMMA ArriveSteps ==
  ASSUME GateInv, (\E m \in Message : Send(m)) \/ (\E h \in Slot, m \in Message : Arrive(h, m))
  PROVE  GateInv'
<1>1. ASSUME NEW m \in Message, Send(m) PROVE GateInv'
  <2>1. PICK t \in (clock - Window)..(clock + Early + 1), k \in Keyset :
          sent' = [sent EXCEPT ![m] = [ts |-> t, kid |-> k]]
    BY <1>1 DEF Send
  <2>2. t \in Int /\ k \in Kid
    BY GateAssumption DEF GateInv, GateTypeOK, Time, Keyset
  <2>3. GateTypeOK'
    BY <1>1, <2>1, <2>2, GateAssumption
       DEF Send, GateInv, GateTypeOK, verifierVars, fetchVars, limitVars, nonceVars
  <2>4. \A h \in Slot : at[h] # "idle" => msg[h] # m
    BY <1>1 DEF Send, GateInv, GateTypeOK
  <2>5. \A n \in Message \ {m} : sent'[n] = sent[n]
    BY <2>1 DEF GateInv, GateTypeOK
  <2>6. Timed' /\ Remembered'
    BY <1>1, <2>4, <2>5
       DEF Send, GateInv, GateTypeOK, Timed, Timely, Remembered, nonceVars
  <2> QED BY <1>1, <2>3, <2>6
          DEF Send, GateInv, Clocked, GotFresh, KeysFresh, Promised,
              verifierVars, fetchVars, limitVars, nonceVars
<1>2. ASSUME NEW h \in Slot, NEW m \in Message, Arrive(h, m) PROVE GateInv'
  BY <1>2, GateAssumption
     DEF Arrive, Go, GateInv, GateTypeOK, Clocked, Timed, Timely, Remembered, GotFresh,
         KeysFresh, Promised, issuerVars, verifierVars, fetchVars, limitVars, nonceVars
<1> QED BY <1>1, <1>2

LEMMA VerifySteps ==
  ASSUME GateInv, NEW h \in Slot, Verify(h)
  PROVE  GateInv'
<1> USE Spans DEF Time, Go, Answer, issuerVars, verifierVars, fetchVars, limitVars, nonceVars
<1>1. CASE Parse(h)
  <2>1. GateTypeOK' BY <1>1 DEF Parse, GateInv, GateTypeOK
  <2>2. Clocked' BY <1>1 DEF Parse, GateInv, GateTypeOK, Clocked
  <2>3. Timed' BY <1>1 DEF Parse, GateInv, GateTypeOK, Timed, Timely
  <2>4. Remembered' BY <1>1 DEF Parse, GateInv, GateTypeOK, Remembered
  <2>5. GotFresh' BY <1>1 DEF Parse, GateInv, GateTypeOK, GotFresh
  <2>6. KeysFresh' BY <1>1 DEF Parse, GateInv, GateTypeOK, KeysFresh
  <2>7. Promised' BY <1>1 DEF Parse, GateInv, GateTypeOK, Promised
  <2> QED BY <2>1, <2>2, <2>3, <2>4, <2>5, <2>6, <2>7 DEF GateInv
<1>2. CASE StartRefresh(h)
  <2>1. GateTypeOK'
    <3>1. Moves(h) BY <1>2 DEF StartRefresh, Moves
    <3>2. since' \in [Slot -> Time \cup {None}]
      <4>1. since' = since \/ since' = [since EXCEPT ![h] = clock]
        BY <1>2 DEF StartRefresh
      <4>2. since \in [Slot -> Time \cup {None}] /\ clock \in Time
        BY DEF GateInv, GateTypeOK
      <4> QED BY <4>1, <4>2
    <3> HIDE DEF Time
    <3> QED BY <1>2, <3>1, <3>2, MovesType DEF StartRefresh, GateInv, GateTypeOK
  <2>2. Clocked'
    <3>1. clock \in Time /\ clock \in Nat /\ FetchTime \in Nat
      BY Spans, Times DEF GateInv, GateTypeOK
    <3>2. /\ UNCHANGED <<clock, published, lastFetch, bucket>>
          /\ \A g \in Slot : at'[g] \in {"fetch", "apply"} =>
               \/ at[g] \in {"fetch", "apply"} /\ since'[g] = since[g]
               \/ since'[g] = clock
      BY <1>2 DEF StartRefresh, Go, GateInv, GateTypeOK
    <3> QED BY <3>1, <3>2 DEF GateInv, Clocked
  <2>3. Timed' BY <1>2 DEF StartRefresh, Throttled, GateInv, GateTypeOK, Timed, Timely
  <2>4. Remembered' BY <1>2 DEF StartRefresh, Throttled, GateInv, GateTypeOK, Remembered
  <2>5. GotFresh'
    <3> SUFFICES ASSUME NEW g \in Slot, at'[g] = "apply", NEW k \in Kid,
                        published'[k] # None, published'[k] < since'[g]
                 PROVE  k \in got'[g]
      BY DEF GotFresh
    <3>1. g # h /\ at[g] = "apply" /\ since'[g] = since[g]
      BY <1>2 DEF StartRefresh, GateInv, GateTypeOK
    <3> QED BY <1>2, <3>1 DEF StartRefresh, GateInv, GotFresh
  <2>6. KeysFresh' BY <1>2 DEF StartRefresh, Throttled, GateInv, GateTypeOK, KeysFresh
  <2>7. Promised' BY <1>2 DEF StartRefresh, Throttled, GateInv, GateTypeOK, Promised
  <2> QED BY <2>1, <2>2, <2>3, <2>4, <2>5, <2>6, <2>7 DEF GateInv
<1>3. CASE Fetched(h)
  <2>1. GateTypeOK' BY <1>3 DEF Fetched, Keyset, GateInv, GateTypeOK
  <2>2. Clocked' BY <1>3 DEF Fetched, Keyset, GateInv, GateTypeOK, Clocked
  <2>3. Timed' BY <1>3 DEF Fetched, Keyset, GateInv, GateTypeOK, Timed, Timely
  <2>4. Remembered' BY <1>3 DEF Fetched, Keyset, GateInv, GateTypeOK, Remembered
  <2>5. GotFresh' BY <1>3 DEF Fetched, Keyset, GateInv, GateTypeOK, GotFresh
  <2>6. KeysFresh' BY <1>3 DEF Fetched, Keyset, GateInv, GateTypeOK, KeysFresh
  <2>7. Promised' BY <1>3 DEF Fetched, Keyset, GateInv, GateTypeOK, Promised
  <2> QED BY <2>1, <2>2, <2>3, <2>4, <2>5, <2>6, <2>7 DEF GateInv
<1>4. CASE FetchFails(h)
  <2>1. GateTypeOK' BY <1>4 DEF FetchFails, GateInv, GateTypeOK
  <2>2. Clocked' BY <1>4 DEF FetchFails, GateInv, GateTypeOK, Clocked
  <2>3. Timed' BY <1>4 DEF FetchFails, GateInv, GateTypeOK, Timed, Timely
  <2>4. Remembered' BY <1>4 DEF FetchFails, GateInv, GateTypeOK, Remembered
  <2>5. GotFresh' BY <1>4 DEF FetchFails, GateInv, GateTypeOK, GotFresh
  <2>6. KeysFresh' BY <1>4 DEF FetchFails, GateInv, GateTypeOK, KeysFresh
  <2>7. Promised' BY <1>4 DEF FetchFails, GateInv, GateTypeOK, Promised
  <2> QED BY <2>1, <2>2, <2>3, <2>4, <2>5, <2>6, <2>7 DEF GateInv
<1>5. CASE Apply(h)
  <2>1. GateTypeOK' BY <1>5 DEF Apply, GateInv, GateTypeOK
  <2>2. Clocked' BY <1>5 DEF Apply, GateInv, GateTypeOK, Clocked
  <2>3. Timed' BY <1>5 DEF Apply, GateInv, GateTypeOK, Timed, Timely
  <2>4. Remembered' BY <1>5 DEF Apply, GateInv, GateTypeOK, Remembered
  <2>5. GotFresh' BY <1>5 DEF Apply, GateInv, GateTypeOK, GotFresh
  <2>6. KeysFresh'
    <3>1. ASSUME NEW k \in Kid, published[k] # None, published[k] + FetchTime < clock
          PROVE  k \in got[h]
      <4>1. /\ at[h] = "apply" /\ clock <= since[h] + FetchTime
            /\ since[h] \in Nat /\ clock \in Nat /\ published[k] \in Nat
        BY <1>5, <3>1, Times DEF Apply, GateInv, Clocked
      <4>2. published[k] < since[h] BY <3>1, <4>1
      <4> QED BY <3>1, <4>1, <4>2 DEF GateInv, GotFresh
    <3>2. clock \in Nat /\ lastFetch' = clock /\ clock' = clock /\ keys' = got[h] /\ published' = published
      BY <1>5, Times DEF Apply, GateInv
    <3> QED BY <3>1, <3>2 DEF KeysFresh
  <2>7. Promised' BY <1>5 DEF Apply, GateInv, GateTypeOK, Promised
  <2> QED BY <2>1, <2>2, <2>3, <2>4, <2>5, <2>6, <2>7 DEF GateInv
<1>6. CASE Reparse(h)
  <2>1. GateTypeOK'
    <3>1. Moves(h) BY <1>6 DEF Reparse, Moves
    <3> QED BY <1>6, <3>1, MovesType DEF Reparse, GateInv, GateTypeOK
  <2>2. Clocked' BY <1>6 DEF Reparse, GateInv, GateTypeOK, Clocked
  <2>3. Timed' BY <1>6 DEF Reparse, GateInv, GateTypeOK, Timed, Timely
  <2>4. Remembered' BY <1>6 DEF Reparse, GateInv, GateTypeOK, Remembered
  <2>5. GotFresh' BY <1>6 DEF Reparse, GateInv, GateTypeOK, GotFresh
  <2>6. KeysFresh' BY <1>6 DEF Reparse, GateInv, GateTypeOK, KeysFresh
  <2>7. Promised' BY <1>6 DEF Reparse, GateInv, GateTypeOK, Promised
  <2> QED BY <2>1, <2>2, <2>3, <2>4, <2>5, <2>6, <2>7 DEF GateInv
<1> QED BY <1>1, <1>2, <1>3, <1>4, <1>5, <1>6 DEF Verify

LEMMA LimitSteps ==
  ASSUME GateInv, NEW h \in Slot, Admit(h) \/ Limit(h)
  PROVE  GateInv'
<1> USE Spans DEF Time, Go, Answer, issuerVars, verifierVars, fetchVars, limitVars, nonceVars
<1>1. CASE Admit(h)
  <2>1. GateTypeOK'
    <3>1. Moves(h) BY <1>1 DEF Admit, Moves
    <3>2. taken' \in [Time -> Nat]
      BY <1>1 DEF Admit, TakenOneMore, GateInv, GateTypeOK
    <3> HIDE DEF Time
    <3> QED BY <1>1, <3>1, <3>2, MovesType, AdmitType DEF Admit, GateInv, GateTypeOK
  <2>2. Clocked' BY <1>1 DEF Admit, GateInv, GateTypeOK, Clocked
  <2>3. Timed' BY <1>1 DEF Admit, GateInv, GateTypeOK, Timed, Timely
  <2>4. Remembered' BY <1>1 DEF Admit, GateInv, GateTypeOK, Remembered
  <2>5. GotFresh' BY <1>1 DEF Admit, GateInv, GateTypeOK, GotFresh
  <2>6. KeysFresh' BY <1>1 DEF Admit, GateInv, GateTypeOK, KeysFresh
  <2>7. Promised' BY <1>1 DEF Admit, GateInv, GateTypeOK, Promised
  <2> QED BY <2>1, <2>2, <2>3, <2>4, <2>5, <2>6, <2>7 DEF GateInv
<1>2. CASE Limit(h)
  <2>1. GateTypeOK' BY <1>2, LimitPromises DEF Limit, GateInv, GateTypeOK
  <2>2. Clocked'
    <3>1. bucket'.last = clock /\ clock \in Nat BY <1>2, LimitPromises, Times DEF GateInv
    <3> QED BY <1>2, <3>1 DEF Limit, GateInv, GateTypeOK, Clocked
  <2>3. Timed' BY <1>2 DEF Limit, GateInv, GateTypeOK, Timed, Timely
  <2>4. Remembered' BY <1>2 DEF Limit, GateInv, GateTypeOK, Remembered
  <2>5. GotFresh' BY <1>2 DEF Limit, GateInv, GateTypeOK, GotFresh
  <2>6. KeysFresh' BY <1>2 DEF Limit, GateInv, GateTypeOK, KeysFresh
  <2>7. Promised'
    <3>1. bucket'.tokens + (wait' - bucket'.last) * Rate >= Token /\ bucket' \in [tokens : 0..Burst, last : Time]
      BY <1>2, LimitPromises DEF GateInv
    <3>2. bucket' # None BY <3>1
    <3> QED BY <3>1, <3>2 DEF Promised
  <2> QED BY <2>1, <2>2, <2>3, <2>4, <2>5, <2>6, <2>7 DEF GateInv
<1> QED BY <1>1, <1>2

LEMMA SignatureSteps ==
  ASSUME GateInv, NEW h \in Slot, VerifySignature(h) \/ Serve(h) \/ Repeated(h)
  PROVE  GateInv'
<1> USE Spans DEF Time, Go, Answer, issuerVars, verifierVars, fetchVars, limitVars, nonceVars
<1>1. CASE VerifySignature(h)
  <2>1. GateTypeOK'
    <3>1. Moves(h) BY <1>1 DEF VerifySignature, Moves
    <3> QED BY <1>1, <3>1, MovesType DEF VerifySignature, GateInv, GateTypeOK
  <2>2. Clocked' BY <1>1 DEF VerifySignature, Timely, GateInv, GateTypeOK, Clocked
  <2>3. Timed'
    <3> SUFFICES ASSUME NEW g \in Slot, at'[g] = "mark" PROVE Timely(msg[g])'
      BY DEF Timed
    <3>1. CASE g = h
      BY <1>1, <3>1 DEF VerifySignature, GateInv, GateTypeOK, Timely
    <3>2. CASE g # h
      <4>1. at[g] = "mark" /\ msg'[g] = msg[g]
        BY <1>1, <3>2 DEF VerifySignature, GateInv, GateTypeOK
      <4> QED BY <1>1, <4>1 DEF VerifySignature, GateInv, Timed, Timely
    <3> QED BY <3>1, <3>2
  <2>4. Remembered' BY <1>1 DEF VerifySignature, Timely, GateInv, GateTypeOK, Remembered
  <2>5. GotFresh' BY <1>1 DEF VerifySignature, Timely, GateInv, GateTypeOK, GotFresh
  <2>6. KeysFresh' BY <1>1 DEF VerifySignature, Timely, GateInv, GateTypeOK, KeysFresh
  <2>7. Promised' BY <1>1 DEF VerifySignature, Timely, GateInv, GateTypeOK, Promised
  <2> QED BY <2>1, <2>2, <2>3, <2>4, <2>5, <2>6, <2>7 DEF GateInv
<1>2. CASE Serve(h)
  <2>1. GateTypeOK'
    <3>1. Moves(h) BY <1>2 DEF Serve, Moves
    <3>2. nonces' \in [Message -> Nat \cup {None}] /\ served' \in [Message -> Nat]
      <4>1. Cleaned \in [Message -> Nat \cup {None}] /\ clock + TTL \in Nat
        BY CleanedType, Times DEF GateInv
      <4>2. nonces' = [Cleaned EXCEPT ![msg[h]] = clock + TTL]
        BY <1>2 DEF Serve
      <4>3. served \in [Message -> Nat] /\ served' = [served EXCEPT ![msg[h]] = @ + 1]
        BY <1>2 DEF Serve, GateInv, GateTypeOK
      <4>4. nonces' \in [Message -> Nat \cup {None}] BY <4>1, <4>2
      <4>5. msg[h] \in Message
        BY <1>2 DEF Serve, GateInv, GateTypeOK
      <4>6. served[msg[h]] + 1 \in Nat BY <4>3, <4>5
      <4>7. served' \in [Message -> Nat] BY <4>3, <4>6
      <4> QED BY <4>4, <4>7
    <3> HIDE DEF Time
    <3> QED BY <1>2, <3>1, <3>2, MovesType DEF Serve, GateInv, GateTypeOK
  <2>2. Clocked' BY <1>2 DEF Serve, GateInv, GateTypeOK, Clocked
  <2>3. Timed' BY <1>2 DEF Serve, GateInv, GateTypeOK, Timed, Timely
  <2>4. Remembered' BY <1>2, ServeOnce DEF Serve, GateInv, GateTypeOK, Remembered
  <2>5. GotFresh' BY <1>2 DEF Serve, GateInv, GateTypeOK, GotFresh
  <2>6. KeysFresh' BY <1>2 DEF Serve, GateInv, GateTypeOK, KeysFresh
  <2>7. Promised' BY <1>2 DEF Serve, GateInv, GateTypeOK, Promised
  <2> QED BY <2>1, <2>2, <2>3, <2>4, <2>5, <2>6, <2>7 DEF GateInv
<1>3. CASE Repeated(h)
  <2>1. GateTypeOK' BY <1>3, CleanedType DEF Repeated, GateInv, GateTypeOK
  <2>2. Clocked' BY <1>3 DEF Repeated, GateInv, GateTypeOK, Clocked
  <2>3. Timed' BY <1>3 DEF Repeated, GateInv, GateTypeOK, Timed, Timely
  <2>4. Remembered'
    <3> SUFFICES ASSUME NEW m \in Message
                 PROVE  /\ served[m] <= 1
                        /\ served[m] > 0 => /\ sent[m] # None
                                            /\ \/ nonces'[m] # None /\ nonces'[m] > sent[m].ts + Window
                                               \/ clock > sent[m].ts + Window
      BY <1>3 DEF Repeated, Remembered
    <3>1. nonces'[m] = IF nonces[m] # None /\ clock > nonces[m] THEN None ELSE nonces[m]
      BY <1>3, CleanedType DEF Repeated, GateInv
    <3> QED BY <3>1, Times DEF GateInv, Remembered
  <2>5. GotFresh' BY <1>3 DEF Repeated, GateInv, GateTypeOK, GotFresh
  <2>6. KeysFresh' BY <1>3 DEF Repeated, GateInv, GateTypeOK, KeysFresh
  <2>7. Promised' BY <1>3 DEF Repeated, GateInv, GateTypeOK, Promised
  <2> QED BY <2>1, <2>2, <2>3, <2>4, <2>5, <2>6, <2>7 DEF GateInv
<1> QED BY <1>1, <1>2, <1>3

\* The issuer, the clock and a restart.
LEMMA OtherSteps ==
  ASSUME GateInv, (\E k \in Kid : Rotate(k)) \/ Tick \/ Restart
  PROVE  GateInv'
<1> USE Spans DEF Time, Go, Answer, issuerVars, verifierVars, fetchVars, limitVars, nonceVars
<1>1. ASSUME NEW k \in Kid, Rotate(k) PROVE GateInv'
  <2>1. GateTypeOK' BY <1>1 DEF Rotate, GateInv, GateTypeOK
  <2>2. Clocked' BY <1>1 DEF Rotate, GateInv, GateTypeOK, Clocked
  <2>3. Timed' BY <1>1 DEF Rotate, GateInv, GateTypeOK, Timed, Timely
  <2>4. Remembered' BY <1>1 DEF Rotate, GateInv, GateTypeOK, Remembered
  <2> clock \in Nat /\ \A j \in Kid : published'[j] \in {published[j], clock, None}
    BY <1>1, Times DEF Rotate, GateInv, GateTypeOK
  <2>5. GotFresh'
    <3> SUFFICES ASSUME NEW g \in Slot, at[g] = "apply", NEW j \in Kid,
                        published'[j] # None, published'[j] < since[g]
                 PROVE  j \in got[g]
      BY <1>1 DEF Rotate, GotFresh
    <3>1. since[g] \in Nat /\ since[g] <= clock BY DEF GateInv, Clocked
    <3>2. published'[j] = published[j] BY <3>1
    <3> QED BY <3>2 DEF GateInv, GotFresh
  <2>6. KeysFresh'
    <3>1. ASSUME lastFetch # None, NEW j \in Kid,
                 published'[j] # None, published'[j] + FetchTime < lastFetch
          PROVE  j \in keys
      <4>1. lastFetch \in Nat /\ lastFetch <= clock BY <3>1, Times DEF GateInv, Clocked
      <4>2. published'[j] = published[j] BY <3>1, <4>1
      <4> QED BY <3>1, <4>2 DEF GateInv, KeysFresh
    <3> QED BY <1>1, <3>1 DEF Rotate, GateInv, KeysFresh
  <2>7. Promised' BY <1>1 DEF Rotate, GateInv, GateTypeOK, Promised
  <2> QED BY <2>1, <2>2, <2>3, <2>4, <2>5, <2>6, <2>7 DEF GateInv
<1>2. CASE Tick
  <2> clock' = clock + 1 /\ clock \in Nat /\ clock' \in Time
    BY <1>2, Times DEF Tick, GateInv
  <2>1. GateTypeOK' BY <1>2 DEF Tick, GateInv, GateTypeOK
  <2>2. Clocked'
    <3>1. ASSUME NEW h \in Slot, at[h] \in {"fetch", "apply"}
          PROVE  since[h] \in Nat /\ clock < since[h] + FetchTime
      BY <1>2, <3>1 DEF Tick, GateInv, Clocked
    <3> QED BY <1>2, <3>1, Times DEF Tick, GateInv, Clocked
  <2>3. Timed' BY <1>2 DEF Tick, GateInv, GateTypeOK, Timed, Timely
  <2>4. Remembered' BY <1>2 DEF Tick, GateInv, GateTypeOK, Remembered
  <2>5. GotFresh' BY <1>2 DEF Tick, GateInv, GateTypeOK, GotFresh
  <2>6. KeysFresh' BY <1>2 DEF Tick, GateInv, GateTypeOK, KeysFresh
  <2>7. Promised' BY <1>2 DEF Tick, GateInv, GateTypeOK, Promised
  <2> QED BY <2>1, <2>2, <2>3, <2>4, <2>5, <2>6, <2>7 DEF GateInv
<1>3. CASE Restart
  <2>1. GateTypeOK' BY <1>3 DEF Restart, GateInv, GateTypeOK
  <2>2. Clocked' BY <1>3 DEF Restart, GateInv, GateTypeOK, Clocked
  <2>3. Timed' BY <1>3 DEF Restart, GateInv, GateTypeOK, Timed, Timely
  <2>4. Remembered' BY <1>3 DEF Restart, GateInv, GateTypeOK, Remembered
  <2>5. GotFresh' BY <1>3 DEF Restart, GateInv, GateTypeOK, GotFresh
  <2>6. KeysFresh' BY <1>3 DEF Restart, GateInv, GateTypeOK, KeysFresh
  <2>7. Promised' BY <1>3 DEF Restart, GateInv, GateTypeOK, Promised
  <2> QED BY <2>1, <2>2, <2>3, <2>4, <2>5, <2>6, <2>7 DEF GateInv
<1> QED BY <1>1, <1>2, <1>3

LEMMA GateInvAlways == Spec => []GateInv
<1>1. GateInv /\ Next => GateInv'
  BY ArriveSteps, VerifySteps, LimitSteps, SignatureSteps, OtherSteps DEF Next
<1>2. GateInv /\ UNCHANGED vars => GateInv'
  BY DEF GateInv, GateTypeOK, Clocked, Timed, Timely, Remembered, GotFresh, KeysFresh,
         Promised, vars, issuerVars, verifierVars, fetchVars, limitVars, nonceVars
<1> QED BY InitGate, <1>1, <1>2, PTL DEF Spec

-----------------------------------------------------------------------------
\* The state of the verifier, the bucket and the nonces has its types: a bucket
\* holds neither less than nothing nor more than Burst.
THEOREM GateTypeCorrect == Spec => []GateTypeOK
<1>1. GateInv => GateTypeOK BY DEF GateInv
<1> QED BY <1>1, GateInvAlways, PTL

\* A signed request is served once in one life of the server
\* (device_sig_middleware.go:121-127).
THEOREM ServedOnceAlways == Spec => []ServedOnce
<1>1. GateInv => ServedOnce BY DEF GateInv, Remembered, ServedOnce
<1> QED BY <1>1, GateInvAlways, PTL

\* A key published for one throttle and one fetch is known, however many
\* refreshes cross (jwks_verifier.go:80-121, 191-250).
THEOREM KnownInTimeAlways == Spec => []KnownInTime
<1>1. GateInv => KnownInTime
  <2> SUFFICES ASSUME GateInv, NEW h \in Slot, at[h] = "reparse",
                      published[sent[msg[h]].kid] # None,
                      clock - published[sent[msg[h]].kid] >= Throttle + FetchTime
               PROVE  sent[msg[h]].kid \in keys
    BY DEF KnownInTime
  <2>1. sent[msg[h]].kid \in Kid
    BY Times DEF GateInv, GateTypeOK
  <2>2. /\ lastFetch \in Nat /\ clock \in Nat /\ clock - lastFetch < Throttle
        /\ published[sent[msg[h]].kid] \in Nat
    BY <2>1, Times DEF GateInv, KeysFresh
  <2>3. published[sent[msg[h]].kid] + FetchTime < lastFetch
    BY <2>2, Spans
  <2> QED BY <2>1, <2>2, <2>3, Spans DEF GateInv, KeysFresh
<1> QED BY <1>1, GateInvAlways, PTL

\* A client that waits as long as Retry-After says finds a token, if nobody took
\* it (rate_limit.go:57-63).
THEOREM RetryAfterHoldsAlways == Spec => []RetryAfterHolds
<1>1. GateInv => RetryAfterHolds
  <2> SUFFICES ASSUME GateInv, wait # None, clock >= wait PROVE Credits >= Token
    BY DEF RetryAfterHolds
  <2>1. CASE Dropped BY <2>1, GateAssumption DEF Credits
  <2>2. CASE ~Dropped
    <3>1. /\ bucket.tokens \in Nat /\ bucket.last \in Nat /\ clock \in Nat /\ wait \in Nat
          /\ bucket.tokens + (wait - bucket.last) * Rate >= Token
      BY GateAssumption DEF GateInv, GateTypeOK, Promised, Time
    <3>2. (wait - bucket.last) * Rate <= (clock - bucket.last) * Rate
      BY <3>1, MoreTime, GateAssumption
    <3>3. bucket.tokens + (clock - bucket.last) * Rate >= Token
      BY <3>1, <3>2, GateAssumption
    <3>4. Credits = IF Burst <= bucket.tokens + (clock - bucket.last) * Rate
                      THEN Burst ELSE bucket.tokens + (clock - bucket.last) * Rate
      BY <2>2, <3>1, MinOfTwo, GateAssumption DEF Credits
    <3> QED BY <3>3, <3>4, GateAssumption
  <2> QED BY <2>1, <2>2
<1> QED BY <1>1, GateInvAlways, PTL

-----------------------------------------------------------------------------
(* The rate.  When the bucket was last used, what was taken since a and what *)
(* was left in it were together within the bound; after that nothing was     *)
(* taken.                                                                    *)
Accounted ==
  /\ bucket = None => \A t \in Time : taken[t] = 0
  /\ bucket # None =>
       /\ \A t \in Time : t >= bucket.last => taken[t] = taken[bucket.last]
       /\ \A a \in 0..bucket.last :
            Within(Token * Taken(a, bucket.last) + bucket.tokens, bucket.last - a)

RateInv == Accounted /\ BoundedRate

\* What is taken over a span is a number.
LEMMA TakenType ==
  ASSUME GateTypeOK, NEW a \in 0..clock, NEW b \in 0..clock
  PROVE  Taken(a, b) \in Int
<1>1. clock \in Nat /\ clock <= MaxTime /\ MaxTime \in Nat BY Times, Spans
<1>2. b \in Time /\ (a # 0 => a - 1 \in Time) BY <1>1 DEF Time
<1> QED BY <1>2 DEF Taken, GateTypeOK

\* A drop gives away what Idle + 1 units of time do not bring.
LEMMA GiftFills == Gift \in Nat /\ Gift >= Burst - Rate * (Idle + 1)
<1>1. Rate * (Idle + 1) \in Nat BY Spans
<1> QED BY <1>1, Spans DEF Gift

\* A longer span brings no fewer credits.
LEMMA MoreGain ==
  ASSUME NEW x \in Nat, NEW y \in Nat
  PROVE  /\ Rate * x \in Nat /\ Rate * (x + y) = Rate * x + Rate * y
         /\ Rate * x <= Rate * (x + y)
BY Spans

\* A full bucket is within the bound of any span.
LEMMA FullIsWithin ==
  ASSUME NEW span \in Nat, NEW credits \in Int, credits <= Burst
  PROVE  Within(credits, span)
<1>1. 0 \in 0..span /\ 0 * (Idle + 1) <= span BY Spans
<1>2. 0 * Gift = 0 BY GiftFills
<1>3. credits <= Burst + Rate * span + 0 * Gift BY <1>2, MoreGain, Spans
<1> QED BY <1>1, <1>3 DEF Within

\* What a span gains when it gets longer.
LEMMA GainIsWithin ==
  ASSUME NEW span \in Nat, NEW more \in Nat, NEW old \in Int, NEW new \in Int,
         Within(old, span), new <= old + Rate * more
  PROVE  Within(new, span + more)
<1>1. PICK n \in 0..span : /\ n * (Idle + 1) <= span
                           /\ old <= Burst + Rate * span + n * Gift
  BY DEF Within
<1>2. n \in 0..(span + more) BY <1>1
<1>3. n * (Idle + 1) <= span + more
  <2>1. n * (Idle + 1) \in Int BY <1>1, Spans
  <2> QED BY <1>1, <2>1
<1>4. new <= Burst + Rate * (span + more) + n * Gift
  <2>1. n * Gift \in Int BY <1>1, GiftFills
  <2>2. /\ Rate * span \in Nat /\ Rate * more \in Nat
        /\ Rate * (span + more) = Rate * span + Rate * more
    BY MoreGain
  <2> QED BY <1>1, <2>1, <2>2, Spans
<1> QED BY <1>2, <1>3, <1>4 DEF Within

\* What it gains when the bucket is dropped in the end: a full bucket, less
\* what was left in the old one.
LEMMA DropIsWithin ==
  ASSUME NEW span \in Nat, NEW more \in Nat, more > Idle,
         NEW old \in Int, NEW new \in Int, Within(old, span), new <= old + Burst
  PROVE  Within(new, span + more)
<1>1. PICK n \in 0..span : /\ n * (Idle + 1) <= span
                           /\ old <= Burst + Rate * span + n * Gift
  BY DEF Within
<1>2. n + 1 \in 0..(span + more) BY <1>1, Spans
<1>3. (n + 1) * (Idle + 1) <= span + more
  <2>1. (n + 1) * (Idle + 1) = n * (Idle + 1) + (Idle + 1) BY <1>1, Spans
  <2>2. n * (Idle + 1) \in Int BY <1>1, Spans
  <2> QED BY <1>1, <2>1, <2>2, Spans
<1>4. new <= Burst + Rate * (span + more) + (n + 1) * Gift
  <2>1. (n + 1) * Gift = n * Gift + Gift /\ n * Gift \in Int BY <1>1, GiftFills
  <2>2. /\ Rate * span \in Nat /\ Rate * more \in Nat
        /\ Rate * (span + more) = Rate * span + Rate * more
    BY MoreGain
  <2>3. Burst <= Rate * more + Gift
    <3>1. more - (Idle + 1) \in Nat /\ Idle + 1 \in Nat BY Spans
    <3>2. Rate * (Idle + 1) <= Rate * ((Idle + 1) + (more - (Idle + 1))) BY <3>1, MoreGain
    <3>3. (Idle + 1) + (more - (Idle + 1)) = more BY Spans
    <3>4. Rate * (Idle + 1) \in Nat BY Spans
    <3>5. Rate * (Idle + 1) <= Rate * more BY <3>2, <3>3
    <3> QED BY <2>2, <3>4, <3>5, GiftFills, Spans
  <2> QED BY <1>1, <2>1, <2>2, <2>3, GiftFills, Spans
<1> QED BY <1>2, <1>3, <1>4 DEF Within

\* A step that leaves clock, bucket and history alone.
LEMMA RateKept ==
  ASSUME RateInv, UNCHANGED <<clock, bucket, taken>>
  PROVE  RateInv'
BY DEF RateInv, Accounted, BoundedRate, Taken

\* What was taken until now, and what is in the bucket now, is within the bound.
LEMMA NowWithin ==
  ASSUME GateInv, Accounted, NEW a \in 0..clock
  PROVE  Within(Token * Taken(a, clock) + Credits, clock - a)
<1>1. clock \in Nat /\ clock <= MaxTime /\ MaxTime \in Nat BY Times, Spans DEF GateInv
<1>2. Credits \in 0..Burst BY CreditsType DEF GateInv
<1>3. clock \in Time /\ (a # 0 => a - 1 \in Time) /\ clock - a \in Nat BY <1>1 DEF Time
<1>4. ASSUME Taken(a, clock) = 0
      PROVE  Within(Token * Taken(a, clock) + Credits, clock - a)
  <2>1. Token * 0 + Credits = Credits BY <1>2, Spans
  <2> QED BY <1>2, <1>3, <1>4, <2>1, FullIsWithin, Spans
<1>5. CASE bucket = None
  BY <1>3, <1>4, <1>5 DEF Accounted, Taken
<1>6. CASE bucket # None
  <2>1. /\ bucket.last \in Nat /\ bucket.last <= clock /\ bucket.tokens \in Nat
        /\ taken[clock] = taken[bucket.last] /\ taken[clock] \in Nat
    BY <1>3, <1>6, Times DEF GateInv, Clocked, Accounted, GateTypeOK
  <2>2. CASE a > bucket.last
    <3>1. a # 0 /\ a - 1 >= bucket.last BY <1>1, <2>1, <2>2
    <3>2. taken[a - 1] = taken[clock] BY <1>3, <1>6, <2>1, <3>1 DEF Accounted
    <3> QED BY <1>4, <2>1, <3>1, <3>2 DEF Taken
  <2>3. CASE a <= bucket.last
    <3> DEFINE span == bucket.last - a
               more == clock - bucket.last
               spent == Token * Taken(a, clock)
    <3>1. Taken(a, clock) = Taken(a, bucket.last) BY <2>1 DEF Taken
    <3>2. a \in 0..bucket.last BY <2>1, <2>3
    <3>3. Within(spent + bucket.tokens, span) BY <1>6, <3>1, <3>2 DEF Accounted
    <3>4. spent \in Int
      <4>1. clock \in 0..clock BY <1>1
      <4>2. Taken(a, clock) \in Int BY <4>1, TakenType DEF GateInv
      <4> QED BY <4>2, Spans
    <3>5. span \in Nat /\ more \in Nat /\ span + more = clock - a BY <1>1, <2>1, <2>3
    <3>6. CASE Dropped
      <4>1. more > Idle BY <1>6, <3>6 DEF Dropped
      <4>2. Credits = Burst BY <3>6 DEF Credits
      <4>3. spent + Credits <= (spent + bucket.tokens) + Burst BY <2>1, <3>4, <4>2, Spans
      <4>4. spent + Credits \in Int /\ spent + bucket.tokens \in Int BY <1>2, <2>1, <3>4, Spans
      <4> HIDE DEF span, more, spent
      <4>5. Within(spent + Credits, span + more)
        BY <3>3, <3>5, <4>1, <4>3, <4>4, DropIsWithin
      <4> QED BY <3>5, <4>5 DEF spent
    <3>7. CASE ~Dropped
      <4>1. more * Rate \in Nat /\ more * Rate = Rate * more
        BY <3>5, MoreGain, Spans
      <4>2. Credits <= bucket.tokens + Rate * more
        <5>1. Credits = Min({Burst, bucket.tokens + more * Rate}) BY <3>7 DEF Credits
        <5>2. bucket.tokens + more * Rate \in Int BY <2>1, <4>1
        <5> HIDE DEF more
        <5> QED BY <4>1, <5>1, <5>2, MinOfTwo, Spans
      <4>3. spent + Credits <= (spent + bucket.tokens) + Rate * more
        <5> HIDE DEF more, spent
        <5> QED BY <1>2, <2>1, <3>4, <4>1, <4>2, Spans
      <4>4. spent + Credits \in Int /\ spent + bucket.tokens \in Int BY <1>2, <2>1, <3>4, Spans
      <4> HIDE DEF span, more, spent
      <4>5. Within(spent + Credits, span + more)
        BY <3>3, <3>5, <4>3, <4>4, GainIsWithin
      <4> QED BY <3>5, <4>5 DEF spent
    <3> QED BY <3>6, <3>7
  <2> QED BY <1>1, <2>1, <2>2, <2>3
<1> QED BY <1>5, <1>6

\* Nothing was taken yet after the clock's time.
LEMMA NothingAhead ==
  ASSUME GateInv, Accounted, NEW t \in Time, t >= clock
  PROVE  taken[t] = taken[clock]
<1>1. clock \in Nat /\ clock \in Time BY Times DEF GateInv, GateTypeOK
<1> QED BY <1>1, Times DEF Accounted, GateInv, Clocked, Time

LEMMA AdmitRate ==
  ASSUME GateInv, RateInv, NEW h \in Slot, Admit(h)
  PROVE  RateInv'
<1>1. clock \in Nat /\ clock <= MaxTime /\ MaxTime \in Nat BY Times, Spans DEF GateInv
<1>2. Credits \in 0..Burst /\ Credits >= Token BY CreditsType DEF Admit, GateInv
<1>3. /\ clock' = clock /\ bucket' # None
      /\ bucket'.last = clock /\ bucket'.tokens = Credits - Token
  <2>1. bucket' = [tokens |-> Credits - Token, last |-> clock] /\ clock' = clock
    BY DEF Admit
  <2>2. bucket' \in [tokens : Int, last : Int] BY <1>1, <1>2, <2>1, Spans
  <2> QED BY <2>1, <2>2, Spans
<1>4. /\ taken \in [Time -> Nat]
      /\ \A t \in Time : taken'[t] = IF t < clock THEN taken[t] ELSE taken[t] + 1
  BY DEF Admit, TakenOneMore, GateInv, GateTypeOK
<1>5. ASSUME NEW a \in 0..clock, NEW b \in 0..clock
      PROVE  Taken(a, b)' = IF b = clock THEN Taken(a, b) + 1 ELSE Taken(a, b)
  <2>1. b \in Time /\ (a # 0 => a - 1 \in Time) BY <1>1 DEF Time
  <2>2. a # 0 => a - 1 < clock BY <1>1
  <2>3. b = clock => taken'[b] = taken[b] + 1 BY <1>1, <1>4, <2>1
  <2>4. b # clock => taken'[b] = taken[b] BY <1>1, <1>4, <2>1
  <2>5. a # 0 => taken'[a - 1] = taken[a - 1] BY <1>4, <2>1, <2>2
  <2>6. taken[b] \in Int /\ (a # 0 => taken[a - 1] \in Int) BY <1>4, <2>1
  <2> QED BY <2>3, <2>4, <2>5, <2>6 DEF Taken
<1>6. ASSUME NEW a \in 0..clock
      PROVE  /\ Taken(a, clock)' \in Int
             /\ Within(Token * Taken(a, clock)' + (Credits - Token), clock - a)
  <2>1. clock \in 0..clock BY <1>1
  <2>2. Taken(a, clock)' = Taken(a, clock) + 1 /\ Taken(a, clock) \in Int
    <3>1. Taken(a, clock)' = Taken(a, clock) + 1 BY <1>3, <1>5, <2>1
    <3> QED BY <2>1, <3>1, TakenType DEF GateInv
  <2>3. Token * (Taken(a, clock) + 1) = Token * Taken(a, clock) + Token BY <2>2, Spans
  <2>4. Token * Taken(a, clock) \in Int BY <2>2, Spans
  <2>5. Token * Taken(a, clock)' + (Credits - Token) = Token * Taken(a, clock) + Credits
    BY <1>2, <2>2, <2>3, <2>4, Spans
  <2> QED BY <2>2, <2>5, NowWithin DEF RateInv
<1>7. Accounted'
  <2>1. \A t \in Time : t >= clock => taken'[t] = taken'[clock]
    BY <1>1, <1>4, NothingAhead DEF RateInv, Time
  <2>2. \A a \in 0..clock : Within(Token * Taken(a, clock)' + (Credits - Token), clock - a)
    BY <1>6
  <2> QED BY <1>3, <2>1, <2>2 DEF Accounted, Taken
<1>8. BoundedRate'
  <2> SUFFICES ASSUME NEW a \in 0..clock, NEW b \in a..clock
               PROVE  Within(Token * Taken(a, b)', b - a)
    BY <1>3 DEF BoundedRate, Taken
  <2>1. CASE b = clock
    <3>1. Within(Token * Taken(a, b)' + (Credits - Token), b - a) /\ Taken(a, b)' \in Int
      BY <1>3, <1>6, <2>1
    <3>2. /\ b - a \in Nat /\ Token * Taken(a, b)' \in Int
          /\ Token * Taken(a, b)' + (Credits - Token) \in Int
      BY <1>1, <1>2, <3>1, Spans
    <3>3. Token * Taken(a, b)' <= Token * Taken(a, b)' + (Credits - Token) + Rate * 0
      BY <1>2, <3>2, Spans
    <3>4. Within(Token * Taken(a, b)', (b - a) + 0)
      BY <3>1, <3>2, <3>3, GainIsWithin
    <3> QED BY <3>2, <3>4
  <2>2. CASE b # clock
    BY <1>1, <1>5, <2>2 DEF RateInv, BoundedRate
  <2> QED BY <2>1, <2>2
<1> QED BY <1>7, <1>8 DEF RateInv

LEMMA LimitRate ==
  ASSUME GateInv, RateInv, NEW h \in Slot, Limit(h)
  PROVE  RateInv'
<1>1. clock \in Nat /\ Credits \in 0..Burst BY Times, CreditsType DEF GateInv
<1>2. /\ clock' = clock /\ taken' = taken /\ bucket' # None
      /\ bucket'.last = clock /\ bucket'.tokens = Credits
  <2>1. bucket' = [tokens |-> Credits, last |-> clock] /\ clock' = clock /\ taken' = taken
    BY DEF Limit
  <2>2. bucket' \in [tokens : Int, last : Int] BY <1>1, <2>1, Spans
  <2> QED BY <2>1, <2>2, Spans
<1>3. Accounted'
  <2>1. \A a \in 0..clock : Within(Token * Taken(a, clock) + Credits, clock - a)
    BY NowWithin DEF RateInv
  <2>2. \A t \in Time : t >= clock => taken[t] = taken[clock]
    BY NothingAhead DEF RateInv
  <2> QED BY <1>2, <2>1, <2>2 DEF Accounted, Taken
<1>4. BoundedRate'
  BY <1>2 DEF RateInv, BoundedRate, Taken
<1> QED BY <1>3, <1>4 DEF RateInv

LEMMA TickRate ==
  ASSUME GateInv, RateInv, Tick
  PROVE  RateInv'
<1>1. /\ clock \in Nat /\ clock' = clock + 1 /\ taken' = taken /\ bucket' = bucket
      /\ clock + 1 <= MaxTime /\ MaxTime \in Nat
  BY Times, Spans DEF Tick, GateInv, limitVars
<1>2. Accounted'
  BY <1>1 DEF RateInv, Accounted, Taken
<1>3. /\ clock \in Time /\ clock + 1 \in Time /\ taken[clock + 1] = taken[clock]
      /\ taken \in [Time -> Nat]
  BY <1>1, NothingAhead DEF RateInv, Time, GateInv, GateTypeOK
<1>4. BoundedRate'
  <2> SUFFICES ASSUME NEW a \in 0..(clock + 1), NEW b \in a..(clock + 1)
               PROVE  Within(Token * Taken(a, b), b - a)
    BY <1>1 DEF BoundedRate, Taken
  <2>1. CASE a = clock + 1
    <3>1. Taken(a, b) = 0 /\ b = a BY <1>1, <1>3, <2>1 DEF Taken
    <3>2. Token * 0 = 0 /\ b - a \in Nat BY <1>1, <2>1, <3>1, Spans
    <3> QED BY <3>1, <3>2, FullIsWithin, Spans
  <2>2. CASE a # clock + 1 /\ b = clock + 1
    <3>1. a \in 0..clock /\ clock \in a..clock /\ clock \in 0..clock BY <1>1, <2>2
    <3>2. Taken(a, b) = Taken(a, clock) BY <1>3, <2>2 DEF Taken
    <3>3. Within(Token * Taken(a, clock), clock - a) BY <3>1 DEF RateInv, BoundedRate
    <3>4. Token * Taken(a, clock) \in Int
      <4>1. Taken(a, clock) \in Int BY <3>1, TakenType DEF GateInv
      <4> QED BY <4>1, Spans
    <3>5. Token * Taken(a, clock) <= Token * Taken(a, clock) + Rate * 1 BY <3>4, Spans
    <3>6. clock - a \in Nat /\ (clock - a) + 1 = b - a BY <1>1, <2>2, <3>1
    <3>7. Within(Token * Taken(a, clock), (clock - a) + 1)
      BY <3>3, <3>4, <3>5, <3>6, GainIsWithin
    <3> QED BY <3>2, <3>6, <3>7
  <2>3. CASE a # clock + 1 /\ b # clock + 1
    <3>1. a \in 0..clock /\ b \in a..clock BY <1>1, <2>3
    <3> QED BY <3>1 DEF RateInv, BoundedRate
  <2> QED BY <2>1, <2>2, <2>3
<1> QED BY <1>2, <1>4 DEF RateInv

\* A server that starts has no bucket and has admitted nobody.
LEMMA FreshRate ==
  clock \in Time /\ bucket = None /\ taken = [t \in Time |-> 0] => RateInv
<1> SUFFICES ASSUME clock \in Time, bucket = None, taken = [t \in Time |-> 0]
             PROVE  RateInv
  OBVIOUS
<1>1. clock \in Nat /\ clock <= MaxTime /\ MaxTime \in Nat BY Spans DEF Time
<1>2. ASSUME NEW a \in 0..clock, NEW b \in a..clock
      PROVE  Within(Token * Taken(a, b), b - a)
  <2>1. b \in Time /\ (a # 0 => a - 1 \in Time) /\ b - a \in Nat BY <1>1 DEF Time
  <2>2. Taken(a, b) = 0 BY <2>1 DEF Taken
  <2>3. Token * 0 = 0 BY Spans
  <2> QED BY <2>1, <2>2, <2>3, FullIsWithin, Spans
<1> QED BY <1>2 DEF RateInv, Accounted, BoundedRate

LEMMA RateStep ==
  ASSUME GateInv, RateInv, [Next]_vars
  PROVE  RateInv'
<1> USE DEF limitVars
<1>1. ASSUME NEW m \in Message, Send(m) PROVE RateInv' BY <1>1, RateKept DEF Send
<1>2. ASSUME NEW h \in Slot, NEW m \in Message, Arrive(h, m) PROVE RateInv'
  BY <1>2, RateKept DEF Arrive
<1>3. ASSUME NEW h \in Slot, Verify(h) PROVE RateInv'
  BY <1>3, RateKept DEF Verify, Parse, StartRefresh, Fetched, FetchFails, Apply, Reparse
<1>4. ASSUME NEW h \in Slot, Admit(h) \/ Limit(h) PROVE RateInv'
  BY <1>4, AdmitRate, LimitRate
<1>5. ASSUME NEW h \in Slot, VerifySignature(h) \/ Serve(h) \/ Repeated(h) PROVE RateInv'
  BY <1>5, RateKept DEF VerifySignature, Serve, Repeated
<1>6. ASSUME NEW k \in Kid, Rotate(k) PROVE RateInv' BY <1>6, RateKept DEF Rotate
<1>7. CASE Tick BY <1>7, TickRate
<1>8. CASE Restart
  <2>1. (clock \in Time /\ bucket = None /\ taken = [t \in Time |-> 0])'
    BY <1>8 DEF Restart, GateInv, GateTypeOK, Time
  <2>2. (clock \in Time /\ bucket = None /\ taken = [t \in Time |-> 0])' => RateInv'
    BY FreshRate, PTL
  <2> QED BY <2>1, <2>2
<1>9. CASE UNCHANGED vars BY <1>9, RateKept DEF vars
<1> QED BY <1>1, <1>2, <1>3, <1>4, <1>5, <1>6, <1>7, <1>8, <1>9 DEF Next

\* Over any span of time a user gets no more than a full bucket, what it gains
\* meanwhile, and Gift for every Idle + 1 of it (rate_limit.go:34-63), whatever
\* SENTRA_PUSH_RPM is: also where buckets are not full when they are dropped.
THEOREM BoundedRateAlways == Spec => []BoundedRate
<1>1. Init => RateInv
  <2>1. Init => clock \in Time BY Spans DEF Init, Time
  <2> QED BY <2>1, FreshRate DEF Init
<1>2. RateInv => BoundedRate BY DEF RateInv
<1> QED BY <1>1, <1>2, RateStep, GateInvAlways, PTL DEF Spec
===============================================================================

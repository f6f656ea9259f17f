----------------------------- MODULE MCClient -----------------------------
(***************************************************************************)
(* Four parts of the CLI that share no state, checked in one run: a        *)
(* behaviour is a behaviour of one of them.                                *)
(***************************************************************************)
EXTENDS Session, LoginServer, StorageConfig, Scanner

\* Two directories a and b at the top, a/c below, and one that is left out.
MCTree ==
  [d \in {<<>>, <<"a">>, <<"b">>, <<"a", "b">>, <<"a", "b", "c">>, <<"dist">>} |->
    CASE d = <<>>         -> <<<<"a">>, <<"b">>, <<"dist">>>>
      [] d = <<"a">>      -> <<<<"a", "b">>>>
      [] d = <<"a", "b">> -> <<<<"a", "b", "c">>>>
      [] OTHER            -> <<>>]
MCFile == {<<"env">>, <<"env", "local">>, <<"env", "test", "local">>, <<"env", "local", "local">>,
           <<"env", "example">>, <<"env", "test", "bak">>, <<"env", "old">>, <<"main">>}

\* b, /b, !b, a/b and !/b/c, alone and in pairs.
MCPatterns ==
  LET P(n, k, s) == [negate |-> n, kind |-> k, path |-> s]
      one == {P(FALSE, "name", <<"b">>), P(FALSE, "anchored", <<"b">>), P(TRUE, "name", <<"b">>),
              P(FALSE, "end", <<"b", "c">>), P(TRUE, "anchored", <<"b", "*">>)}
  IN {<<>>} \cup {<<p>> : p \in one} \cup {<<p, q>> : p, q \in one}

VARIABLE part

clientVars == <<part, sessionVars, loginVars, storageVars, scanVars>>

Init == /\ part \in {"session", "login", "storage", "scan"}
        /\ SessionInit
        /\ LoginInit
        /\ StorageInit
        /\ repos \in IF part = "scan" THEN {{<<>>}, {<<"a">>, <<"b">>}, {<<"a", "b">>, <<"dist">>}}
                                      ELSE {{}}
        /\ \E p, q \in IF part = "scan" THEN MCPatterns ELSE {<<>>} :
             ignore = [d \in Dir |-> CASE d = <<>> -> p [] d = <<"a">> -> q [] OTHER -> <<>>]
        /\ ScanInit

SessionPart == part = "session" /\ UNCHANGED <<part, loginVars, storageVars, scanVars>>
LoginPart == part = "login" /\ UNCHANGED <<part, sessionVars, storageVars, scanVars>>
StoragePart == part = "storage" /\ UNCHANGED <<part, sessionVars, loginVars, scanVars>>
ScanPart == part = "scan" /\ UNCHANGED <<part, sessionVars, loginVars, storageVars>>
Next == \/ SessionPart /\ SessionNext
        \/ LoginPart /\ LoginNext
        \/ StoragePart /\ StorageNext
        \/ ScanPart /\ ScanNext

\* No more fairness than that the computer does not stop.
FairSpec == /\ Init
            /\ [][Next]_clientVars
            /\ WF_clientVars(SessionPart /\ \E p \in Proc : Start(p) \/ Command(p))
            /\ WF_clientVars(LoginPart /\ (Main \/ \E c \in Callback : Handle(c)))

\* The types of all parts, among them that the patterns the scanner applies
\* are those on the way to where it is (scanner.go).
ClientTypeOK == SessionTypeOK /\ LoginTypeOK /\ StorageTypeOK /\ ScanTypeOK

\* The liveness of a part, in the behaviours of that part.
SessionUsable == part = "session" => EventuallyUsable
LoginFinishes == part = "login" => LoginEnds
=============================================================================

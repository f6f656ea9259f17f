---------------------------- MODULE PushPipeline ----------------------------
(***************************************************************************)
(* `sentra push` (cli/internal/cli/push.go, push_build.go) against the     *)
(* server of PushServer.  Several processes of the CLI can run on one      *)
(* machine and share its commit files and its env files.  A process takes  *)
(* the pending commits in ID order, reads the env files of one commit as   *)
(* they are now, sends one request per project root in order, retries a    *)
(* 429 up to MaxAttempts times, and marks the commit pushed.  It can be    *)
(* killed at any moment, its requests can time out, which the server may   *)
(* notice or not, and its write of the commit file can fail.               *)
(***************************************************************************)
EXTENDS PushServer

CONSTANTS Process,     \* CLI processes on the machine
          RootsOf,     \* RootsOf[c]: the project roots commit c has files in
          MaxAttempts  \* 5 in push.go:189

\* Commits are numbered in ID order and projects in the order of their names.
\* A commit has at least one root: buildPushRequestV1 refuses another one.
ASSUME PushPipelineAssumption ==
  /\ Commit \subseteq Nat
  /\ Project \subseteq Nat
  /\ RootsOf \in [Commit -> SUBSET Project \ {{}}]
  /\ MaxAttempts \in Nat \ {0}
  /\ None \notin Commit \cup Project \cup Slot

VARIABLES mode,    \* mode[p]: where process p is in runPush
          queue,   \* queue[p]: pending commits p listed and has not finished
          now,     \* now[p]: the commit p works on
          batch,   \* batch[p]: the bodies p built for it, by project root
          todo,    \* todo[p]: roots p has not pushed yet
          target,  \* target[p]: the root p is sending
          tries,   \* tries[p]: attempts for that root answered 429
          slot,    \* slot[p]: the request p waits for
          pushed,  \* commits whose file carries PushedAt
          disk,    \* disk[r]: what the env files of root r hold, None if one is missing
          gaveUp   \* history: units whose MaxAttempts attempts all ended in 429

cliVars == <<mode, queue, now, batch, todo, target, tries, slot>>
localVars == <<pushed, disk, gaveUp>>
pipelineVars == <<serverVars, cliVars, localVars>>

NoBatch == [r \in Project |-> None]

PipelineTypeOK ==
  /\ TypeOK
  /\ mode \in [Process -> {"idle", "build", "send", "wait", "mark"}]
  /\ queue \in [Process -> SUBSET Commit]
  /\ now \in [Process -> Commit \cup {None}]
  /\ batch \in [Process -> [Project -> Body \cup {None}]]
  /\ todo \in [Process -> SUBSET Project]
  /\ target \in [Process -> Project \cup {None}]
  /\ tries \in [Process -> 0..(MaxAttempts - 1)]
  /\ slot \in [Process -> Slot \cup {None}]
  /\ pushed \subseteq Commit
  /\ disk \in [Project -> Body \cup {None}]
  /\ gaveUp \subseteq Unit

PipelineInit ==
  /\ ServerInit
  /\ mode = [p \in Process |-> "idle"]
  /\ queue = [p \in Process |-> {}]
  /\ now = [p \in Process |-> None]
  /\ batch = [p \in Process |-> NoBatch]
  /\ todo = [p \in Process |-> {}]
  /\ target = [p \in Process |-> None]
  /\ tries = [p \in Process |-> 0]
  /\ slot = [p \in Process |-> None]
  /\ pushed = {}
  /\ disk \in [Project -> Body]
  /\ gaveUp = {}

-----------------------------------------------------------------------------
Pending == Commit \ pushed

\* runPush returns, or the process is killed: all it had in memory is gone.
Exit(p) == /\ mode' = [mode EXCEPT ![p] = "idle"]
           /\ queue' = [queue EXCEPT ![p] = {}]
           /\ now' = [now EXCEPT ![p] = None]
           /\ batch' = [batch EXCEPT ![p] = NoBatch]
           /\ todo' = [todo EXCEPT ![p] = {}]
           /\ target' = [target EXCEPT ![p] = None]
           /\ tries' = [tries EXCEPT ![p] = 0]
           /\ slot' = [slot EXCEPT ![p] = None]

\* The loop over the roots goes on after root target[p].
RootDone(p) == /\ todo' = [todo EXCEPT ![p] = @ \ {target[p]}]
               /\ target' = [target EXCEPT ![p] = None]
               /\ tries' = [tries EXCEPT ![p] = 0]
               /\ slot' = [slot EXCEPT ![p] = None]
               /\ mode' = [mode EXCEPT ![p] = IF todo[p] = {target[p]} THEN "mark" ELSE "send"]
               /\ UNCHANGED <<queue, now, batch>>

\* Nobody waits for the answer of slot s.
Unwatched(s) == \A p \in Process : slot[p] # s

-----------------------------------------------------------------------------
(* The user runs `sentra push`: the pending commits are listed once.        *)
StartPush(p) ==
  /\ mode[p] = "idle"
  /\ Pending # {}
  /\ mode' = [mode EXCEPT ![p] = "build"]
  /\ queue' = [queue EXCEPT ![p] = Pending]
  /\ UNCHANGED <<now, batch, todo, target, tries, slot, localVars, serverVars>>

\* buildPushRequestV1 reads every env file of the next commit before anything
\* is sent; the reads of one commit are a single step here.
Build(p) ==
  /\ mode[p] = "build"
  /\ \E c \in queue[p] :
       /\ \A d \in queue[p] : c =< d
       /\ \A r \in RootsOf[c] : disk[r] # None
       /\ now' = [now EXCEPT ![p] = c]
       /\ todo' = [todo EXCEPT ![p] = RootsOf[c]]
       /\ batch' = [batch EXCEPT ![p] =
                      [r \in Project |-> IF r \in RootsOf[c] THEN disk[r] ELSE None]]
  /\ mode' = [mode EXCEPT ![p] = "send"]
  /\ UNCHANGED <<queue, target, tries, slot, localVars, serverVars>>

\* A file of the commit was deleted or moved: push reports it and stops.
BuildFails(p) ==
  /\ mode[p] = "build"
  /\ \E c \in queue[p] : /\ \A d \in queue[p] : c =< d
                         /\ \E r \in RootsOf[c] : disk[r] = None
  /\ Exit(p)
  /\ UNCHANGED <<localVars, serverVars>>

\* One attempt: the request reaches the handler, or is turned away before it.
Send(p) ==
  /\ mode[p] = "send"
  /\ \E r \in todo[p], s \in Slot :
       /\ \A q \in todo[p] : r =< q
       /\ Unwatched(s)
       /\ target' = [target EXCEPT ![p] = r]
       /\ slot' = [slot EXCEPT ![p] = s]
       /\ \/ Receive(s, <<now[p], r>>, batch[p][r], TRUE)
          \/ \E st \in {"limited", "failed"} : TurnAway(s, st)
  /\ mode' = [mode EXCEPT ![p] = "wait"]
  /\ UNCHANGED <<queue, now, batch, todo, tries, localVars>>

\* 2xx: the root is pushed.
HearOk(p) ==
  /\ mode[p] = "wait"
  /\ answer[slot[p]].status = "ok"
  /\ Deliver(slot[p])
  /\ RootDone(p)
  /\ UNCHANGED localVars

\* 429 with attempts left: sleep and send the same request again.
HearLimitedOnceMore(p) ==
  /\ mode[p] = "wait"
  /\ answer[slot[p]].status = "limited"
  /\ tries[p] < MaxAttempts
  /\ Deliver(slot[p])
  /\ tries' = [tries EXCEPT ![p] = @ + 1]
  /\ slot' = [slot EXCEPT ![p] = None]
  /\ mode' = [mode EXCEPT ![p] = "send"]
  /\ UNCHANGED <<queue, now, batch, todo, target, localVars>>
HearLimited(p) ==
  /\ mode[p] = "wait"
  /\ answer[slot[p]].status = "limited"
  /\ tries[p] + 1 < MaxAttempts
  /\ Deliver(slot[p])
  /\ tries' = [tries EXCEPT ![p] = @ + 1]
  /\ slot' = [slot EXCEPT ![p] = None]
  /\ mode' = [mode EXCEPT ![p] = "send"]
  /\ UNCHANGED <<queue, now, batch, todo, target, localVars>>

\* 429 on the last attempt: the attempt loop ends and the code goes on as
\* after a success.
OutOfAttempts(p) ==
  /\ mode[p] = "wait"
  /\ answer[slot[p]].status = "limited"
  /\ tries[p] + 1 = MaxAttempts
  /\ Deliver(slot[p])
  /\ RootDone(p)
  /\ gaveUp' = gaveUp \cup {<<now[p], target[p]>>}
  /\ UNCHANGED <<pushed, disk>>

\* Any other answer: push reports it and stops.
HearErrorAsOk(p) ==
  /\ mode[p] = "wait"
  /\ answer[slot[p]].status \in {"conflict", "failed"}
  /\ Deliver(slot[p])
  /\ RootDone(p)
  /\ UNCHANGED localVars
HearError(p) ==
  /\ mode[p] = "wait"
  /\ answer[slot[p]].status \in {"conflict", "failed"}
  /\ Deliver(slot[p])
  /\ Exit(p)
  /\ UNCHANGED localVars

\* Every root of the commit is through: the commit file gets its PushedAt.
MarkPushed(p) ==
  /\ mode[p] = "mark"
  /\ pushed' = pushed \cup {now[p]}
  /\ queue' = [queue EXCEPT ![p] = @ \ {now[p]}]
  /\ now' = [now EXCEPT ![p] = None]
  /\ batch' = [batch EXCEPT ![p] = NoBatch]
  /\ mode' = [mode EXCEPT ![p] = IF queue[p] = {now[p]} THEN "idle" ELSE "build"]
  /\ UNCHANGED <<todo, target, tries, slot, disk, gaveUp, serverVars>>

\* The process stops at any point: it is killed, its request timed out (20 s)
\* or the connection broke, or commit.Update failed.  The server may know more
\* than the commit file says.  Its handler goes on, until ClientGone.
Stop(p) ==
  /\ mode[p] # "idle"
  /\ Exit(p)
  /\ UNCHANGED <<localVars, serverVars>>

\* The server sees the closed connection, at any time after the client left,
\* or never before the handler is through.
ClientGone(s) ==
  /\ Unwatched(s)
  /\ Disconnect(s)
  /\ UNCHANGED <<cliVars, localVars>>

\* An answer nobody waits for is dropped.
DropAnswer(s) ==
  /\ Unwatched(s)
  /\ Deliver(s)
  /\ UNCHANGED <<cliVars, localVars>>

\* The server dies: whoever waited gets a connection error.
ServerCrash ==
  /\ Crash
  /\ LET waiting == {p \in Process : mode[p] = "wait"}
         Reset(f, v) == [p \in Process |-> IF p \in waiting THEN v ELSE f[p]]
     IN /\ mode' = Reset(mode, "idle")
        /\ queue' = Reset(queue, {})
        /\ now' = Reset(now, None)
        /\ batch' = Reset(batch, NoBatch)
        /\ todo' = Reset(todo, {})
        /\ target' = Reset(target, None)
        /\ tries' = Reset(tries, 0)
        /\ slot' = Reset(slot, None)
  /\ UNCHANGED localVars

\* The user changes, deletes or restores the env files of a root.
Edit(r, b) ==
  /\ disk[r] # b
  /\ disk' = [disk EXCEPT ![r] = b]
  /\ UNCHANGED <<pushed, gaveUp, cliVars, serverVars>>

-----------------------------------------------------------------------------
ServerStep == /\ \/ \E s \in Slot : Handle(s) \/ Fail(s)
                 \/ Database
              /\ UNCHANGED <<cliVars, localVars>>

Work(p) == \/ StartPush(p) \/ Build(p) \/ BuildFails(p) \/ Send(p)
           \/ HearOk(p) \/ HearLimited(p) \/ OutOfAttempts(p) \/ HearError(p)
           \/ MarkPushed(p)

PipelineNext == \/ \E p \in Process : Work(p) \/ Stop(p)
                \/ ServerStep
                \/ \E s \in Slot : DropAnswer(s) \/ ClientGone(s)
                \/ ServerCrash
                \/ \E r \in Project, b \in Body \cup {None} : Edit(r, b)

PipelineSpec == PipelineInit /\ [][PipelineNext]_pipelineVars

(* Fairness: goroutines, the database and running processes make progress,  *)
(* and a user who has pending commits runs `sentra push` again.             *)
Progress(s) == \/ (Handle(s) \/ RunRPC(s)) /\ UNCHANGED <<cliVars, localVars>>
               \/ DropAnswer(s)

FairSpec ==
  /\ PipelineSpec
  /\ \A p \in Process : WF_pipelineVars(Work(p))
  /\ \A s \in Slot : WF_pipelineVars(Progress(s))

-----------------------------------------------------------------------------
\* A commit is stored when the database has every project's share of it.
Stored(c) == \A r \in RootsOf[c] : db[<<c, r>>] # None

\* cli/README.md: `sentra push` "Pushes local commits to the remote".  A
\* commit whose file says pushed (push.go:266-271) is in the database.
PushedIsStored == \A c \in pushed : Stored(c)

\* What the code does keep: a root of a pushed commit is in the database
\* unless its five attempts all met the rate limiter (push.go:189-263).
PushedIsStoredOrGaveUp ==
  \A c \in pushed : \A r \in RootsOf[c] :
    db[<<c, r>>] # None \/ <<c, r>> \in gaveUp

\* A row in progress (push.go:69) belongs to a request that is still being
\* handled, whichever requests fail open or undo a row they do not own, unless
\* the request that was to end it could not (:112, :124: its delete or its
\* update failed, its client left or the server died) or its insert ran late.
RowHasOwner ==
  \A u \in Unit : idem[u].status = "in_progress" =>
    u \in adrift \/ \E s \in Slot : Holds(s) /\ KeyOf(s) = u

\* The row of a key is adrift: every push of the unit is answered 409.
Stuck(u) == /\ u \in adrift
            /\ idem[IdemKey(u)].status = "in_progress"
            /\ ~\E s \in Slot : Holds(s) /\ KeyOf(s) = IdemKey(u)

\* Push stops at its first error, so a stuck unit also holds up every commit
\* after its own.
HeldUp(c) == \E d \in Pending, r \in Project : d =< c /\ r \in RootsOf[d] /\ Stuck(<<d, r>>)

\* Something went wrong in this step, and nothing that works could have taken
\* it (a second failed claim may look like a claim), or the user touched a file.
Disturbed == \/ /\ \/ \E s \in Slot : Fail(s) \/ ClientGone(s)
                   \/ \E p \in Process : Stop(p)
                   \/ ServerCrash
                /\ ~\E s \in Slot : Handle(s)
                /\ ~\E p \in Process : Work(p)
             \/ \E s \in Slot : /\ answer'[s] # answer[s]
                               /\ answer'[s].status \in {"limited", "failed"}
             \/ disk' # disk

\* Once requests stop failing and the files stay, every pending commit becomes
\* pushed by running `sentra push` again (push.go:63-74), whatever half-done
\* work and whatever keys the failures left behind, or is held up for good by
\* a row that is adrift.
EventuallyPushed ==
  (<>[][~Disturbed]_pipelineVars /\ <>[](\A r \in Project : disk[r] # None))
    => <>[](\A c \in Pending : HeldUp(c))
=============================================================================

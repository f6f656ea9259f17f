------------------------------ MODULE Scanner ------------------------------
(***************************************************************************)
(* The search for env files (scanner/scanner.go, scanner/ignore.go): first *)
(* the git repositories below the scan root, then in each of them the env  *)
(* files of the directories that no .gitignore excludes.  Both are         *)
(* recursive walks; the recursion is a stack of frames here.               *)
(***************************************************************************)
EXTENDS SequencesExt, Naturals

CONSTANTS Tree,      \* Tree[d]: the subdirectories of directory d, in order
          File,      \* the names of the files of every directory
          NeverEnter \* defaultIgnoredDirs: names of directories left out

\* A directory is the sequence of names that leads to it from the scan root, a
\* file name the sequence of its parts: <<"env", "local">> is .env.local.
Dir == DOMAIN Tree
ScanRoot == <<>>

\* Tree holds the directories on the way to each of its directories.
ASSUME TreeAssumption ==
  /\ Dir \cup File \subseteq Seq(STRING)
  /\ ScanRoot \in Dir
  /\ \A d \in Dir : /\ Tree[d] \in Seq(Dir)
                    /\ ToSet(Tree[d]) = {c \in Dir : Len(c) = Len(d) + 1 /\ IsPrefix(d, c)}
                    /\ \A n \in 0..Len(d) : SubSeq(d, 1, n) \in Dir

\* A pattern matches a name at any depth, the path of an entry from the
\* directory of its .gitignore ("anchored"), or the end of that path.
Pattern == [negate : BOOLEAN, kind : {"name", "anchored", "end"}, path : Seq(STRING)]

VARIABLES repos,    \* the directories with a directory .git
          ignore,   \* ignore[d]: the patterns of the .gitignore of d
          phase,    \* "roots", "files", "done" or "failed"
          frames,   \* the directories being walked, and what is left of each
          inForce,  \* ignoreStack: the directories whose patterns apply
          roots,    \* the repositories found and not yet walked
          envFiles  \* the env files found: repository, directory, name

scanVars == <<repos, ignore, phase, frames, inForce, roots, envFiles>>

Frame(d) == [dir |-> d, todo |-> Tree[d]]
Top == Last(frames)

\* The patterns in force are those of the directories on the way.
ScanTypeOK ==
  /\ repos \subseteq Dir
  /\ ignore \in [Dir -> Seq(Pattern)]
  /\ phase \in {"roots", "files", "done", "failed"}
  /\ frames \in Seq([dir : Dir, todo : Seq(Dir)])
  /\ \A i \in DOMAIN frames : ToSet(frames[i].todo) \subseteq ToSet(Tree[frames[i].dir])
  /\ \A i \in DOMAIN frames : i > 1 => frames[i].dir \in ToSet(Tree[frames[i - 1].dir])
  /\ inForce \in Seq(Dir)
  /\ ToSet(inForce) = IF phase = "files"
                        THEN {d \in {frames[i].dir : i \in DOMAIN frames} : ignore[d] # <<>>}
                        ELSE {}
  /\ \A i, j \in DOMAIN inForce : i < j => IsStrictPrefix(inForce[i], inForce[j])
  /\ roots \subseteq repos
  /\ envFiles \subseteq repos \X Dir \X File

ScanInit == /\ repos \subseteq Dir
            /\ ignore \in [Dir -> Seq(Pattern)]
            /\ phase = "roots"
            /\ frames = IF ScanRoot \in repos THEN <<>> ELSE <<Frame(ScanRoot)>>
            /\ inForce = <<>>
            /\ roots = repos \cap {ScanRoot}
            /\ envFiles = {}

-----------------------------------------------------------------------------
(* findProjectRoots: a repository is not searched for others.               *)
LeftOut(d) == Last(d) \in NeverEnter
Rest == [frames EXCEPT ![Len(frames)].todo = Tail(@)]

NextDir ==
  /\ phase = "roots"
  /\ frames # <<>>
  /\ Top.todo # <<>>
  /\ LET d == Head(Top.todo)
     IN IF ~LeftOut(d) /\ d \in repos
          THEN roots' = roots \cup {d} /\ frames' = Rest
          ELSE /\ frames' = IF LeftOut(d) THEN Rest ELSE Append(Rest, Frame(d))
               /\ UNCHANGED roots
  /\ UNCHANGED <<repos, ignore, phase, inForce, envFiles>>

LeaveDir ==
  /\ phase = "roots"
  /\ frames # <<>>
  /\ Top.todo = <<>>
  /\ frames' = Front(frames)
  /\ UNCHANGED <<repos, ignore, phase, inForce, roots, envFiles>>

-----------------------------------------------------------------------------
(* isEnvFileName                                                            *)
Placeholder == {"example", "template", "sample", "backup", "bak"}
Base == {"local", "development", "staging", "production", "test"}
IsEnvFileName(f) ==
  /\ f # <<>>
  /\ f[1] = "env"
  /\ ToSet(f) \cap Placeholder = {}
  /\ CASE Len(f) = 1 -> TRUE
       [] Len(f) = 2 -> f[2] \in Base
       [] Len(f) = 3 -> f[2] \in Base /\ f[3] = "local"
       [] OTHER -> FALSE

(* matches, and isIgnoredByGitignore: the last pattern that matches decides. *)
Glob(p, name) == p = "*" \/ p = name
Matches(p, rel) ==
  LET pathMatches(q) == Len(q) = Len(p.path) /\ \A i \in DOMAIN q : Glob(p.path[i], q[i])
  IN CASE p.kind = "name"     -> Glob(p.path[1], Last(rel))
       [] p.kind = "anchored" -> pathMatches(rel)
       [] p.kind = "end"      -> \E s \in Suffixes(rel) : pathMatches(s)

From(dir, d) == SubSeq(d, Len(dir) + 1, Len(d))
\* Mutant: the patterns are matched with the path from the repository.
Judge(dir, was, d, rel) ==
  FoldLeft(LAMBDA ig, p : IF Matches(p, rel) THEN ~p.negate ELSE ig, was, ignore[dir])
IsIgnoredFromRepo(d) ==
  FoldLeft(LAMBDA ig, dir : Judge(dir, ig, d, From(frames[1].dir, d)), FALSE, inForce)
IsIgnored(d) ==
  FoldLeft(LAMBDA ig, dir : IF IsPrefix(dir, d) THEN Judge(dir, ig, d, From(dir, d)) ELSE ig,
           FALSE, inForce)

-----------------------------------------------------------------------------
(* scanProjectEnvFiles                                                      *)
\* A directory is entered: its patterns are in force, its env files found.
Enter(repo, d, stack, force) ==
  /\ frames' = Append(stack, Frame(d))
  /\ inForce' = IF ignore[d] = <<>> THEN force ELSE Append(force, d)
  /\ envFiles' = envFiles \cup {<<repo, d, f>> : f \in {g \in File : IsEnvFileName(g)}}

NextRepo ==
  /\ phase \in {"roots", "files"}
  /\ frames = <<>>
  /\ IF roots = {} THEN phase' = "done" /\ UNCHANGED <<frames, inForce, roots, envFiles>>
     ELSE LET r == CHOOSE r \in roots : TRUE
          IN phase' = "files" /\ roots' = roots \ {r} /\ Enter(r, r, <<>>, <<>>)
  /\ UNCHANGED <<repos, ignore>>

WalkDir ==
  /\ phase = "files"
  /\ frames # <<>>
  /\ Top.todo # <<>>
  /\ LET d == Head(Top.todo)
     IN IF LeftOut(d) \/ IsIgnored(d)
          THEN frames' = Rest /\ UNCHANGED <<inForce, envFiles>>
          ELSE Enter(frames[1].dir, d, Rest, inForce)
  /\ UNCHANGED <<repos, ignore, phase, roots>>

\* Mutant: the patterns of the directory stay in force.
ReturnOnly ==
  /\ phase = "files"
  /\ frames # <<>>
  /\ Top.todo = <<>>
  /\ frames' = Front(frames)
  /\ UNCHANGED <<repos, ignore, phase, inForce, roots, envFiles>>
Return ==
  /\ phase = "files"
  /\ frames # <<>>
  /\ Top.todo = <<>>
  /\ frames' = Front(frames)
  /\ inForce' = IF ignore[Top.dir] = <<>> THEN inForce ELSE Front(inForce)
  /\ UNCHANGED <<repos, ignore, phase, roots, envFiles>>

\* A directory or a file that cannot be read ends the scan with an error.
Unreadable ==
  /\ phase \in {"roots", "files"}
  /\ frames # <<>>
  /\ phase' = "failed"
  /\ frames' = <<>>
  /\ inForce' = <<>>
  /\ UNCHANGED <<repos, ignore, roots, envFiles>>

ScanNext == NextDir \/ LeaveDir \/ NextRepo \/ WalkDir \/ Return \/ Unreadable

ScanSpec == ScanInit /\ [][ScanNext]_scanVars

-----------------------------------------------------------------------------
(* What a scan should find, without a walk.                                 *)
Above(d, n) == SubSeq(d, 1, n)

\* Some pattern between repository r and d excludes d, and none later takes it
\* back.  Later is further down, or further on in the same file.
Excluded(r, d) ==
  \E n \in Len(r)..(Len(d) - 1) : \E i \in DOMAIN ignore[Above(d, n)] :
    LET applies(m, j) == Matches(ignore[Above(d, m)][j], From(Above(d, m), d))
    IN /\ applies(n, i) /\ ~ignore[Above(d, n)][i].negate
       /\ \A m \in n..(Len(d) - 1) : \A j \in DOMAIN ignore[Above(d, m)] :
            (m > n \/ j > i) /\ applies(m, j) => ~ignore[Above(d, m)][j].negate

Outermost == {r \in repos : \A n \in 0..Len(r) :
                /\ n < Len(r) => Above(r, n) \notin repos
                /\ n > 0 => r[n] \notin NeverEnter}
Searched(r) == {d \in Dir : IsPrefix(r, d) /\ \A n \in (Len(r) + 1)..Len(d) :
                                d[n] \notin NeverEnter /\ ~Excluded(r, Above(d, n))}

\* The names the comment of isEnvFileName lists (scanner.go:189-193), and
\* .env.local.local, which it does not.
Accepted == {<<"env">>, <<"env", "local", "local">>}
            \cup {<<"env", b>> : b \in Base} \cup {<<"env", b, "local">> : b \in Base \ {"local"}}

\* A scan that does not fail finds the env files of every outermost repository,
\* each once, in the directories that the patterns leave: the last pattern of
\* the innermost .gitignore that has one for a directory decides
\* (scanner.go:94-166, :236-273).
FindsEnvFiles ==
  phase = "done" =>
    envFiles = UNION {{r} \X Searched(r) \X (File \cap Accepted) : r \in Outermost}
=============================================================================

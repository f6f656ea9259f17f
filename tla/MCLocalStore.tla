----------------------------- MODULE MCLocalStore -----------------------------
(***************************************************************************)
(* The commands on index and commits, and the calls of one save below      *)
(* them, which share no state here: a behaviour is one of either.          *)
(***************************************************************************)
EXTENDS LocalStore, IndexFile, TLC

VARIABLE part

allVars == <<part, vars, indexVars>>

MCInit == part \in {"commands", "calls"} /\ Init /\ IndexInit
Commands == part = "commands" /\ UNCHANGED <<part, indexVars>>
Calls == part = "calls" /\ UNCHANGED <<part, vars>>
MCNext == \/ Commands /\ Next
          \/ Calls /\ IndexNext
MCSpec == MCInit /\ [][MCNext]_allVars

\* Processes, files, contents and IDs of the commands are interchangeable.
Symmetry == Permutations(Process) \cup Permutations(File)
              \cup Permutations(Hash) \cup Permutations(CommitId)
===============================================================================

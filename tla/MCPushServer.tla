---------------------------- MODULE MCPushServer ----------------------------
(* PushServer with model values.  Slots and bodies are interchangeable; a   *)
(* project is not, since a mutated key may single one out.                  *)
EXTENDS PushServer, TLC

Symmetry == Permutations(Slot) \cup Permutations(Body)
=============================================================================

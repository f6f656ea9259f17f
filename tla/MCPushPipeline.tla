--------------------------- MODULE MCPushPipeline ---------------------------
(* PushPipeline with model values.  With two commits the first spans every  *)
(* project and the second shares one of them with it.                       *)
EXTENDS PushPipeline, TLC

MCRootsOf == [c \in Commit |-> IF c = 1 THEN Project ELSE {2}]
SlotSymmetry == Permutations(Slot)
=============================================================================

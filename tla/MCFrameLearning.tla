--------------------------- MODULE MCFrameLearning --------------------------
(* FrameLearning on small sets; posts and coordinators are alike. *)
EXTENDS FrameLearning, TLC

Alike == Permutations(Posts) \cup Permutations(Coords)
=============================================================================

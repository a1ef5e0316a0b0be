--------------------------- MODULE MCLevelIndex ---------------------------
(* Instances of the level index for TLC. *)
EXTENDS LevelIndex
=============================================================================

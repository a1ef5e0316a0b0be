--------------------------- MODULE MCMessageBlocks ---------------------------
(* Instances of the blocks for TLC. *)
EXTENDS MessageBlocks

\* Memory behind the map looks like a block with another key, or like one of the map's.
AnyStray == {[from |-> s, to |-> MaxSeq, kind |-> "new"] : s \in {1, MaxSeq}}
=============================================================================

------------------------- MODULE MCSelectableQueue -------------------------
(* An instance of the queue for TLC. *)
EXTENDS SelectableQueue
=============================================================================

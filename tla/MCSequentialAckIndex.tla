----------------------- MODULE MCSequentialAckIndex -----------------------
(* Instances of the sequential acknowledgement index for TLC. *)
EXTENDS SequentialAckIndex
=============================================================================

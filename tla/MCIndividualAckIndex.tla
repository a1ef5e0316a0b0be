----------------------- MODULE MCIndividualAckIndex -----------------------
(* Instances of the individual acknowledgement index for TLC. *)
EXTENDS IndividualAckIndex
=============================================================================

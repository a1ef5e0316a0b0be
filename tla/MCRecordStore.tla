---------------------------- MODULE MCRecordStore ----------------------------
(* Instances of the record store for TLC. *)
EXTENDS RecordReads

Plain == [size |-> 1, flags |-> {}]
Large == [size |-> 2, flags |-> {REMOTE}]
Committed == [size |-> 1, flags |-> {COMMIT}]

MixedRecords == {Plain, Large, Committed}
=============================================================================

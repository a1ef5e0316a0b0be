---------------------------- MODULE MCMemoryStore ----------------------------
(* Instances of the store in memory for TLC. *)
EXTENDS MemoryStore

SmallLocalLargeRemote == {[size |-> 1, attr |-> {}], [size |-> 2, attr |-> {REMOTE}]}
\* A call of either kind does not touch what the other kind uses, and both together are
\* too many states.
EitherKind == {{"marks"}, {"acks"}}
\* Consumers differ in their name only.
Consumers == Permutations(Names)
=============================================================================

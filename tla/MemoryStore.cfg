\* A small buffer that grows once, wraps and overflows; two consumers of all kinds.
SPECIFICATION Spec
CONSTANTS
  Base = 1
  Garbage = {0, 9}
  Names = {a, b}
  Records <- SmallLocalLargeRemote
  Capacity = 2
  MaxSize = 4
  MaxCount = 3
  MaxMarks = 2
  Focuses <- EitherKind
SYMMETRY Consumers
INVARIANTS
  TypeOK
  ReadsBack
  ReadsSkipNothing
  TrimmedWasAcked
  DeletedIsKept
  QueryFindsAll

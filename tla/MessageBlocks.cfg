\* Every way in and out of both containers, in any order.
SPECIFICATION Spec
CONSTANTS
  MaxSeq = 4
  Modulus = 16
  Kinds = {"new", "again"}
  Strays <- AnyStray
CHECK_DEADLOCK FALSE
INVARIANTS
  EachInOnePlace
  TotalsCover
  SequencesSplit

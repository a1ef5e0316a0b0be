\* getNextMatched over blocks that touch one another.
SPECIFICATION Spec
CONSTANTS
  MaxSeq = 4
  Modulus = 16
  Kinds = {"new"}
  Strays <- AnyStray
CHECK_DEADLOCK FALSE
INVARIANTS
  IteratorStaysValid

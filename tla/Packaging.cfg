\* All formats, pairs of parameters, every cut of the buffer.
SPECIFICATION Spec
CONSTANTS
  Cases <- MCCases
  Knows <- MCKnows
CHECK_DEADLOCK FALSE
INVARIANTS
  RoundTrip
  NeverWrong
  CutIsNoticed

\* A primary: the store is never behind its index.
SPECIFICATION Spec
CONSTANTS
  Base = 1
  MaxCount = 4
  MaxRestarts = 3
  AckAhead = FALSE
INVARIANTS
  TypeOK
  BlockIsTheTail
  MemoryMatchesFile
  HeaderHidesNothing
  FirstNonAckIsSafe
  AnswersFromFile
PROPERTY
  ImplementsLedger

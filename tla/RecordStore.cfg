\* A store that fits into one block of the index.
SPECIFICATION Spec
CONSTANTS
  Base = 1
  Records <- MixedRecords
  MaxFileSize = 2
  BlockSize = 4
  MaxCount = 3
  MaxFaults = 2
  MaxRoom = 4
CHECK_DEADLOCK FALSE
INVARIANTS
  TypeOK
  ReadsBack
  MarksAreKept
  CleanReopens
  ManyIsEach

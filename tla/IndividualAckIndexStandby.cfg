\* A standby: acknowledgements may arrive before the records.
SPECIFICATION Spec
CONSTANTS
  Base = 1
  MaxCount = 3
  MaxRestarts = 2
  AckAhead = TRUE
INVARIANT
  EarlyAckCounts

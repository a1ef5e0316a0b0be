\* Indexes of primaries and of standbys, durable or not.
SPECIFICATION Spec
CONSTANTS
  Base = 1
  Levels = {4, 9}
  MaxCount = 3
  MaxRestarts = 3
CHECK_DEADLOCK FALSE
INVARIANTS
  NoInventedAck
  AnswersAreExact
  FileIsTheIndex
PROPERTY
  NeverGoesBack

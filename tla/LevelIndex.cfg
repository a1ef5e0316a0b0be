\* A store from sequence 1, added to, restarted and added to again.
SPECIFICATION Spec
CONSTANTS
  Base = 1
  Levels = {0, 4, 9}
  MaxCount = 6
  MaxRestarts = 2
CHECK_DEADLOCK FALSE
INVARIANTS
  NothingLost
  NeverSkips
  CheckIsExact
  DefaultIsExact

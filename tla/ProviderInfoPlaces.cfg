\* After a restart with three clients a record is written in the wrong place.
SPECIFICATION Spec
CONSTANTS
  Clients = {"a", "b", "c"}
  Size <- MCSize
  Buffer = 8
  Sessions = {1}
  MaxMessages = 4
  MaxStarts = 3
CHECK_DEADLOCK FALSE
INVARIANT FileHasMap

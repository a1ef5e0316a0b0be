\* Three clients, two sessions, three starts.
SPECIFICATION Spec
CONSTANTS
  Clients = {"a", "b", "c"}
  Size <- MCSize
  Buffer = 4
  Sessions = {1, 2}
  MaxMessages = 2
  MaxStarts = 3
CHECK_DEADLOCK FALSE
INVARIANTS
  FileHasMapIfPlaced
  NothingForgotten
PROPERTY
  RebuildFindsLatest

\* Three threads that push in every way; the pipe can be full.
SPECIFICATION Spec
CONSTANTS
  Threads = {a, b, c}
  NoThread = NoThread
  BatchSizes = {1, 2}
  PipeCapacity = 2
  MaxItems = 3
  MaxNotifies = 2
CHECK_DEADLOCK FALSE
INVARIANTS
  TypeOK
  InOrder
  EveryItemHasAByte
PROPERTIES
  Delivery
  CallsReturn

CONSTANTS
  Clients = {"c1", "c2"}
  BufferSize = 3
  RequestSizes = {1, 2, 3, 5}
  MaxEvents = 2
SPECIFICATION Spec
INVARIANTS
  NoCommandIsLost
CHECK_DEADLOCK FALSE

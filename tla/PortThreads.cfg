CONSTANTS
  MaxFrames = 1
  MaxRequests = 2
  MaxScans = 1
  MaxExchanges = 2
  FlakyOpen = TRUE
  Detachable = TRUE
SPECIFICATION Spec
INVARIANTS TypeOK BacklogIsDropped
PROPERTY ServedInOrder

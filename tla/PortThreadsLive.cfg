CONSTANTS
  MaxFrames = 2
  MaxRequests = 1
  MaxScans = 0
  MaxExchanges = 1
  FlakyOpen = FALSE
  Detachable = TRUE
SPECIFICATION FairSpec
PROPERTIES LastFrameOnWire MainReturns RequestsServed

CONSTANTS
  MaxLength = 2
  MaxFrames = 3
SPECIFICATION FairSpec
INVARIANTS TypeOK SentSlotsReceived CompleteFrameSent
PROPERTIES OutputSpec LastFrameOnLine

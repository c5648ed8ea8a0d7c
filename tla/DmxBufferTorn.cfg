CONSTANTS
  MaxLength = 2
  MaxFrames = 2
SPECIFICATION Spec
INVARIANT WholeFrames

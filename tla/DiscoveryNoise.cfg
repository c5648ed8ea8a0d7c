CONSTANTS
  RDM_UID_MAX = 2
  Devices = {0, 2}
  Proxies = {}
  Behind = {}
  Lossy = TRUE
  Capture = TRUE
  Phantoms = TRUE
  Resets = TRUE
SPECIFICATION FairSpec
INVARIANT TableIsPublished
PROPERTIES TableSpec ScanEnds ScanAdvances Converges

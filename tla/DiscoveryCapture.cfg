CONSTANTS
  RDM_UID_MAX = 4
  Devices = {1, 3}
  Proxies = {}
  Behind = {}
  Lossy = FALSE
  Capture = TRUE
  Phantoms = FALSE
  Resets = FALSE
SPECIFICATION Spec
INVARIANT FullTOD

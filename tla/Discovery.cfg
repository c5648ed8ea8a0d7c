CONSTANTS
  RDM_UID_MAX = 4
  Devices = {3, 4}
  Proxies = {4}
  Behind = {1}
  Lossy = FALSE
  Capture = FALSE
  Phantoms = FALSE
  Resets = FALSE
SPECIFICATION Spec
INVARIANTS TypeOK BranchesInOrder ListsConsistent ScanFindsAll
PROPERTIES ReportsAreExact TableSpec

CONSTANTS
  Strings = {s1, s2}
  ARTNET_MAX_PORTS = 4
CHECK_DEADLOCK FALSE
SPECIFICATION Spec
INVARIANT EveryDeviceDriven

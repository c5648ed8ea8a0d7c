CONSTANTS
  Words = {1, 258, 65535}
  Lists = {0, 1, 2, 38}
  Lengths = {1, 231}
SPECIFICATION Spec
INVARIANTS TypeOK PacketRoundTrip DamageDetected BranchRoundTrip CollisionIsUnion ProxyListRead RequestPassedOn

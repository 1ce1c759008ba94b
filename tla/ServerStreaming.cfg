\* Three clients: the heartbeat cleans up after one while the next streams.
SPECIFICATION Spec
CONSTANTS
  a = a
  b = b
  c = c
  NoSession = NoSession
  Sessions = {a, b, c}
  AuthRequired = FALSE
  Sent <- Packets
  MaxRate = 0
SYMMETRY SessionSymmetry
PROPERTIES StreamingKeepsSlot

\* No password: two clients compete for the slot.
SPECIFICATION Spec
CONSTANTS
  a = a
  b = b
  c = c
  NoSession = NoSession
  Sessions = {a, b}
  AuthRequired = FALSE
  Sent <- Packets
  MaxRate = 1
SYMMETRY SessionSymmetry
INVARIANTS StateIsOwners NoUseAfterDestroy ClientKnowsRate

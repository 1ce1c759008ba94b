\* With a password, fair threads: two clients compete for the slot, and every
\* dead session is reclaimed.
SPECIFICATION FairSpec
CONSTANTS
  a = a
  b = b
  c = c
  NoSession = NoSession
  Sessions = {a, b}
  AuthRequired = TRUE
  Sent <- FewPackets
  MaxRate = 0
PROPERTIES DisplacedByProof DeadAreReclaimed

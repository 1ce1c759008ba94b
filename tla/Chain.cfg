\* Three blocks, added, removed, enabled and disabled in any order, and two
\* streams the chain is switched between.
SPECIFICATION Spec
CONSTANTS
  Blocks = {b1, b2, b3}
  Inputs = {vfo, dummy}
  NoBlock = NoBlock
INVARIANTS OnePath OneReader RemovedIsFree

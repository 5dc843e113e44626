\* Does every call return its result? Two overlapping calls of one account on a node that loses nothing.
SPECIFICATION FairSpec
CONSTANTS
  c1 = c1
  c2 = c2
  c3 = c3
  alice = alice
  bob = bob
  Calls = {c1, c2, c3}
  Signer <- TwoSigners
  After <- Overlapping
  Outcomes <- OneOutcome
  MaxBlocks = 3
  MaxReorgs = 0
  Faults = FALSE
  Pending = Pending
PROPERTY EveryCallReturns
CHECK_DEADLOCK FALSE

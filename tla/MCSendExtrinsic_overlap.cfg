\* Overlapping calls, two of them of one account, on a node that loses nothing.
SPECIFICATION FairSpec
CONSTANTS
  c1 = c1
  c2 = c2
  c3 = c3
  alice = alice
  bob = bob
  Calls = {c1, c2, c3}
  Signer <- TwoSigners
  After <- Overlapping
  Outcomes <- OneMayFail
  MaxBlocks = 4
  MaxReorgs = 1
  Faults = FALSE
  Pending = Pending
PROPERTY SettlesOrGivenUp
CHECK_DEADLOCK FALSE

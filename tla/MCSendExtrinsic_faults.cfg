\* Overlapping and awaited calls of one account, retracted blocks, lost transactions and connections.
SPECIFICATION Spec
CONSTANTS
  c1 = c1
  c2 = c2
  c3 = c3
  alice = alice
  bob = bob
  Calls = {c1, c2, c3}
  Signer <- OneSigner
  After <- Mixed
  Outcomes <- AnyOutcome
  MaxBlocks = 3
  MaxReorgs = 1
  Faults = TRUE
  Pending = Pending
INVARIANT TypeOK
INVARIANT ResolvedIsFinal
INVARIANT AwaitOrdersChain
INVARIANT AwaitedNonceIsUsed
INVARIANT FailureIsReported
PROPERTY ImplementsTxOutcome
CHECK_DEADLOCK FALSE

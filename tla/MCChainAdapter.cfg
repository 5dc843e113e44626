SPECIFICATION FairSpec
CONSTANTS
  shiden1 = shiden1
  shiden2 = shiden2
  turing = turing
  orphan = orphan
  shidenChain = shidenChain
  turingChain = turingChain
  i1 = i1
  i2 = i2
  i3 = i3
  i4 = i4
  i5 = i5
  i6 = i6
  Adapters = {shiden1, shiden2, turing, orphan}
  Chains = {shidenChain, turingChain}
  ChainOf <- MCChainOf
  HasApi = {shiden1, shiden2, turing}
  Astar = {shiden1, shiden2}
  Inits = {i1, i2, i3, i4, i5, i6}
  Target <- MCTarget
  Doubtful = {i1, i3, i4}
  Unset = Unset
INVARIANT TypeOK
INVARIANT ReadyWhenInitialized
INVARIANT ReadyWhenAwaited
PROPERTY ConfigIsKept
PROPERTY InitializeSettles
\* Every invocation settles, and then nothing is left to do.
CHECK_DEADLOCK FALSE

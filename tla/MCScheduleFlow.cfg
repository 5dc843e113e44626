SPECIFICATION Spec
CONSTANTS
  viaAstar = viaAstar
  viaMoonbeam = viaMoonbeam
  sovereign = sovereign
  turing = turing
  shiden = shiden
  Flows = {viaAstar, viaMoonbeam, sovereign}
  Kind <- MCKind
  Chains = {turing, shiden}
  Oak = turing
  Destination <- MCDestination
  CallerIsAstar = {viaAstar}
  Options <- MCOptions
  Unset = Unset
  InstructionWeight <- MCInstructionWeight
  Weights <- MCWeights
  Rates <- MCRates
  MaxUpgrades = 1
INVARIANT TypeOK
INVARIANT PaidMessagesExecute
PROPERTY ThrowsOnlyWhenUnready
\* Every flow ends, and upgrades are bounded.
CHECK_DEADLOCK FALSE

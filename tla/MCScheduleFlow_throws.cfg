SPECIFICATION Spec
CONSTANTS
  viaAstar = viaAstar
  viaMoonbeam = viaMoonbeam
  sovereign = sovereign
  turing = turing
  shiden = shiden
  Flows = {viaAstar, sovereign}
  Kind <- OtherKind
  Chains = {turing, shiden}
  Oak = turing
  Destination <- MCDestination
  CallerIsAstar = {viaAstar}
  Options <- OtherOptions
  Unset = Unset
  InstructionWeight <- MCInstructionWeight
  Weights <- MCWeights
  Rates <- MCRates
  MaxUpgrades = 0
INVARIANT SomeTaskIsBuilt
CHECK_DEADLOCK FALSE

\* One transfer of any kind beside another, and transfers that draw on the same funds.
SPECIFICATION Spec
CONSTANTS
  t1 = t1
  t2 = t2
  Transfers = {t1, t2}
  Workloads <- MCWorkloads
  Purse <- MCPurse
  Unset = Unset
INVARIANTS TypeOK TrappedOnlyByCaller RefusedOnlyForFunds
PROPERTIES ImplementsLedger
\* A transfer ends, and with the last one the system stops.
CHECK_DEADLOCK FALSE

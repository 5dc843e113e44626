SPECIFICATION Spec
CONSTANTS
  k1 = k1
  k2 = k2
  first = first
  second = second
  small = small
  auto = auto
  more = more
  amount = amount
  percentage = percentage
  Collators = {k1, k2}
  Delegates = {first, second, small}
  SetAutos = {auto}
  BondMores = {more}
  AmountReads = {amount}
  PercentageReads = {percentage}
  Undefined = Undefined
  Collator <- MCCollator
  Amount <- MCAmount
  Percentage <- MCPercentage
  After <- MCAfter
  Crowd <- MCCrowd
  Free = 2
  ExistentialDeposit = 1
  MinDelegation = 1
  MaxDelegationsPerDelegator = 2
  MaxMoves = 0
PROPERTY InsufficientIsRefused
CHECK_DEADLOCK FALSE

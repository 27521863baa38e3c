SPECIFICATION Spec
CONSTANTS
  F = F
  T = T
  U = U
  o = o
  Contracts = {F, T, U}
  Ops = {o}
  Events <- Split
  Garbled <- LastGarbled
  FirstTip = 2
  FirstLow <- AllKept
  FirstIngested = 0
  MaxLedger = 4
  MaxLow = 3
  ReplayIsDeeper = TRUE
  BatchCap = 2
  PageLimit = 2
  RetryBudget = 1
  MaxSpan = 1
  MaxInt = 6
  Starts = {1, 2, 4}
INVARIANTS
  TypeOK
  InChainOrder
PROPERTIES
  HonoursTrait
  BatchIsOneAnswer
CHECK_DEADLOCK FALSE

SPECIFICATION Spec
CONSTANTS
  F = F
  T = T
  U = U
  o = o
  p = p
  Contracts = {F, T, U}
  Ops = {o, p}
  Events <- SalesEvents
  Histories <- Sales
  Garbled = {}
  FirstTip = 1
  FirstLow <- AllKept
  FirstIngested = 0
  MaxLedger = 1
  MaxLow = 1
  ReplayIsDeeper = TRUE
  EvCap = 1
  CmdCap = 1
  Factory = F
  StartLedger = 1
  Token <- TokenOf
  Rewards = {}
  Custodial <- Fiat
  Total <- TotalOf
  Foreign = {p}
  Drafts = {p}
  Unregistered = {}
  Wide <- OutOfRange
  MaxDbFaults = 1
  MaxEvm = 1
  Abroad <- RowsAbroad
  MaxRereads = 1
INVARIANTS
  TypeOK
  ProgressCurrent
  StellarProgressCurrent
  StatusCurrent
  FinishedSoldOut
  HoldingsBacked
  HoldingsMatch
PROPERTIES
  ForeignStatusUntouched
CHECK_DEADLOCK FALSE

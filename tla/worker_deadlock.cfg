SPECIFICATION Spec
CONSTANTS
  F = F
  T = T
  U = U
  R = R
  o = o
  d = d
  Contracts = {F, T, U, R}
  Ops = {o}
  Events <- ManyCreations
  Garbled = {}
  FirstTip = 2
  FirstLow <- AllKept
  FirstIngested = 0
  MaxLedger = 2
  MaxLow = 1
  ReplayIsDeeper = TRUE
  BatchCap = 4
  MaxSpan = 2
  EvCap = 1
  CmdCap = 1
  Factory = F
  StartLedger = 1
  HubbleConfigured = FALSE
  BackfillConfigured = FALSE
  MaxFaults = 0
  Token <- TokenOf
  Rewards = {}
  Custodial = {}
  Total <- TotalOf
  Foreign = {}
  Drafts = {}
  Unregistered = {}
  Wide = {}
  MaxDbFaults = 0
  MaxEvm = 0
  Abroad = {}
  MaxCrashes = 0
PROPERTY
  Resubscribes
CHECK_DEADLOCK FALSE

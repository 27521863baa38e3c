SPECIFICATION Spec
CONSTANTS
  F = F
  T = T
  U = U
  o = o
  Contracts = {F, T, U}
  Ops = {o}
  Events <- TwoTokens
  Garbled = {}
  FirstTip = 2
  FirstLow <- LivePruned
  FirstIngested = 1
  MaxLedger = 2
  MaxLow = 2
  ReplayIsDeeper = TRUE
  BatchCap = 1
  MaxSpan = 1
  EvCap = 2
  CmdCap = 1
  Factory = F
  StartLedger = 1
  BootBlocks = {0}
  HubbleConfigured = TRUE
  BackfillConfigured = FALSE
  MaxFaults = 0
INVARIANT
  HashNamesOneEvent

SPECIFICATION Spec
CONSTANTS
  F = F
  T = T
  U = U
  o = o
  Contracts = {F, T}
  Ops = {o}
  Events <- CreationBesideTransfer
  Garbled = {}
  FirstTip = 2
  FirstLow <- AllKept
  FirstIngested = 0
  MaxLedger = 4
  MaxLow = 4
  ReplayIsDeeper = TRUE
  BatchCap = 1
  MaxSpan = 1
  EvCap = 1
  CmdCap = 1
  Factory = F
  StartLedger = 1
  BootBlocks = {0}
  HubbleConfigured = FALSE
  BackfillConfigured = TRUE
  MaxFaults = 0
INVARIANT
  NoSilentGap

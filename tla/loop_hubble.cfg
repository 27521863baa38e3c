SPECIFICATION Spec
CONSTANTS
  F = F
  T = T
  U = U
  o = o
  Contracts = {F, T}
  Ops = {o}
  Events <- Quiet
  Garbled = {}
  FirstTip = 3
  FirstLow <- AllKept
  FirstIngested = 0
  MaxLedger = 4
  MaxLow = 3
  ReplayIsDeeper = TRUE
  BatchCap = 1
  MaxSpan = 1
  EvCap = 1
  CmdCap = 1
  Factory = F
  StartLedger = 1
  BootBlocks = {0}
  HubbleConfigured = TRUE
  BackfillConfigured = TRUE
  MaxFaults = 1
INVARIANTS
  NoSilentGap
  ArchivalSkipsNothing
PROPERTIES
  CatchUp

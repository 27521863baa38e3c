SPECIFICATION Spec
CONSTANTS
  F = F
  T = T
  U = U
  o = o
  Contracts = {F, T}
  Ops = {o}
  Events <- Creations
  Garbled <- LastGarbled
  FirstTip = 2
  FirstLow <- AllKept
  FirstIngested = 0
  MaxLedger = 5
  MaxLow = 4
  ReplayIsDeeper = TRUE
  BatchCap = 2
  MaxSpan = 1
  EvCap = 1
  CmdCap = 1
  Factory = F
  StartLedger = 1
  BootBlocks = {0, 1}
  HubbleConfigured = FALSE
  BackfillConfigured = TRUE
  MaxFaults = 1
INVARIANTS
  TypeOK
  NoSilentGap
  NoRefusedRetry
  NothingHandledTwice
PROPERTIES
  SkippedUnreachable
  CursorMonotonic

SPECIFICATION Spec
CONSTANTS
  F = F
  T = T
  o = o
  Contracts = {F, T}
  Ops = {o}
  Events <- History
  Garbled <- Unserialised
  FirstTip = 8
  FirstLow <- AllKept
  FirstIngested = 5
  MaxLedger = 10
  MaxLow = 1
  ReplayIsDeeper = TRUE
  MaxSpan = 3
  MaxInt = 30
  MaxDrift = 4
  OtherTip <- Strangers
  Starts = {4, 5, 6, 8}
  SlowQueries = TRUE
INVARIANT
  ReadWhatItPasses
CHECK_DEADLOCK FALSE

SPECIFICATION Spec
CONSTANTS
  F = F
  T = T
  U = U
  R = R
  o = o
  d = d
  Contracts = {F, T, U, R}
  Ops = {o, d}
  Events <- LifeAndDraft
  Garbled = {}
  FirstTip = 5
  FirstLow <- KeptFromBoot
  FirstIngested = 0
  MaxLedger = 5
  MaxLow = 3
  ReplayIsDeeper = TRUE
  BatchCap = 4
  MaxSpan = 2
  EvCap = 1
  CmdCap = 1
  Factory = F
  StartLedger = 1
  HubbleConfigured = FALSE
  BackfillConfigured = FALSE
  MaxFaults = 0
  Token <- TokenOf
  Rewards = {R}
  Custodial <- Fiats
  Total <- TotalOf
  Foreign = {}
  Drafts = {}
  Unregistered = {d}
  Wide = {}
  MaxDbFaults = 1
  MaxEvm = 0
  Abroad = {}
  MaxCrashes = 2
INVARIANTS
  TypeOK
  OnlyTornLedgersLose
  ObservedIsRecorded
  HeldOnce
PROPERTIES
  LivesAreIndexers
  DropsOnlyUnknown
  RecordedIsFollowed

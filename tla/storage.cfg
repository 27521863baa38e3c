SPECIFICATION StorageSpec
CONSTANTS
  alice = alice
  bob = bob
  wallet = wallet
  FactoryId = FactoryId
  TokenId = TokenId
  Users = {alice, bob, wallet}
  Wallet = wallet
  Factory = FactoryId
  Token = TokenId
  Production = TRUE
  UsdcAmounts = {9, 19}
  MaxEvents = 3
  Stellar = Stellar
  Evm = Evm
  call = call
  replay = replay
  sibling = sibling
  Deployments = {Stellar, Evm}
  Seeds <- Seeded
  Statements = {call, replay, sibling}
  DeploymentOf <- Records
  Others = {api, backend}
  api = api
  backend = backend
SYMMETRY Symmetry
INVARIANTS
  ACTypeOK
  BalancesRebuilt
  TradesTruncated
  HeldInCustody
  TypeOK
  OneOfEach
  RecordedWhenDone
PROPERTIES
  OnlyGrows
  ActsAtomically
CHECK_DEADLOCK FALSE

SPECIFICATION ACSpec
CONSTANTS
  alice = alice
  bob = bob
  wallet = wallet
  FactoryId = FactoryId
  TokenId = TokenId
  Users = {alice, bob, wallet}
  Wallet = wallet
  Factory = FactoryId
  Token = TokenId
  Production = TRUE
  UsdcAmounts = {9, 19}
  MaxEvents = 3
SYMMETRY Symmetry
INVARIANT
  WithdrawalsTruncated
CHECK_DEADLOCK FALSE

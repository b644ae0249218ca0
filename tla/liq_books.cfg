SPECIFICATION BooksSpec
CONSTANTS
  Admin = Admin
  Lending = Lending
  Vaults = Vaults
  User = User
  None = None
  Nobody = Nobody
  DefaultPubkey = None
  NoProtocol = Nobody
  GOVERNANCE_MS = Admin
  PROTOCOL_INIT_AUTH = Admin
  MAX_AUTH_COUNT = 1
  MAX_USER_CLASSES = 2
  EXCHANGE_PRICES_PRECISION = 4
  FOUR_DECIMALS = 4
  TWELVE_DECIMALS = 4
  EXCHANGE_PRICE_RATE_OUTPUT_DECIMALS = 16
  SECONDS_PER_YEAR = 2
  MAX_TOKEN_AMOUNT_CAP = 6
  U64_MAX = 64
  U16_MAX = 16
  X14 = 8
  X24 = 4
  DebtCeilingCap = 20
  MIN_OPERATE_AMOUNT = 1
  MAX_OPERATE = 8
  MAX_INPUT_AMOUNT_EXCESS = 1
  Accounts = {Admin}
  Protocols = {Lending, Vaults}
  Recipients = {User}
  Suppliers = {Lending, Vaults}
  Borrowers = {Vaults}
  Curve <- SteepCurve
  Fee = 1
  AuthUpdates <- NoArguments
  ClassUpdates <- NoArguments
  SupplyAmounts <- BooksAmounts
  BorrowAmounts <- BooksAmounts
  TransferAmounts <- BooksTransfers
  TransferTypes = {"DIRECT"}
  RateDataV1 <- BooksCurves
  RateDataV2 <- BooksKinkedCurves
  TokenConfigs <- BooksTokenConfigs
  UserSupplyConfigs <- ListingSupplyConfigs
  UserBorrowConfigs <- ListingBorrowConfigs
  WithdrawalLimits <- ListingWithdrawalLimits
  MaxTime = 2
  MaxVault = 4
INVARIANTS
  TypeOK
  TotalsMatchPositions
  CachedRateCurrent
PROPERTIES
  AccountsServed
  NothingRetroactive
  SolvencyKept

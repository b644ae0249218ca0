SPECIFICATION FlashloanSpec
CONSTANTS
  Admin = Admin
  Gov = Gov
  Flash = Flash
  Lending = Lending
  User = User
  None = None
  Nobody = Nobody
  DefaultPubkey = None
  NoProtocol = Nobody
  FLASHLOAN = Flash
  GOVERNANCE_MS = Admin
  PROTOCOL_INIT_AUTH = Admin
  MAX_AUTH_COUNT = 1
  MAX_USER_CLASSES = 2
  EXCHANGE_PRICES_PRECISION = 4
  FOUR_DECIMALS = 4
  TWELVE_DECIMALS = 4
  EXCHANGE_PRICE_RATE_OUTPUT_DECIMALS = 16
  SECONDS_PER_YEAR = 2
  MAX_TOKEN_AMOUNT_CAP = 64
  U64_MAX = 64
  U16_MAX = 16
  X14 = 8
  X24 = 4
  DebtCeilingCap = 64
  MIN_OPERATE_AMOUNT = 1
  MAX_OPERATE = 16
  MAX_INPUT_AMOUNT_EXCESS = 2
  MIN_FLASHLOAN_AMOUNT = 4
  FLASHLOAN_FEE_MAX = 1
  Accounts = {Admin}
  Protocols = {Flash, Lending}
  Recipients = {User}
  Curve <- OneKink
  Amounts = {1, 5}
  Transactions <- MCTransactions
  AuthUpdates <- NoArguments
  ClassUpdates <- NoArguments
  SupplyAmounts <- Deposits
  BorrowAmounts <- BorrowsBack
  TransferAmounts <- SmallTransfers
  TransferTypes = {"DIRECT"}
  RateDataV1 <- NoArguments
  RateDataV2 <- NoArguments
  TokenConfigs <- NoArguments
  UserSupplyConfigs <- NoArguments
  UserBorrowConfigs <- NoArguments
  WithdrawalLimits <- NoArguments
  MaxTime = 1
  MaxVault = 8
INVARIANTS
  TransactionsCloseLoans
  LoanRepaid
  PaybackAccepted
PROPERTIES
  TermsKept
  LoansKeepSolvency

SPECIFICATION Spec
CONSTANTS
  EXCHANGE_PRICES_PRECISION = 4
  EXCHANGE_PRICE_SCALE_FACTOR = 1000
  FOUR_DECIMALS = 4
  THREE_DECIMALS = 10
  SECONDS_PER_YEAR = 2
  BILLION = 4
  MAX_LIQUIDATION_PENALTY = 90
  MAX_FEE = 12
  supply_scale = 1
  borrow_scale = 2
  Amounts <- MCAmounts
  Liquidations <- MCLiquidations
  WithdrawalLimits = {0, 1}
  Settings <- MCSettings
  Magnifiers <- MCMagnifiers
  Factors = {40, 70}
  Limits = {70, 80}
  Gaps = {0, 30}
  Fees = {0, 12}
  SupplyGrowth = {1}
  BorrowGrowth = {0, 2}
  MaxTime = 3
  MaxSteps = 3
CHECK_DEADLOCK FALSE
INVARIANTS
  ConfigOrdered
PROPERTIES
  PricesNotRetroactive
  LedgersAgree
  RebalanceClosesGaps

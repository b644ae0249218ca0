SPECIFICATION Spec
CONSTANTS
  COEFFICIENT_SIZE = 14
  EXPONENT_MAX = 127
  DECIMALS = 64
  PRECISION = 16
  MIN_TICK <- MCMinTick
  MAX_TICK = 5
  ZERO_TICK_SCALED_RATIO = 16384
  TICK_SPACING = 125
  FOUR_DECIMALS = 100
  X30 = 10000
  ARRAYS = 2
  MAPS = 2
  TICKS_PER_MAP = 3
  EXCHANGE_PRICES_PRECISION = 10
  THREE_DECIMALS = 1000
  supply_ex_price = 11
  borrow_ex_price = 12
  collateral_factor = 500
  liquidation_threshold = 600
  liquidation_max_limit = 900
  liquidation_penalty = 1
  borrow_fee = 1
  RATE_PRECISION = 10000
  BILLION = 10000
  MIN_DEBT = 100
  MINIMUM_TICK_DEBT = 2
  MINIMUM_BRANCH_DEBT = 2
  U64_MAX = 30000
  MaxBranches = 3
  MaxTickIds = 3
  MAX_LIQUIDATION_ROUNDING_DIFF = 2
  MaxPositions = 2
  Prices = {32000, 17000, 13500}
  Amounts <- MCAmounts
  LiquidationAmounts = {1500, 9000}
  MaxSteps = 2
CHECK_DEADLOCK FALSE
INVARIANT OnlyDebtCanLeave

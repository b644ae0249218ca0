SPECIFICATION Spec
CONSTANTS
  EXCHANGE_PRICES_PRECISION = 4
  RETURN_PERCENT_PRECISION = 400
  MAX_RATE = 200
  SECONDS_PER_YEAR = 2
  Users = {"user"}
  Amounts = {1, 3}
  Limits = {2}
  Growth = {0, 1}
  RewardPlans <- Plans
  StartTvls = {0}
  StartDelays = {1}
  MaxTime = 4
  MaxSupply = 4
  MaxRaw = 5
  RewardHorizon = 3
CHECK_DEADLOCK FALSE
INVARIANT
  RateAlwaysDefined

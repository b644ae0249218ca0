--------------------------- MODULE LiquidityMath ---------------------------
(***************************************************************************)
(* The arithmetic of the liquidity layer: exchange prices, utilization,    *)
(* the borrow rate curve and revenue, as pure operators on a token reserve *)
(* and a rate model.  Reserves are records with the fields of the Rust     *)
(* struct TokenReserve that the arithmetic reads; a rate model is a record *)
(* with the fields of RateModel.                                           *)
(*                                                                         *)
(* The scaling constants are parameters: they are powers of ten too large  *)
(* for TLC's integers, and nothing below depends on their values.  Only    *)
(* the stored widths (u64, u16) are modelled: the u128 intermediate        *)
(* results overflow, and fail the instruction, far outside of the prices   *)
(* and utilizations a reserve can have.                                    *)
(***************************************************************************)
EXTENDS FixedPoint

CONSTANTS
  EXCHANGE_PRICES_PRECISION,  \* an exchange price of 1
  FOUR_DECIMALS,              \* 100% of a percentage
  TWELVE_DECIMALS,            \* precision of the slope of the rate curve
  EXCHANGE_PRICE_RATE_OUTPUT_DECIMALS,  \* precision of the supply yield ratio
  SECONDS_PER_YEAR,
  MAX_TOKEN_AMOUNT_CAP,
  U64_MAX, U16_MAX

ASSUME MathAssumption ==
  /\ EXCHANGE_PRICES_PRECISION \in Nat \ {0}
  /\ FOUR_DECIMALS \in Nat \ {0}
  /\ TWELVE_DECIMALS \in Nat \ {0}
  /\ EXCHANGE_PRICE_RATE_OUTPUT_DECIMALS \in Nat \ {0}
  /\ SECONDS_PER_YEAR \in Nat \ {0}
  /\ MAX_TOKEN_AMOUNT_CAP \in Nat
  /\ U64_MAX \in Nat /\ U16_MAX \in Nat
  /\ EXCHANGE_PRICES_PRECISION <= U64_MAX
  /\ FOUR_DECIMALS <= U16_MAX

Precision == EXCHANGE_PRICES_PRECISION
Percent == FOUR_DECIMALS
Output == EXCHANGE_PRICE_RATE_OUTPUT_DECIMALS

MAX_RATE == U16_MAX

-----------------------------------------------------------------------------
(* Exchange prices.                                                        *)

(* The smaller of the two amounts as a percentage of the larger one.       *)
WithInterestVsFreeRatio(with_interest, interest_free) ==
  IF with_interest = 0 /\ interest_free = 0 THEN 0
  ELSE (Least(with_interest, interest_free) * Percent)
         \div Greatest(with_interest, interest_free)

SupplyRatio(r) ==
  WithInterestVsFreeRatio(r.total_supply_with_interest, r.total_supply_interest_free)
BorrowRatio(r) ==
  WithInterestVsFreeRatio(r.total_borrow_with_interest, r.total_borrow_interest_free)

(* Utilization times (all lenders / lenders that receive yield).           *)
LenderYield(r) ==
  IF r.total_supply_with_interest < r.total_supply_interest_free
  THEN (r.last_utilization * (Output + (Output * Percent) \div SupplyRatio(r))) \div Percent
  ELSE (r.last_utilization * Output * (Percent + SupplyRatio(r))) \div (Percent * Percent)

(* The share of the borrowers that pays yield.                             *)
PayingBorrowers(r) ==
  LET part == (BorrowRatio(r) * Output) \div (Percent + BorrowRatio(r))
  IN  IF r.total_borrow_with_interest < r.total_borrow_interest_free
      THEN part ELSE Output - part

SupplyRate(r) ==
  LET ratio_supply_yield == (((LenderYield(r) * PayingBorrowers(r)) \div Output) * Percent) \div Output
  IN  r.borrow_rate * ratio_supply_yield * (Percent - r.fee_on_interest)

(* No yield is due to suppliers: none in interest mode, or so few of them  *)
(* beside the interest-free ones that the ratio rounds to zero.            *)
NoEarningSupply(r) ==
  \/ r.total_supply_with_interest = 0
  \/ r.total_supply_with_interest < r.total_supply_interest_free /\ SupplyRatio(r) = 0

(* calculate_exchange_prices at time now.                                  *)
CalculateExchangePrices(r, now) ==
  LET elapsed == now - r.last_update_timestamp
      idle == elapsed = 0 \/ r.borrow_rate = 0 \/ r.total_borrow_with_interest = 0
      sp == r.supply_exchange_price
      bp == r.borrow_exchange_price
  IN  [supply |-> IF idle \/ NoEarningSupply(r) THEN sp
                  ELSE sp + ((sp * SupplyRate(r) * elapsed) \div (SECONDS_PER_YEAR * Percent))
                              \div (Percent * Percent),
       borrow |-> IF idle THEN bp
                  ELSE bp + DivCeil(bp * r.borrow_rate * elapsed, SECONDS_PER_YEAR * Percent)]

-----------------------------------------------------------------------------
(* Totals and utilization at given exchange prices.                        *)

(* In units of 1 / EXCHANGE_PRICES_PRECISION of a token.                   *)
ScaledSupply(r, price) ==
  r.total_supply_with_interest * price + r.total_supply_interest_free * Precision
ScaledBorrow(r, price) ==
  r.total_borrow_with_interest * price + r.total_borrow_interest_free * Precision

CalcUtilization(r, prices) ==
  IF ScaledSupply(r, prices.supply) = 0 THEN 0
  ELSE (ScaledBorrow(r, prices.borrow) * Percent) \div ScaledSupply(r, prices.supply)

(* check_scaled_amount_overflow, which calc_utilization reaches only when  *)
(* there is supply, and which looks only at amounts that grow.             *)
ScaledAmountsFit(r, prices, supply_amount, borrow_amount) ==
  LET cap == MAX_TOKEN_AMOUNT_CAP * Precision
  IN  ScaledSupply(r, prices.supply) # 0 =>
        /\ supply_amount > 0 => ScaledSupply(r, prices.supply) <= cap
        /\ borrow_amount > 0 => ScaledBorrow(r, prices.borrow) <= cap

TotalSupplyCeil(r, price) ==
  r.total_supply_interest_free + DivCeil(r.total_supply_with_interest * price, Precision)
TotalBorrow(r, price) ==
  r.total_borrow_interest_free + (r.total_borrow_with_interest * price) \div Precision

(* What collect_revenue pays out when the vault holds balance.             *)
CalcRevenue(r, balance, now) ==
  LET prices == CalculateExchangePrices(r, now)
      supply == TotalSupplyCeil(r, prices.supply)
  IN  IF supply > 0
      THEN SaturatingSub(SaturatingSub(balance + TotalBorrow(r, prices.borrow),
                                       r.total_claim_amount),
                         supply)
      ELSE SaturatingSub(balance, r.total_claim_amount)

-----------------------------------------------------------------------------
(* The borrow rate curve.                                                  *)

(* The line through (x1, y1) and (x2, y2) at utilization.                  *)
GetRate(y1, y2, x1, x2, utilization) ==
  LET slope == DivTrunc((y2 - y1) * TWELVE_DECIMALS, x2 - x1)
      constant == y1 * TWELVE_DECIMALS - slope * x1
  IN  DivTrunc(slope * utilization + constant, TWELVE_DECIMALS)

CalcRateV1(m, utilization) ==
  IF utilization < m.kink1_utilization
  THEN GetRate(m.rate_at_zero, m.rate_at_kink1, 0, m.kink1_utilization, utilization)
  ELSE GetRate(m.rate_at_kink1, m.rate_at_max, m.kink1_utilization, Percent, utilization)

CalcRateV2(m, utilization) ==
  CASE utilization < m.kink1_utilization ->
         GetRate(m.rate_at_zero, m.rate_at_kink1, 0, m.kink1_utilization, utilization)
    [] utilization >= m.kink1_utilization /\ utilization < m.kink2_utilization ->
         GetRate(m.rate_at_kink1, m.rate_at_kink2,
                 m.kink1_utilization, m.kink2_utilization, utilization)
    [] OTHER ->
         GetRate(m.rate_at_kink2, m.rate_at_max, m.kink2_utilization, Percent, utilization)

RawRate(m, utilization) ==
  IF m.version = 1 THEN CalcRateV1(m, utilization) ELSE CalcRateV2(m, utilization)

(* An unknown version and a negative rate are errors.                      *)
RateDefined(m, utilization) == m.version \in {1, 2} /\ RawRate(m, utilization) >= 0

CalcBorrowRate(m, utilization) == Least(RawRate(m, utilization), MAX_RATE)
=============================================================================

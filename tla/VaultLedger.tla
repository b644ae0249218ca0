---------------------------- MODULE VaultLedger ----------------------------
(***************************************************************************)
(* The books of one vault: its totals and exchange prices beside its own    *)
(* supply and borrow position in the liquidity layer, under the             *)
(* instructions of users and liquidators, the rebalancer and the auths      *)
(* (vaults/src/module/user.rs and admin.rs, state/vault_state.rs).          *)
(*                                                                         *)
(* Which position an operate is about and how much a liquidation takes is   *)
(* the subject of Vault; here they are any amounts the totals allow.        *)
(* The vault counts in units of nine decimals: a token with less is scaled. *)
(* The prices of the layer rise with time; a call into the layer is part    *)
(* of the instruction that makes it.                                        *)
(***************************************************************************)
EXTENDS FixedPoint

CONSTANTS
  EXCHANGE_PRICES_PRECISION, EXCHANGE_PRICE_SCALE_FACTOR,
  FOUR_DECIMALS, THREE_DECIMALS, SECONDS_PER_YEAR, BILLION,
  MAX_LIQUIDATION_PENALTY, MAX_FEE,   \* 9970 and X10
  supply_scale, borrow_scale,         \* get_scale of the two tokens
  \* arguments explored
  Amounts,                            \* pairs <<new_col, new_debt>>
  Liquidations,                       \* pairs <<debt, col>>, raw
  WithdrawalLimits,                   \* what the layer's limit may be
  Settings,                           \* whole configurations
  Magnifiers, Factors, Limits, Gaps, Fees,
  SupplyGrowth, BorrowGrowth,         \* of the layer's prices in a second
  MaxTime, MaxSteps                   \* bounds

Precision == EXCHANGE_PRICES_PRECISION
ALL == -(2 ^ 30)   \* i128::MIN

VaultConfig ==
  [supply_rate_magnifier : Int, borrow_rate_magnifier : Int, collateral_factor : Nat,
   liquidation_threshold : Nat, liquidation_max_limit : Nat, withdraw_gap : Nat,
   liquidation_penalty : Nat, borrow_fee : Nat]

ASSUME LedgerAssumption ==
  /\ {EXCHANGE_PRICES_PRECISION, EXCHANGE_PRICE_SCALE_FACTOR, FOUR_DECIMALS, THREE_DECIMALS,
      SECONDS_PER_YEAR, BILLION, supply_scale, borrow_scale} \subseteq Nat \ {0}
  /\ {MAX_LIQUIDATION_PENALTY, MAX_FEE, MaxTime, MaxSteps} \subseteq Nat
  /\ Amounts \subseteq Int \X Int /\ Liquidations \subseteq Nat \X Nat
  /\ Settings \subseteq VaultConfig /\ Magnifiers \subseteq Int
  /\ WithdrawalLimits \union Factors \union Limits \union Gaps \union Fees \subseteq Nat
  /\ SupplyGrowth \union BorrowGrowth \subseteq Nat

VARIABLES
  now,
  supply_price, borrow_price,   \* exchange prices of the layer, accrued to now
  held, owed,                   \* raw amounts of the vault's positions in the layer
  config,                       \* VaultConfig
  prices,                       \* exchange prices and time stored in VaultState
  total_supply, total_borrow,   \* VaultState, raw
  steps

layerVars == <<supply_price, borrow_price, held, owed>>
totals == <<total_supply, total_borrow>>
vars == <<now, supply_price, borrow_price, held, owed, config, prices, total_supply,
          total_borrow, steps>>

-----------------------------------------------------------------------------
(* Configuration (init_vault_config, update_core_settings)                  *)

InForce(c) ==
  [c EXCEPT !.collateral_factor = @ \div 10, !.liquidation_threshold = @ \div 10,
            !.liquidation_max_limit = @ \div 10, !.withdraw_gap = @ \div 10]

\* check_liquidation_max_limit_and_penalty.
PenaltyFits(liquidation_max_limit, penalty) ==
  liquidation_max_limit + penalty <= MAX_LIQUIDATION_PENALTY

SettingsAllowed(c) ==
  /\ PenaltyFits(c.liquidation_max_limit, c.liquidation_penalty)
  /\ {c.supply_rate_magnifier, c.borrow_rate_magnifier} \subseteq -FOUR_DECIMALS .. FOUR_DECIMALS
  /\ InForce(c).collateral_factor < InForce(c).liquidation_threshold
  /\ InForce(c).liquidation_threshold < InForce(c).liquidation_max_limit
  /\ InForce(c).withdraw_gap <= THREE_DECIMALS
  /\ c.liquidation_penalty <= MAX_FEE /\ c.borrow_fee <= MAX_FEE

Init ==
  /\ now = 1 /\ steps = 0
  /\ supply_price \in {Precision + g : g \in SupplyGrowth}
  /\ borrow_price \in {Precision + g : g \in BorrowGrowth}
  /\ held = 0 /\ owed = 0
  /\ \E c \in Settings : SettingsAllowed(c) /\ config = InForce(c)
  /\ prices = [liquidity_supply |-> supply_price, liquidity_borrow |-> borrow_price,
               vault_supply |-> Precision, vault_borrow |-> Precision, last_update |-> now]
  /\ total_supply = 0 /\ total_borrow = 0

-----------------------------------------------------------------------------
(* load_exchange_prices: the vault's prices grow as the layer's, and by the *)
(* magnifiers for the time since the last update.                           *)

Increase(price, old) == (price * EXCHANGE_PRICE_SCALE_FACTOR) \div old

RateChange(price, magnifier) ==
  LET change(rate) ==
        ((price * (now - prices.last_update) * rate) \div FOUR_DECIMALS) \div SECONDS_PER_YEAR
  IN  IF magnifier >= 0 THEN change(magnifier) ELSE -change(-magnifier)

SupplyPrice ==
  (prices.vault_supply * Increase(supply_price, prices.liquidity_supply))
      \div EXCHANGE_PRICE_SCALE_FACTOR
    + RateChange(prices.vault_supply, config.supply_rate_magnifier)
BorrowPrice ==
  DivCeil(prices.vault_borrow * Increase(borrow_price, prices.liquidity_borrow),
          EXCHANGE_PRICE_SCALE_FACTOR)
    + RateChange(prices.vault_borrow, config.borrow_rate_magnifier)

PricesDefined ==
  /\ supply_price >= prices.liquidity_supply /\ borrow_price >= prices.liquidity_borrow
  /\ SupplyPrice >= 0 /\ BorrowPrice >= 0

UpdateExchangePrices ==
  /\ PricesDefined
  /\ \E sp \in {SupplyPrice}, bp \in {BorrowPrice} :
       prices' = [liquidity_supply |-> supply_price, liquidity_borrow |-> borrow_price,
                  vault_supply |-> sp, vault_borrow |-> bp, last_update |-> now]

-----------------------------------------------------------------------------
(* The four calls into the layer, in tokens: it rounds down what it gets    *)
(* and up what it gives, and refuses what rounds to nothing.                *)

Deposits(amount) ==
  /\ (amount * Precision) \div supply_price # 0
  /\ held' = held + (amount * Precision) \div supply_price

Withdraws(amount) ==
  /\ DivCeil(amount * Precision, supply_price) \in 1 .. held
  /\ held' = held - DivCeil(amount * Precision, supply_price)
Borrows(amount) ==
  /\ amount # 0
  /\ owed' = owed + DivCeil(amount * Precision, borrow_price)
PaysBack(amount) ==
  /\ (amount * Precision) \div borrow_price \in 1 .. owed
  /\ owed' = owed - (amount * Precision) \div borrow_price

-----------------------------------------------------------------------------
(* operate: a position with collateral col and debt debt, both raw          *)

\* get_new_position_info.
WithFee(raw) == raw + DivCeil(raw * config.borrow_fee, FOUR_DECIMALS)

NewCollateral(col, amount, price) ==
  CASE amount = ALL -> 0
    [] amount >= 0 -> col + (amount * Precision) \div price
    [] OTHER -> col - DivCeil(-amount * Precision, price)
NewDebt(debt, amount, price) ==
  CASE amount = ALL -> 0
    [] amount = 0 -> debt
    [] amount > 0 -> debt + WithFee(DivCeil(amount * Precision, price))
    [] OTHER -> debt - ((-amount * Precision) \div price - 1)

\* What the caller moves in tokens, scaled.
CollateralMoved(col, amount, price) ==
  IF amount = ALL THEN 1 - (col * price) \div Precision ELSE amount
DebtMoved(debt, amount, price) ==
  IF amount = ALL THEN -DivCeil(debt * price, Precision) ELSE amount

\* get_scaled_debt: what is left as debt grows by a billionth, at every touch.
Scaled(debt) == IF debt = 0 THEN 0 ELSE (debt * (BILLION + 1)) \div BILLION + 1

\* check_if_withdrawal_safe_for_withdrawal_gap: a part of what the layer lets
\* the vault withdraw is kept for liquidations.
GapKept(amount, limit) ==
  config.withdraw_gap # 0 /\ limit # 0 =>
    SaturatingSub((held * (THREE_DECIMALS - config.withdraw_gap)) \div THREE_DECIMALS, limit)
      >= (amount * Precision) \div supply_price

\* Mutant: what is paid in is not one more than what is accounted.
MoveExactly(col_moved, debt_moved) ==
  LET col  == DivTrunc(col_moved, supply_scale)
      debt == DivTrunc(debt_moved, borrow_scale)
  IN  /\ CASE col > 0 -> Deposits(col)
           [] col < 0 -> Withdraws(-col) /\ \E limit \in WithdrawalLimits : GapKept(-col, limit)
           [] OTHER -> UNCHANGED held
      /\ CASE debt > 0 -> Borrows(debt)
           [] debt < 0 -> PaysBack(-debt)
           [] OTHER -> UNCHANGED owed

\* The calls of operate: one token more than accounted is deposited or paid
\* back, so that the layer has at least what the vault books.
Move(col_moved, debt_moved) ==
  LET col  == DivTrunc(col_moved, supply_scale)
      debt == DivTrunc(debt_moved, borrow_scale)
  IN  /\ CASE col > 0 -> Deposits(col + 1)
           [] col < 0 -> Withdraws(-col) /\ \E limit \in WithdrawalLimits : GapKept(-col, limit)
           [] OTHER -> UNCHANGED held
      /\ CASE debt > 0 -> Borrows(debt)
           [] debt < 0 -> PaysBack(1 - debt)
           [] OTHER -> UNCHANGED owed

Operate(col, debt, amount_col, amount_debt) ==
  LET new_col  == IF amount_col = ALL THEN ALL ELSE amount_col * supply_scale
      new_debt == IF amount_debt = ALL THEN ALL ELSE amount_debt * borrow_scale
  IN  /\ steps < MaxSteps /\ PricesDefined
      /\ \E sp \in {SupplyPrice}, bp \in {BorrowPrice} :
           /\ sp > 0 /\ bp > 0
           /\ NewCollateral(col, new_col, sp) >= 0
           /\ amount_debt < 0 /\ new_debt # ALL => (-new_debt * Precision) \div bp >= 1
           /\ NewDebt(debt, new_debt, bp) >= 0
           /\ CollateralMoved(col, new_col, sp) # 0 \/ DebtMoved(debt, new_debt, bp) # 0
           /\ Move(CollateralMoved(col, new_col, sp), DebtMoved(debt, new_debt, bp))
           /\ total_supply' = total_supply + NewCollateral(col, new_col, sp) - col
           /\ total_borrow' = total_borrow + Scaled(NewDebt(debt, new_debt, bp)) - debt
      /\ steps' = steps + 1
      /\ UNCHANGED <<now, supply_price, borrow_price, config, prices>>

-----------------------------------------------------------------------------
(* liquidate: debt and col, raw, leave the vault; what the liquidator pays  *)
(* is rounded up, what he gets is rounded down.  The debt is at most the    *)
(* raw value, rounded down, of what he asked to pay, so that it is never    *)
(* more than that again and get_actual_amounts has nothing to cut: see      *)
(* AmountsFit of VaultLiquidation.                                          *)

Paid(debt) == DivCeil(DivCeil(debt * BorrowPrice, Precision), borrow_scale)
Received(col) == ((col * SupplyPrice) \div Precision) \div supply_scale

Liquidate(debt, col) ==
  /\ steps < MaxSteps /\ PricesDefined
  /\ debt \in 1 .. total_borrow /\ col \in 1 .. total_supply
  /\ \E paid \in {Paid(debt)}, received \in {Received(col)} :
       paid > 0 /\ PaysBack(paid) /\ Withdraws(received)
  /\ total_supply' = total_supply - col
  /\ total_borrow' = total_borrow - debt
  /\ steps' = steps + 1
  /\ UNCHANGED <<now, supply_price, borrow_price, config, prices>>

-----------------------------------------------------------------------------
(* rebalance: the rebalancer pays what the positions lack and takes what    *)
(* they have too much, so that both books agree again.                      *)

\* Mutant: the books are compared at the prices of the last update.
StaleSupplyGap ==
  ((total_supply * prices.vault_supply) \div Precision) \div supply_scale
    - (held * supply_price) \div Precision

SupplyGap ==
  ((total_supply * SupplyPrice) \div Precision) \div supply_scale
    - (held * supply_price) \div Precision
BorrowGap ==
  ((total_borrow * BorrowPrice) \div Precision) \div borrow_scale
    - (owed * borrow_price) \div Precision

Rebalance ==
  /\ steps < MaxSteps /\ PricesDefined
  /\ \E supply \in {SupplyGap}, borrow \in {BorrowGap} :
       /\ supply # 0 \/ borrow # 0
       /\ CASE supply > 0 -> Deposits(supply)
            [] supply < 0 -> Withdraws(-supply)
            [] OTHER -> UNCHANGED held
       /\ CASE borrow > 0 -> Borrows(borrow)
            [] borrow < 0 -> PaysBack(-borrow)
            [] OTHER -> UNCHANGED owed
  /\ steps' = steps + 1
  /\ UNCHANGED <<now, supply_price, borrow_price, config, prices, totals>>

-----------------------------------------------------------------------------
(* The auths.  Whatever they change, the prices are brought up to date      *)
(* first; update_oracle, update_rebalancer and update_exchange_prices do    *)
(* no more than that to the books.                                          *)

\* Mutant: the prices are not brought up to date.
ConfigureOnly(new) ==
  /\ steps < MaxSteps /\ PricesDefined
  /\ config' = new
  /\ steps' = steps + 1
  /\ UNCHANGED <<now, layerVars, prices, totals>>

Configure(new) ==
  /\ steps < MaxSteps
  /\ UpdateExchangePrices
  /\ config' = new
  /\ steps' = steps + 1
  /\ UNCHANGED <<now, layerVars, totals>>

UpdatePrices == Configure(config)

UpdateSupplyRateMagnifier(m) ==
  m \in -FOUR_DECIMALS .. FOUR_DECIMALS /\ Configure([config EXCEPT !.supply_rate_magnifier = m])
UpdateBorrowRateMagnifier(m) ==
  m \in -FOUR_DECIMALS .. FOUR_DECIMALS /\ Configure([config EXCEPT !.borrow_rate_magnifier = m])

UpdateCollateralFactor(f) ==
  /\ f \div 10 < config.liquidation_threshold
  /\ Configure([config EXCEPT !.collateral_factor = f \div 10])

UpdateLiquidationThreshold(f) ==
  /\ config.collateral_factor < f \div 10 /\ f \div 10 < config.liquidation_max_limit
  /\ Configure([config EXCEPT !.liquidation_threshold = f \div 10])

UpdateLiquidationMaxLimit(f) ==
  /\ PenaltyFits(f, config.liquidation_penalty)
  /\ config.liquidation_threshold < f \div 10
  /\ Configure([config EXCEPT !.liquidation_max_limit = f \div 10])

UpdateWithdrawGap(g) ==
  g \div 10 <= THREE_DECIMALS /\ Configure([config EXCEPT !.withdraw_gap = g \div 10])

\* Mutant: the limit in force is not scaled back before the comparison.
UpdatePenaltyUnscaled(p) ==
  /\ PenaltyFits(config.liquidation_max_limit, p)
  /\ p <= MAX_FEE
  /\ Configure([config EXCEPT !.liquidation_penalty = p])

UpdateLiquidationPenalty(p) ==
  /\ PenaltyFits(config.liquidation_max_limit * 10, p)
  /\ p <= MAX_FEE
  /\ Configure([config EXCEPT !.liquidation_penalty = p])

UpdateBorrowFee(f) == f <= MAX_FEE /\ Configure([config EXCEPT !.borrow_fee = f])

UpdateCoreSettings(c) == SettingsAllowed(c) /\ Configure(InForce(c))

Tick ==
  /\ now < MaxTime
  /\ now' = now + 1
  /\ \E g \in SupplyGrowth : supply_price' = supply_price + g
  /\ \E g \in BorrowGrowth : borrow_price' = borrow_price + g
  /\ UNCHANGED <<held, owed, config, prices, totals, steps>>

-----------------------------------------------------------------------------
\* Bound: the position operated on is a new one, or has all of a total.
Users ==
  \/ \E col \in {0, total_supply}, debt \in {0, total_borrow}, amounts \in Amounts :
       Operate(col, debt, amounts[1], amounts[2])
  \/ \E amounts \in Liquidations : Liquidate(amounts[1], amounts[2])

Auths ==
  \/ UpdatePrices
  \/ \E m \in Magnifiers : UpdateSupplyRateMagnifier(m) \/ UpdateBorrowRateMagnifier(m)
  \/ \E f \in Factors : UpdateCollateralFactor(f) \/ UpdateLiquidationThreshold(f)
  \/ \E f \in Limits : UpdateLiquidationMaxLimit(f)
  \/ \E g \in Gaps : UpdateWithdrawGap(g)
  \/ \E f \in Fees : UpdateLiquidationPenalty(f) \/ UpdateBorrowFee(f)
  \/ \E c \in Settings : UpdateCoreSettings(c)

Next == Users \/ Rebalance \/ Auths \/ Tick

Spec == Init /\ [][Next]_vars

-----------------------------------------------------------------------------
(* Properties                                                               *)

\* Type invariant: nothing the books hold falls below zero.
LedgerTypeOK ==
  /\ now \in Nat /\ steps \in Nat
  /\ config \in VaultConfig
  /\ {held, owed, total_supply, total_borrow} \subseteq Nat
  /\ {supply_price, borrow_price} \subseteq Nat \ {0}
  /\ prices \in [liquidity_supply : Nat \ {0}, liquidity_borrow : Nat \ {0},
                 vault_supply : Nat, vault_borrow : Nat, last_update : 1 .. now]

\* Whatever the auths change, one value at a time or all at once and in
\* whatever order, a position is safe before it can be liquidated, liquidated
\* before it is absorbed, and the penalty fits above the highest limit, or a
\* liquidation would take more collateral than there is (admin.rs, where the
\* limits are given in one unit and kept in another).
ConfigOrdered ==
  /\ config.collateral_factor < config.liquidation_threshold
  /\ config.liquidation_threshold < config.liquidation_max_limit
  /\ config.liquidation_max_limit * 10 + config.liquidation_penalty <= MAX_LIQUIDATION_PENALTY

\* No instruction changes what a share of the vault is worth at its moment: a
\* new magnifier or an update of the prices does not touch the time that is
\* past (admin.rs, "Update exchange price first").
PricesNotRetroactive ==
  [][now' = now => SupplyPrice' = SupplyPrice /\ BorrowPrice' = BorrowPrice]_vars

\* What the vault has in the layer beyond its books, and what it is owed beyond
\* its debt there.
SupplySurplus == held * supply_price * supply_scale - total_supply * SupplyPrice
BorrowSurplus == total_borrow * BorrowPrice - owed * borrow_price * borrow_scale

\* An operation or a liquidation costs the vault less than one raw unit of its
\* position in the layer on either side, and a deposit one token less than that
\* (user.rs:342 and 349 round the calls up by one token): the roundings of
\* vault, scale and layer do not add up against the vault.
LedgersAgree ==
  [][Users =>
       /\ SupplySurplus' - SupplySurplus
            > (IF held' > held THEN Precision - supply_price ELSE -supply_price) * supply_scale
       /\ BorrowSurplus' - BorrowSurplus > -borrow_price * borrow_scale]_vars

\* After a rebalance the books of vault and layer differ by less than a token
\* and a raw unit, whichever of the four gaps was closed, over magnifiers, fees
\* and updates since (user.rs, rebalance).
RebalanceClosesGaps ==
  [][Rebalance =>
       /\ SupplySurplus' < (Precision + supply_price) * supply_scale
       /\ SupplySurplus' > -(Precision + supply_price) * supply_scale
       /\ BorrowSurplus' < (Precision + borrow_price) * borrow_scale
       /\ BorrowSurplus' > -(Precision + borrow_price) * borrow_scale]_vars
=============================================================================

------------------------- MODULE VaultLedgerProofs --------------------------
(***************************************************************************)
(* Proofs about the books of a vault, for every scale, every configuration *)
(* and every growth of the layer's prices.                                 *)
(***************************************************************************)
EXTENDS VaultLedger, TLAPS

-----------------------------------------------------------------------------
(* Division.                                                               *)

LEMMA Quotient ==
  ASSUME NEW a \in Nat, NEW b \in Nat \ {0}
  PROVE  a \div b \in Nat /\ b * (a \div b) <= a
OBVIOUS

LEMMA CeilQuotient ==
  ASSUME NEW a \in Nat, NEW b \in Nat \ {0}
  PROVE  DivCeil(a, b) \in Nat
<1>1. a + b - 1 \in Nat
  OBVIOUS
<1> QED BY <1>1, Quotient DEF DivCeil

(* A price scaled up and down again is the same, rounded either way.        *)
LEMMA ScaledBack ==
  ASSUME NEW a \in Nat, NEW b \in Nat \ {0}
  PROVE  (a * b) \div b = a /\ DivCeil(a * b, b) = a
<1>1. (a * b) \div b = a
  OBVIOUS
<1>2. (a * b + b - 1) \div b = a
  <2>1. a * b + b - 1 = b * a + (b - 1) /\ b - 1 \in 0 .. b - 1
    OBVIOUS
  <2> QED BY <2>1
<1> QED BY <1>1, <1>2 DEF DivCeil

LEMMA Truncated ==
  ASSUME NEW a \in Int, NEW b \in Nat \ {0}
  PROVE  DivTrunc(a, b) \in Int
<1>1. CASE a >= 0
  BY <1>1, Quotient DEF DivTrunc
<1>2. CASE a < 0
  <2>1. -a \in Nat
    BY <1>2
  <2>2. (-a) \div b \in Nat
    BY <2>1, Quotient
  <2> QED BY <1>2, <2>2 DEF DivTrunc
<1> QED BY <1>1, <1>2

LEMMA Positive ==
  /\ Precision \in Nat \ {0} /\ EXCHANGE_PRICE_SCALE_FACTOR \in Nat \ {0}
  /\ FOUR_DECIMALS \in Nat \ {0} /\ SECONDS_PER_YEAR \in Nat \ {0}
  /\ THREE_DECIMALS \in Nat \ {0} /\ BILLION \in Nat \ {0}
  /\ supply_scale \in Nat \ {0} /\ borrow_scale \in Nat \ {0}
BY LedgerAssumption DEF LedgerAssumption, Precision

-----------------------------------------------------------------------------
(* The exchange prices of the vault.                                       *)

LEMMA IncreaseNatural ==
  ASSUME NEW price \in Nat, NEW old \in Nat \ {0}
  PROVE  Increase(price, old) \in Nat
<1>1. price * EXCHANGE_PRICE_SCALE_FACTOR \in Nat
  BY Positive
<1> QED BY <1>1, Quotient DEF Increase

LEMMA RateChangeInteger ==
  ASSUME LedgerTypeOK, NEW price \in Nat, NEW magnifier \in Int
  PROVE  RateChange(price, magnifier) \in Int
<1> DEFINE change(rate) ==
      ((price * (now - prices.last_update) * rate) \div FOUR_DECIMALS) \div SECONDS_PER_YEAR
<1>1. now - prices.last_update \in Nat
  BY DEF LedgerTypeOK
<1>2. \A rate \in Nat : change(rate) \in Nat
  <2> TAKE rate \in Nat
  <2>1. price * (now - prices.last_update) \in Nat
    BY <1>1
  <2>2. price * (now - prices.last_update) * rate \in Nat
    BY <2>1
  <2>3. (price * (now - prices.last_update) * rate) \div FOUR_DECIMALS \in Nat
    BY <2>2, Quotient, Positive
  <2> QED BY <2>3, Quotient, Positive
<1> HIDE DEF change
<1>3. RateChange(price, magnifier) = IF magnifier >= 0 THEN change(magnifier) ELSE -change(-magnifier)
  BY DEF RateChange, change
<1>4. CASE magnifier >= 0
  BY <1>2, <1>3, <1>4
<1>5. CASE magnifier < 0
  <2>1. -magnifier \in Nat
    BY <1>5
  <2> QED BY <1>2, <1>3, <1>5, <2>1
<1> QED BY <1>4, <1>5

LEMMA PricesInteger ==
  ASSUME LedgerTypeOK
  PROVE  SupplyPrice \in Int /\ BorrowPrice \in Int
<1>1. /\ supply_price \in Nat /\ prices.liquidity_supply \in Nat \ {0} /\ prices.vault_supply \in Nat
      /\ borrow_price \in Nat /\ prices.liquidity_borrow \in Nat \ {0} /\ prices.vault_borrow \in Nat
      /\ config.supply_rate_magnifier \in Int /\ config.borrow_rate_magnifier \in Int
  BY DEF LedgerTypeOK, VaultConfig
<1>2. /\ Increase(supply_price, prices.liquidity_supply) \in Nat
      /\ Increase(borrow_price, prices.liquidity_borrow) \in Nat
  BY <1>1, IncreaseNatural
<1>3. /\ prices.vault_supply * Increase(supply_price, prices.liquidity_supply) \in Nat
      /\ prices.vault_borrow * Increase(borrow_price, prices.liquidity_borrow) \in Nat
  BY <1>1, <1>2
<1>4. /\ (prices.vault_supply * Increase(supply_price, prices.liquidity_supply))
           \div EXCHANGE_PRICE_SCALE_FACTOR \in Nat
      /\ DivCeil(prices.vault_borrow * Increase(borrow_price, prices.liquidity_borrow),
                 EXCHANGE_PRICE_SCALE_FACTOR) \in Nat
  BY <1>3, Quotient, CeilQuotient, Positive
<1>5. /\ RateChange(prices.vault_supply, config.supply_rate_magnifier) \in Int
      /\ RateChange(prices.vault_borrow, config.borrow_rate_magnifier) \in Int
  BY <1>1, RateChangeInteger
<1> QED BY <1>4, <1>5 DEF SupplyPrice, BorrowPrice

(* Right after an update the prices are the ones it stored, whatever the    *)
(* magnifiers are now.                                                      *)
LEMMA StoredPricesHold ==
  ASSUME NEW c \in VaultConfig, LedgerTypeOK, UpdateExchangePrices, config' = c,
         now' = now, supply_price' = supply_price, borrow_price' = borrow_price
  PROVE  SupplyPrice' = SupplyPrice /\ BorrowPrice' = BorrowPrice
<1>1. PICK sp \in {SupplyPrice}, bp \in {BorrowPrice} :
        prices' = [liquidity_supply |-> supply_price, liquidity_borrow |-> borrow_price,
                   vault_supply |-> sp, vault_borrow |-> bp, last_update |-> now]
  BY DEF UpdateExchangePrices
<1>2. sp \in Nat /\ bp \in Nat
  BY PricesInteger DEF UpdateExchangePrices, PricesDefined
<1>3. /\ Increase(supply_price', prices'.liquidity_supply) = EXCHANGE_PRICE_SCALE_FACTOR
      /\ Increase(borrow_price', prices'.liquidity_borrow) = EXCHANGE_PRICE_SCALE_FACTOR
  <2>1. supply_price \in Nat \ {0} /\ borrow_price \in Nat \ {0}
    BY DEF LedgerTypeOK
  <2>2. /\ (supply_price * EXCHANGE_PRICE_SCALE_FACTOR) \div supply_price
             = EXCHANGE_PRICE_SCALE_FACTOR
        /\ (borrow_price * EXCHANGE_PRICE_SCALE_FACTOR) \div borrow_price
             = EXCHANGE_PRICE_SCALE_FACTOR
    BY <2>1, Positive
  <2> QED BY <1>1, <2>2 DEF Increase
<1>4. \A price \in Nat, m \in Int : RateChange(price, m)' = 0
  <2> TAKE price \in Nat, m \in Int
  <2>1. now' - prices'.last_update = 0
    BY <1>1 DEF LedgerTypeOK
  <2>2. \A rate \in Nat : ((price * 0 * rate) \div FOUR_DECIMALS) \div SECONDS_PER_YEAR = 0
    <3> TAKE rate \in Nat
    <3>1. price * 0 * rate = 0
      OBVIOUS
    <3>2. 0 \div FOUR_DECIMALS = 0 /\ 0 \div SECONDS_PER_YEAR = 0
      BY Positive
    <3> QED BY <3>1, <3>2
  <2>3. m >= 0 \/ -m \in Nat
    OBVIOUS
  <2> QED BY <2>1, <2>2, <2>3 DEF RateChange
<1>5. /\ (sp * EXCHANGE_PRICE_SCALE_FACTOR) \div EXCHANGE_PRICE_SCALE_FACTOR = sp
      /\ DivCeil(bp * EXCHANGE_PRICE_SCALE_FACTOR, EXCHANGE_PRICE_SCALE_FACTOR) = bp
  BY <1>2, Positive, ScaledBack
<1>6. c.supply_rate_magnifier \in Int /\ c.borrow_rate_magnifier \in Int
  BY DEF VaultConfig
<1>7. SupplyPrice' = sp
  BY <1>1, <1>2, <1>3, <1>4, <1>5, <1>6 DEF SupplyPrice
<1>8. BorrowPrice' = bp
  BY <1>1, <1>2, <1>3, <1>4, <1>5, <1>6 DEF BorrowPrice
<1> QED BY <1>7, <1>8

-----------------------------------------------------------------------------
(* Types.                                                                  *)

LEMMA DepositKeepsType ==
  ASSUME LedgerTypeOK, NEW amount \in Nat, Deposits(amount)
  PROVE  held' \in Nat
<1>1. amount * Precision \in Nat /\ supply_price \in Nat \ {0} /\ held \in Nat
  BY Positive DEF LedgerTypeOK
<1> QED BY <1>1, Quotient DEF Deposits

LEMMA WithdrawalKeepsType ==
  ASSUME LedgerTypeOK, NEW amount, Withdraws(amount)
  PROVE  held' \in Nat
BY DEF Withdraws, LedgerTypeOK

LEMMA BorrowKeepsType ==
  ASSUME LedgerTypeOK, NEW amount \in Nat, Borrows(amount)
  PROVE  owed' \in Nat
<1>1. amount * Precision \in Nat /\ borrow_price \in Nat \ {0} /\ owed \in Nat
  BY Positive DEF LedgerTypeOK
<1> QED BY <1>1, CeilQuotient DEF Borrows

LEMMA PaybackKeepsType ==
  ASSUME LedgerTypeOK, NEW amount, PaysBack(amount)
  PROVE  owed' \in Nat
BY DEF PaysBack, LedgerTypeOK

(* The calls of operate, whatever the caller moves.                        *)
LEMMA MoveKeepsType ==
  ASSUME LedgerTypeOK, NEW c \in Int, NEW d \in Int, Move(c, d)
  PROVE  held' \in Nat /\ owed' \in Nat
<1> DEFINE col  == DivTrunc(c, supply_scale)
           debt == DivTrunc(d, borrow_scale)
<1>1. col \in Int /\ debt \in Int
  BY Truncated, Positive
<1>2. /\ CASE col > 0 -> Deposits(col + 1)
           [] col < 0 -> Withdraws(-col) /\ \E limit \in WithdrawalLimits : GapKept(-col, limit)
           [] OTHER -> UNCHANGED held
      /\ CASE debt > 0 -> Borrows(debt)
           [] debt < 0 -> PaysBack(1 - debt)
           [] OTHER -> UNCHANGED owed
  BY DEF Move
<1> HIDE DEF col, debt
<1>3. held' \in Nat
  <2>1. CASE col > 0
    <3>1. col + 1 \in Nat
      BY <1>1, <2>1
    <3>2. Deposits(col + 1)
      BY <1>1, <1>2, <2>1
    <3> QED BY <3>1, <3>2, DepositKeepsType
  <2>2. CASE col < 0
    <3>1. Withdraws(-col)
      BY <1>1, <1>2, <2>2
    <3> QED BY <3>1, WithdrawalKeepsType
  <2>3. CASE col = 0
    BY <1>2, <2>3 DEF LedgerTypeOK
  <2> QED BY <1>1, <2>1, <2>2, <2>3
<1>4. owed' \in Nat
  <2>1. CASE debt > 0
    <3>1. debt \in Nat
      BY <1>1, <2>1
    <3> QED BY <1>2, <2>1, <3>1, BorrowKeepsType
  <2>2. CASE debt < 0
    <3>1. PaysBack(1 - debt)
      BY <1>1, <1>2, <2>2
    <3> QED BY <3>1, PaybackKeepsType
  <2>3. CASE debt = 0
    BY <1>2, <2>3 DEF LedgerTypeOK
  <2> QED BY <1>1, <2>1, <2>2, <2>3
<1> QED BY <1>3, <1>4

(* "Everything" is none of the amounts that are moved.                      *)
LEMMA AllNegative == ALL \in Int /\ ALL < 0
BY DEF ALL

LEMMA NewCollateralInteger ==
  ASSUME NEW col \in Nat, NEW amount \in Int, NEW price \in Nat \ {0}
  PROVE  /\ NewCollateral(col, amount, price) \in Int
         /\ CollateralMoved(col, amount, price) \in Int
<1>1. amount >= 0 => (amount * Precision) \div price \in Int
  <2>1. ASSUME amount >= 0 PROVE amount * Precision \in Nat
    BY <2>1, Positive
  <2> QED BY <2>1, Quotient
<1>2. amount < 0 => DivCeil(-amount * Precision, price) \in Int
  <2>1. ASSUME amount < 0 PROVE -amount * Precision \in Nat
    BY <2>1, Positive
  <2> QED BY <2>1, CeilQuotient
<1>3. (col * price) \div Precision \in Int
  <2>1. col * price \in Nat
    OBVIOUS
  <2> QED BY <2>1, Quotient, Positive
<1>4. NewCollateral(col, amount, price) \in Int
  <2>1. CASE amount = ALL
    BY <2>1, AllNegative DEF NewCollateral
  <2>2. CASE amount # ALL /\ amount >= 0
    BY <1>1, <2>2 DEF NewCollateral
  <2>3. CASE amount # ALL /\ amount < 0
    BY <1>2, <2>3 DEF NewCollateral
  <2> QED BY <2>1, <2>2, <2>3
<1> QED BY <1>3, <1>4 DEF CollateralMoved

LEMMA NewDebtInteger ==
  ASSUME LedgerTypeOK, NEW debt \in Nat, NEW amount \in Int, NEW price \in Nat \ {0}
  PROVE  /\ NewDebt(debt, amount, price) \in Int
         /\ DebtMoved(debt, amount, price) \in Int
<1>1. ASSUME amount > 0 PROVE WithFee(DivCeil(amount * Precision, price)) \in Int
  <2>1. amount * Precision \in Nat
    BY <1>1, Positive
  <2>2. DivCeil(amount * Precision, price) \in Nat
    BY <2>1, CeilQuotient
  <2>3. config.borrow_fee \in Nat
    BY DEF LedgerTypeOK, VaultConfig
  <2>4. DivCeil(amount * Precision, price) * config.borrow_fee \in Nat
    BY <2>2, <2>3
  <2>5. DivCeil(DivCeil(amount * Precision, price) * config.borrow_fee, FOUR_DECIMALS) \in Nat
    BY <2>4, CeilQuotient, Positive
  <2> QED BY <2>2, <2>5 DEF WithFee
<1>2. ASSUME amount < 0 PROVE (-amount * Precision) \div price \in Int
  <2>1. -amount * Precision \in Nat
    BY <1>2, Positive
  <2> QED BY <2>1, Quotient
<1>3. DivCeil(debt * price, Precision) \in Int
  <2>1. debt * price \in Nat
    OBVIOUS
  <2> QED BY <2>1, CeilQuotient, Positive
<1>4. NewDebt(debt, amount, price) \in Int
  <2>1. CASE amount = ALL
    BY <2>1, AllNegative DEF NewDebt
  <2>2. CASE amount # ALL /\ amount = 0
    BY <2>2 DEF NewDebt
  <2>3. CASE amount # ALL /\ amount > 0
    BY <1>1, <2>3 DEF NewDebt
  <2>4. CASE amount # ALL /\ amount < 0
    BY <1>2, <2>4 DEF NewDebt
  <2> QED BY <2>1, <2>2, <2>3, <2>4
<1> QED BY <1>3, <1>4 DEF DebtMoved

LEMMA ScaledGrows ==
  ASSUME NEW debt \in Nat
  PROVE  Scaled(debt) \in Nat
<1>1. debt * (BILLION + 1) \in Nat
  BY Positive
<1> QED BY <1>1, Quotient, Positive DEF Scaled

LEMMA OperateKeepsType ==
  ASSUME LedgerTypeOK, NEW col \in {0, total_supply}, NEW debt \in {0, total_borrow},
         NEW amounts \in Amounts, Operate(col, debt, amounts[1], amounts[2])
  PROVE  LedgerTypeOK'
<1> DEFINE new_col  == IF amounts[1] = ALL THEN ALL ELSE amounts[1] * supply_scale
           new_debt == IF amounts[2] = ALL THEN ALL ELSE amounts[2] * borrow_scale
<1>1. new_col \in Int /\ new_debt \in Int
  <2>1. amounts[1] \in Int /\ amounts[2] \in Int
    BY LedgerAssumption DEF LedgerAssumption
  <2>2. amounts[1] * supply_scale \in Int /\ amounts[2] * borrow_scale \in Int
    BY <2>1, Positive
  <2> QED BY <2>2, AllNegative
<1>2. PICK sp \in {SupplyPrice}, bp \in {BorrowPrice} :
        /\ sp > 0 /\ bp > 0
        /\ NewCollateral(col, new_col, sp) >= 0
        /\ NewDebt(debt, new_debt, bp) >= 0
        /\ Move(CollateralMoved(col, new_col, sp), DebtMoved(debt, new_debt, bp))
        /\ total_supply' = total_supply + NewCollateral(col, new_col, sp) - col
        /\ total_borrow' = total_borrow + Scaled(NewDebt(debt, new_debt, bp)) - debt
  BY DEF Operate
<1>3. sp \in Nat \ {0} /\ bp \in Nat \ {0}
  BY <1>2, PricesInteger
<1>4. col \in Nat /\ debt \in Nat /\ col <= total_supply /\ debt <= total_borrow
      /\ total_supply \in Nat /\ total_borrow \in Nat
  BY DEF LedgerTypeOK
<1> HIDE DEF new_col, new_debt
<1>5. /\ NewCollateral(col, new_col, sp) \in Nat
      /\ CollateralMoved(col, new_col, sp) \in Int
  <2>1. NewCollateral(col, new_col, sp) \in Int /\ CollateralMoved(col, new_col, sp) \in Int
    BY <1>1, <1>3, <1>4, NewCollateralInteger
  <2> QED BY <1>2, <2>1
<1>6. NewDebt(debt, new_debt, bp) \in Nat /\ DebtMoved(debt, new_debt, bp) \in Int
  <2>1. NewDebt(debt, new_debt, bp) \in Int /\ DebtMoved(debt, new_debt, bp) \in Int
    BY <1>1, <1>3, <1>4, NewDebtInteger
  <2> QED BY <1>2, <2>1
<1>7. held' \in Nat /\ owed' \in Nat
  BY <1>2, <1>5, <1>6, MoveKeepsType
<1>8. total_supply' \in Nat
  BY <1>2, <1>4, <1>5
<1>9. total_borrow' \in Nat
  BY <1>2, <1>4, <1>6, ScaledGrows
<1> QED BY <1>7, <1>8, <1>9 DEF Operate, LedgerTypeOK

LEMMA LiquidateKeepsType ==
  ASSUME LedgerTypeOK, NEW debt, NEW col, Liquidate(debt, col)
  PROVE  LedgerTypeOK'
<1>1. held' \in Nat /\ owed' \in Nat
  BY WithdrawalKeepsType, PaybackKeepsType DEF Liquidate
<1>2. total_supply' \in Nat /\ total_borrow' \in Nat
  BY DEF Liquidate, LedgerTypeOK
<1> QED BY <1>1, <1>2 DEF Liquidate, LedgerTypeOK

LEMMA GapsInteger ==
  ASSUME LedgerTypeOK, PricesDefined
  PROVE  SupplyGap \in Int /\ BorrowGap \in Int
<1>1. /\ total_supply * SupplyPrice \in Nat /\ total_borrow * BorrowPrice \in Nat
      /\ held * supply_price \in Nat /\ owed * borrow_price \in Nat
  <2>1. SupplyPrice \in Nat /\ BorrowPrice \in Nat
    BY PricesInteger DEF PricesDefined
  <2> QED BY <2>1 DEF LedgerTypeOK
<1>2. /\ (total_supply * SupplyPrice) \div Precision \in Nat
      /\ (total_borrow * BorrowPrice) \div Precision \in Nat
      /\ (held * supply_price) \div Precision \in Nat
      /\ (owed * borrow_price) \div Precision \in Nat
  BY <1>1, Quotient, Positive
<1>3. /\ ((total_supply * SupplyPrice) \div Precision) \div supply_scale \in Nat
      /\ ((total_borrow * BorrowPrice) \div Precision) \div borrow_scale \in Nat
  BY <1>2, Quotient, Positive
<1> QED BY <1>2, <1>3 DEF SupplyGap, BorrowGap

LEMMA RebalanceKeepsType ==
  ASSUME LedgerTypeOK, Rebalance
  PROVE  LedgerTypeOK'
<1>1. SupplyGap \in Int /\ BorrowGap \in Int
  BY GapsInteger DEF Rebalance
<1>2. PICK supply \in {SupplyGap}, borrow \in {BorrowGap} :
        /\ CASE supply > 0 -> Deposits(supply)
             [] supply < 0 -> Withdraws(-supply)
             [] OTHER -> UNCHANGED held
        /\ CASE borrow > 0 -> Borrows(borrow)
             [] borrow < 0 -> PaysBack(-borrow)
             [] OTHER -> UNCHANGED owed
  BY DEF Rebalance
<1>3. supply \in Int /\ borrow \in Int
  BY <1>1
<1>4. held' \in Nat
  <2>1. CASE supply > 0
    BY <1>2, <1>3, <2>1, DepositKeepsType
  <2>2. CASE supply < 0
    <3>1. Withdraws(-supply)
      BY <1>2, <1>3, <2>2
    <3> QED BY <3>1, WithdrawalKeepsType
  <2>3. CASE supply = 0
    BY <1>2, <2>3 DEF LedgerTypeOK
  <2> QED BY <1>3, <2>1, <2>2, <2>3
<1>5. owed' \in Nat
  <2>1. CASE borrow > 0
    BY <1>2, <1>3, <2>1, BorrowKeepsType
  <2>2. CASE borrow < 0
    <3>1. PaysBack(-borrow)
      BY <1>2, <1>3, <2>2
    <3> QED BY <3>1, PaybackKeepsType
  <2>3. CASE borrow = 0
    BY <1>2, <2>3 DEF LedgerTypeOK
  <2> QED BY <1>3, <2>1, <2>2, <2>3
<1> QED BY <1>4, <1>5 DEF Rebalance, LedgerTypeOK, totals

LEMMA ConfigureKeepsType ==
  ASSUME LedgerTypeOK, NEW c \in VaultConfig, Configure(c)
  PROVE  LedgerTypeOK'
<1>1. PICK sp \in {SupplyPrice}, bp \in {BorrowPrice} :
        prices' = [liquidity_supply |-> supply_price, liquidity_borrow |-> borrow_price,
                   vault_supply |-> sp, vault_borrow |-> bp, last_update |-> now]
  BY DEF Configure, UpdateExchangePrices
<1>2. sp \in Nat /\ bp \in Nat
  BY PricesInteger DEF Configure, UpdateExchangePrices, PricesDefined
<1>3. supply_price \in Nat \ {0} /\ borrow_price \in Nat \ {0} /\ now \in 1 .. now
  BY DEF LedgerTypeOK
<1>4. prices' \in [liquidity_supply : Nat \ {0}, liquidity_borrow : Nat \ {0},
                   vault_supply : Nat, vault_borrow : Nat, last_update : 1 .. now]
  BY <1>1, <1>2, <1>3
<1> QED BY <1>4 DEF Configure, LedgerTypeOK, layerVars, totals

-----------------------------------------------------------------------------
(* The auths.                                                              *)

LEMMA ValuesNatural ==
  /\ Magnifiers \subseteq Int /\ Settings \subseteq VaultConfig
  /\ Factors \subseteq Nat /\ Limits \subseteq Nat /\ Gaps \subseteq Nat /\ Fees \subseteq Nat
BY LedgerAssumption DEF LedgerAssumption

LEMMA Tenth ==
  ASSUME NEW a \in Nat
  PROVE  a \div 10 \in Nat /\ (a \div 10) * 10 <= a
OBVIOUS

(* A configuration that may be put in force is ordered once it is.          *)
LEMMA InForceOrdered ==
  ASSUME NEW c \in VaultConfig, SettingsAllowed(c)
  PROVE  /\ InForce(c) \in VaultConfig
         /\ InForce(c).collateral_factor < InForce(c).liquidation_threshold
         /\ InForce(c).liquidation_threshold < InForce(c).liquidation_max_limit
         /\ InForce(c).liquidation_max_limit * 10 + InForce(c).liquidation_penalty
              <= MAX_LIQUIDATION_PENALTY
<1>1. /\ c.collateral_factor \div 10 \in Nat /\ c.liquidation_threshold \div 10 \in Nat
      /\ c.liquidation_max_limit \div 10 \in Nat /\ c.withdraw_gap \div 10 \in Nat
      /\ (c.liquidation_max_limit \div 10) * 10 <= c.liquidation_max_limit
  BY Tenth DEF VaultConfig
<1>2. InForce(c) \in VaultConfig
  BY <1>1 DEF InForce, VaultConfig
<1>3. /\ InForce(c).liquidation_max_limit = c.liquidation_max_limit \div 10
      /\ InForce(c).liquidation_penalty = c.liquidation_penalty
  BY DEF InForce, VaultConfig
<1>4. InForce(c).liquidation_max_limit * 10 + InForce(c).liquidation_penalty
        <= MAX_LIQUIDATION_PENALTY
  <2>1. c.liquidation_max_limit \in Nat /\ c.liquidation_penalty \in Nat
    BY DEF VaultConfig
  <2>2. MAX_LIQUIDATION_PENALTY \in Nat
    BY LedgerAssumption DEF LedgerAssumption
  <2> QED BY <1>1, <1>3, <2>1, <2>2 DEF SettingsAllowed, PenaltyFits
<1> QED BY <1>2, <1>4 DEF SettingsAllowed

(* What an auth stores is one value in place of another, or all of them.    *)
Stored(c) ==
  /\ c \in VaultConfig
  /\ Configure(c)
  /\ c.collateral_factor < c.liquidation_threshold
  /\ c.liquidation_threshold < c.liquidation_max_limit
  /\ c.liquidation_max_limit * 10 + c.liquidation_penalty <= MAX_LIQUIDATION_PENALTY

LEMMA AuthsStore ==
  ASSUME LedgerTypeOK, ConfigOrdered, Auths
  PROVE  \E c \in VaultConfig : Stored(c)
<1>0. config \in VaultConfig
  BY DEF LedgerTypeOK
<1>1. CASE UpdatePrices
  BY <1>0, <1>1 DEF UpdatePrices, Stored, ConfigOrdered
<1>2. ASSUME NEW m \in Magnifiers, UpdateSupplyRateMagnifier(m)
      PROVE  \E c \in VaultConfig : Stored(c)
  <2> DEFINE c == [config EXCEPT !.supply_rate_magnifier = m]
  <2>1. c \in VaultConfig
    BY <1>0, ValuesNatural DEF VaultConfig
  <2>2. Stored(c)
    BY <1>0, <1>2, <2>1 DEF Stored, UpdateSupplyRateMagnifier, ConfigOrdered, VaultConfig
  <2> QED BY <2>1, <2>2
<1>3. ASSUME NEW m \in Magnifiers, UpdateBorrowRateMagnifier(m)
      PROVE  \E c \in VaultConfig : Stored(c)
  <2> DEFINE c == [config EXCEPT !.borrow_rate_magnifier = m]
  <2>1. c \in VaultConfig
    BY <1>0, ValuesNatural DEF VaultConfig
  <2>2. Stored(c)
    BY <1>0, <1>3, <2>1 DEF Stored, UpdateBorrowRateMagnifier, ConfigOrdered, VaultConfig
  <2> QED BY <2>1, <2>2
<1>4. ASSUME NEW f \in Factors, UpdateCollateralFactor(f)
      PROVE  \E c \in VaultConfig : Stored(c)
  <2> DEFINE c == [config EXCEPT !.collateral_factor = f \div 10]
  <2>1. f \div 10 \in Nat
    BY Tenth, ValuesNatural
  <2>2. c \in VaultConfig
    BY <1>0, <2>1 DEF VaultConfig
  <2>3. Stored(c)
    BY <1>0, <1>4, <2>2 DEF Stored, UpdateCollateralFactor, ConfigOrdered, VaultConfig
  <2> QED BY <2>2, <2>3
<1>5. ASSUME NEW f \in Factors, UpdateLiquidationThreshold(f)
      PROVE  \E c \in VaultConfig : Stored(c)
  <2> DEFINE c == [config EXCEPT !.liquidation_threshold = f \div 10]
  <2>1. f \div 10 \in Nat
    BY Tenth, ValuesNatural
  <2>2. c \in VaultConfig
    BY <1>0, <2>1 DEF VaultConfig
  <2>3. Stored(c)
    BY <1>0, <1>5, <2>2 DEF Stored, UpdateLiquidationThreshold, ConfigOrdered, VaultConfig
  <2> QED BY <2>2, <2>3
<1>6. ASSUME NEW f \in Limits, UpdateLiquidationMaxLimit(f)
      PROVE  \E c \in VaultConfig : Stored(c)
  <2> DEFINE c == [config EXCEPT !.liquidation_max_limit = f \div 10]
  <2>1. f \in Nat /\ f \div 10 \in Nat /\ (f \div 10) * 10 <= f
    BY Tenth, ValuesNatural
  <2>2. c \in VaultConfig
    BY <1>0, <2>1 DEF VaultConfig
  <2>3. (f \div 10) * 10 + config.liquidation_penalty <= MAX_LIQUIDATION_PENALTY
    <3>1. config.liquidation_penalty \in Nat /\ MAX_LIQUIDATION_PENALTY \in Nat
      BY <1>0, LedgerAssumption DEF LedgerAssumption, VaultConfig
    <3> QED BY <1>6, <2>1, <3>1 DEF UpdateLiquidationMaxLimit, PenaltyFits
  <2>4. Stored(c)
    BY <1>0, <1>6, <2>2, <2>3 DEF Stored, UpdateLiquidationMaxLimit, ConfigOrdered, VaultConfig
  <2> QED BY <2>2, <2>4
<1>7. ASSUME NEW g \in Gaps, UpdateWithdrawGap(g)
      PROVE  \E c \in VaultConfig : Stored(c)
  <2> DEFINE c == [config EXCEPT !.withdraw_gap = g \div 10]
  <2>1. g \div 10 \in Nat
    BY Tenth, ValuesNatural
  <2>2. c \in VaultConfig
    BY <1>0, <2>1 DEF VaultConfig
  <2>3. Stored(c)
    BY <1>0, <1>7, <2>2 DEF Stored, UpdateWithdrawGap, ConfigOrdered, VaultConfig
  <2> QED BY <2>2, <2>3
<1>8. ASSUME NEW p \in Fees, UpdateLiquidationPenalty(p)
      PROVE  \E c \in VaultConfig : Stored(c)
  <2> DEFINE c == [config EXCEPT !.liquidation_penalty = p]
  <2>1. c \in VaultConfig
    BY <1>0, ValuesNatural DEF VaultConfig
  <2>2. Stored(c)
    BY <1>0, <1>8, <2>1 DEF Stored, UpdateLiquidationPenalty, PenaltyFits, ConfigOrdered,
                            VaultConfig
  <2> QED BY <2>1, <2>2
<1>9. ASSUME NEW f \in Fees, UpdateBorrowFee(f)
      PROVE  \E c \in VaultConfig : Stored(c)
  <2> DEFINE c == [config EXCEPT !.borrow_fee = f]
  <2>1. c \in VaultConfig
    BY <1>0, ValuesNatural DEF VaultConfig
  <2>2. Stored(c)
    BY <1>0, <1>9, <2>1 DEF Stored, UpdateBorrowFee, ConfigOrdered, VaultConfig
  <2> QED BY <2>1, <2>2
<1>10. ASSUME NEW s \in Settings, UpdateCoreSettings(s)
       PROVE  \E c \in VaultConfig : Stored(c)
  <2>1. s \in VaultConfig
    BY ValuesNatural
  <2>2. Stored(InForce(s)) /\ InForce(s) \in VaultConfig
    BY <1>10, <2>1, InForceOrdered DEF Stored, UpdateCoreSettings
  <2> QED BY <2>2
<1> QED BY <1>1, <1>2, <1>3, <1>4, <1>5, <1>6, <1>7, <1>8, <1>9, <1>10 DEF Auths

-----------------------------------------------------------------------------
(* The theorems.                                                           *)

LedgerInv == LedgerTypeOK /\ ConfigOrdered

LEMMA InitInv == Init => LedgerInv
<1> SUFFICES ASSUME Init PROVE LedgerInv
  OBVIOUS
<1>1. PICK c \in Settings : SettingsAllowed(c) /\ config = InForce(c)
  BY DEF Init
<1>2. c \in VaultConfig
  BY ValuesNatural
<1>3. config \in VaultConfig /\ ConfigOrdered
  BY <1>1, <1>2, InForceOrdered DEF ConfigOrdered
<1>4. supply_price \in Nat \ {0} /\ borrow_price \in Nat \ {0}
  <2>1. \A g \in SupplyGrowth \union BorrowGrowth : Precision + g \in Nat \ {0}
    BY Positive, LedgerAssumption DEF LedgerAssumption
  <2> QED BY <2>1 DEF Init
<1> QED BY <1>3, <1>4, Positive DEF Init, LedgerInv, LedgerTypeOK

LEMMA TickInv ==
  ASSUME LedgerInv, Tick
  PROVE  LedgerInv'
<1>1. supply_price' \in Nat \ {0} /\ borrow_price' \in Nat \ {0}
  <2>1. \A g \in SupplyGrowth \union BorrowGrowth : g \in Nat
    BY LedgerAssumption DEF LedgerAssumption
  <2> QED BY <2>1 DEF Tick, LedgerInv, LedgerTypeOK
<1>2. now' \in Nat /\ prices.last_update \in 1 .. now'
  BY DEF Tick, LedgerInv, LedgerTypeOK
<1>3. prices' \in [liquidity_supply : Nat \ {0}, liquidity_borrow : Nat \ {0},
                   vault_supply : Nat, vault_borrow : Nat, last_update : 1 .. now']
  BY <1>2 DEF Tick, LedgerInv, LedgerTypeOK
<1> QED BY <1>1, <1>2, <1>3 DEF Tick, LedgerInv, LedgerTypeOK, ConfigOrdered, totals

LEMMA StepInv == LedgerInv /\ [Next]_vars => LedgerInv'
<1> SUFFICES ASSUME LedgerInv, [Next]_vars PROVE LedgerInv'
  OBVIOUS
<1>1. CASE Users
  <2>1. LedgerTypeOK'
    BY <1>1, OperateKeepsType, LiquidateKeepsType DEF Users, LedgerInv
  <2>2. config' = config
    BY <1>1 DEF Users, Operate, Liquidate
  <2> QED BY <2>1, <2>2 DEF LedgerInv, ConfigOrdered
<1>2. CASE Rebalance
  BY <1>2, RebalanceKeepsType DEF LedgerInv, Rebalance, ConfigOrdered
<1>3. CASE Auths
  <2>1. PICK c \in VaultConfig : Stored(c)
    BY <1>3, AuthsStore DEF LedgerInv
  <2>2. LedgerTypeOK'
    BY <2>1, ConfigureKeepsType DEF LedgerInv, Stored
  <2>3. config' = c
    BY <2>1 DEF Stored, Configure
  <2> QED BY <2>1, <2>2, <2>3 DEF LedgerInv, ConfigOrdered, Stored
<1>4. CASE Tick
  BY <1>4, TickInv
<1>5. CASE UNCHANGED vars
  BY <1>5 DEF vars, LedgerInv, LedgerTypeOK, ConfigOrdered
<1> QED BY <1>1, <1>2, <1>3, <1>4, <1>5 DEF Next

(* Nothing in the books of a vault falls below zero and every value stored  *)
(* is of its type (VaultState, VaultConfig, the positions in the layer).    *)
THEOREM LedgerTyped == Spec => []LedgerTypeOK
<1>1. LedgerInv => LedgerTypeOK
  BY DEF LedgerInv
<1> QED BY <1>1, InitInv, StepInv, PTL DEF Spec

(* Every configuration the auths can reach, one setter at a time or all at  *)
(* once, keeps its limits in order and its penalty above them (admin.rs).   *)
THEOREM LimitsOrdered == Spec => []ConfigOrdered
<1>1. LedgerInv => ConfigOrdered
  BY DEF LedgerInv
<1> QED BY <1>1, InitInv, StepInv, PTL DEF Spec

LEMMA StepNotRetroactive ==
  ASSUME LedgerInv, [Next]_vars, now' = now
  PROVE  SupplyPrice' = SupplyPrice /\ BorrowPrice' = BorrowPrice
<1>1. ASSUME UNCHANGED <<now, supply_price, borrow_price, config, prices>>
      PROVE  SupplyPrice' = SupplyPrice /\ BorrowPrice' = BorrowPrice
  BY <1>1 DEF SupplyPrice, BorrowPrice, Increase, RateChange
<1>2. CASE Users
  BY <1>1, <1>2 DEF Users, Operate, Liquidate
<1>3. CASE Rebalance
  BY <1>1, <1>3 DEF Rebalance
<1>4. CASE Auths
  <2>1. PICK c \in VaultConfig : Stored(c)
    BY <1>4, AuthsStore DEF LedgerInv
  <2> QED BY <2>1, StoredPricesHold DEF Stored, Configure, layerVars, LedgerInv
<1>5. CASE Tick
  BY <1>5 DEF Tick, LedgerInv, LedgerTypeOK
<1>6. CASE UNCHANGED vars
  BY <1>1, <1>6 DEF vars
<1> QED BY <1>2, <1>3, <1>4, <1>5, <1>6 DEF Next

(* No instruction changes what a raw unit of the vault is worth at its      *)
(* moment: magnifiers and price updates act on the time after them          *)
(* (vault_state.rs, load_exchange_prices and update_exchange_prices).       *)
THEOREM PricesContinuous == Spec => PricesNotRetroactive
<1>1. LedgerInv /\ [Next]_vars =>
        [now' = now => SupplyPrice' = SupplyPrice /\ BorrowPrice' = BorrowPrice]_vars
  BY StepNotRetroactive
<1> QED BY <1>1, InitInv, StepInv, PTL DEF Spec, PricesNotRetroactive

-----------------------------------------------------------------------------
(* What a call into the layer is worth.                                     *)

LEMMA QuotientBounds ==
  ASSUME NEW a \in Nat, NEW b \in Nat \ {0}
  PROVE  a \div b \in Nat /\ (a \div b) * b <= a /\ a < (a \div b) * b + b
OBVIOUS

LEMMA CeilBounds ==
  ASSUME NEW a \in Nat, NEW b \in Nat \ {0}
  PROVE  DivCeil(a, b) \in Nat /\ DivCeil(a, b) * b >= a /\ DivCeil(a, b) * b < a + b
<1> DEFINE q == DivCeil(a, b)
<1>1. a + b - 1 \in Nat
  OBVIOUS
<1>2. q \in Nat /\ q * b <= a + b - 1 /\ a + b - 1 < q * b + b
  BY <1>1, QuotientBounds DEF DivCeil
<1>3. q * b \in Nat
  BY <1>2
<1> HIDE DEF q
<1> QED BY <1>2, <1>3 DEF q

LEMMA ProductMonotonic ==
  ASSUME NEW a \in Int, NEW b \in Int, NEW c \in Nat, a <= b
  PROVE  a * c <= b * c
<1>1. b = a + (b - a) /\ b - a \in Nat
  OBVIOUS
<1>2. \A d \in Nat : (a + d) * c = a * c + d * c /\ d * c \in Nat
  OBVIOUS
<1>3. a * c \in Int
  OBVIOUS
<1> QED BY <1>1, <1>2, <1>3

LEMMA ProductStrict ==
  ASSUME NEW a \in Int, NEW b \in Int, NEW c \in Nat \ {0}, a < b
  PROVE  a * c < b * c
<1>1. (a + 1) * c <= b * c
  BY ProductMonotonic
<1>2. (a + 1) * c = a * c + c /\ a * c \in Int /\ b * c \in Int
  OBVIOUS
<1> QED BY <1>1, <1>2

-----------------------------------------------------------------------------
(* The rebalance: T is what the vault books, R what it has in the layer,    *)
(* both in units of P a token of scale c, A the tokens booked; the raw unit *)
(* is worth p.                                                              *)

LEMMA PaidNearly ==
  ASSUME NEW R \in Nat, NEW P \in Nat \ {0}, NEW p \in Nat \ {0}, NEW A \in Nat, A - R \div P > 0
  PROVE  LET q == ((A - R \div P) * P) \div p
             w == DivCeil((A - R \div P) * P, p)
         IN  /\ q \in Nat /\ A * P - p < R + q * p /\ R + q * p < A * P + P + p
             /\ w \in Nat /\ A * P - p < R + w * p /\ R + w * p < A * P + P + p
<1> DEFINE b == R \div P
           d == (A - b) * P
           q == d \div p
           w == DivCeil(d, p)
<1>1. b \in Nat /\ b * P <= R /\ R < b * P + P
  BY QuotientBounds
<1>2. A - b > 0
  OBVIOUS
<1> HIDE DEF b
<1>3. d \in Nat /\ d = A * P - b * P
  <2>1. A - b \in Nat
    BY <1>1, <1>2
  <2> QED BY <1>1, <2>1
<1> HIDE DEF d
<1>4. q \in Nat /\ q * p <= d /\ d < q * p + p
  BY <1>3, QuotientBounds
<1>5. w \in Nat /\ w * p >= d /\ w * p < d + p
  BY <1>3, CeilBounds
<1> HIDE DEF q, w
<1>6. A * P \in Nat /\ b * P \in Nat /\ q * p \in Nat /\ w * p \in Nat
  BY <1>1, <1>4, <1>5
<1>7. A * P - p < R + q * p /\ R + q * p < A * P + P + p
  BY <1>1, <1>3, <1>4, <1>6
<1>8. A * P - p < R + w * p /\ R + w * p < A * P + P + p
  BY <1>1, <1>3, <1>5, <1>6
<1> QED BY <1>4, <1>5, <1>7, <1>8 DEF q, w, d, b

LEMMA TakenNearly ==
  ASSUME NEW R \in Nat, NEW P \in Nat \ {0}, NEW p \in Nat \ {0}, NEW A \in Nat, A - R \div P < 0
  PROVE  LET q == ((-(A - R \div P)) * P) \div p
             w == DivCeil((-(A - R \div P)) * P, p)
         IN  /\ q \in Nat /\ A * P - p < R - q * p /\ R - q * p < A * P + P + p
             /\ w \in Nat /\ A * P - p < R - w * p /\ R - w * p < A * P + P + p
<1> DEFINE b == R \div P
           d == (-(A - b)) * P
           q == d \div p
           w == DivCeil(d, p)
<1>1. b \in Nat /\ b * P <= R /\ R < b * P + P
  BY QuotientBounds
<1>2. A - b < 0
  OBVIOUS
<1> HIDE DEF b
<1>3. d \in Nat /\ d = b * P - A * P
  <2>1. -(A - b) = b - A /\ b - A \in Nat
    BY <1>1, <1>2
  <2> QED BY <1>1, <2>1
<1> HIDE DEF d
<1>4. q \in Nat /\ q * p <= d /\ d < q * p + p
  BY <1>3, QuotientBounds
<1>5. w \in Nat /\ w * p >= d /\ w * p < d + p
  BY <1>3, CeilBounds
<1> HIDE DEF q, w
<1>6. A * P \in Nat /\ b * P \in Nat /\ q * p \in Nat /\ w * p \in Nat
  BY <1>1, <1>4, <1>5
<1>7. A * P - p < R - q * p /\ R - q * p < A * P + P + p
  BY <1>1, <1>3, <1>4, <1>6
<1>8. A * P - p < R - w * p /\ R - w * p < A * P + P + p
  BY <1>1, <1>3, <1>5, <1>6
<1> QED BY <1>4, <1>5, <1>7, <1>8 DEF q, w, d, b

LEMMA NoGap ==
  ASSUME NEW R \in Nat, NEW P \in Nat \ {0}, NEW p \in Nat \ {0}, NEW A \in Nat, A - R \div P = 0
  PROVE  A * P - p < R /\ R < A * P + P + p
<1>1. R \div P = A
  BY QuotientBounds
<1>2. A * P <= R /\ R < A * P + P
  BY <1>1, QuotientBounds
<1>3. A * P \in Nat
  OBVIOUS
<1> QED BY <1>2, <1>3

(* A position within a token and a raw unit of the tokens booked is, scaled, *)
(* that close to what is booked.                                            *)
LEMMA BooksClose ==
  ASSUME NEW T \in Nat, NEW R \in Int, NEW P \in Nat \ {0}, NEW p \in Nat \ {0},
         NEW c \in Nat \ {0},
         ((T \div P) \div c) * P - p < R, R < ((T \div P) \div c) * P + P + p
  PROVE  R * c - T < (P + p) * c /\ R * c - T > -(P + p) * c
<1> DEFINE a == T \div P
           A == a \div c
<1>1. a \in Nat /\ a * P <= T /\ T < a * P + P
  BY QuotientBounds
<1>2. A * P - p < R /\ R < A * P + P + p
  OBVIOUS
<1> HIDE DEF a
<1>3. A \in Nat /\ A * c <= a /\ a < A * c + c
  BY <1>1, QuotientBounds
<1> HIDE DEF A
<1>4. (A * c) * P <= T
  <2>1. (A * c) * P <= a * P
    <3>1. A * c \in Nat
      BY <1>3
    <3> QED BY <1>1, <1>3, <3>1, ProductMonotonic
  <2>2. (A * c) * P \in Nat /\ a * P \in Nat
    BY <1>1, <1>3
  <2> QED BY <1>1, <2>1, <2>2
<1>5. T < (A * c) * P + c * P
  <2>1. (a + 1) * P <= (A * c + c) * P
    <3>1. A * c \in Nat
      BY <1>3
    <3>2. a + 1 \in Nat /\ A * c + c \in Nat /\ a + 1 <= A * c + c
      BY <1>1, <1>3, <3>1
    <3> QED BY <3>2, ProductMonotonic
  <2>2. (a + 1) * P = a * P + P /\ (A * c + c) * P = (A * c) * P + c * P
    BY <1>1, <1>3
  <2>3. a * P \in Nat /\ (A * c) * P \in Nat /\ c * P \in Nat
    BY <1>1, <1>3
  <2> QED BY <1>1, <2>1, <2>2, <2>3
<1>6. (A * P - p) * c < R * c /\ R * c < (A * P + P + p) * c
  <2>1. A * P - p \in Int /\ A * P + P + p \in Int
    BY <1>3
  <2> QED BY <1>2, <2>1, ProductStrict
<1>7. /\ (A * P - p) * c = (A * c) * P - p * c
      /\ (A * P + P + p) * c = (A * c) * P + (P + p) * c
      /\ (P + p) * c = c * P + p * c
      /\ -(P + p) * c = -((P + p) * c)
  BY <1>3
<1>8. /\ (A * c) * P \in Nat /\ p * c \in Nat /\ c * P \in Nat /\ R * c \in Int
      /\ (P + p) * c \in Nat
  BY <1>3
<1> QED BY <1>4, <1>5, <1>6, <1>7, <1>8

LEMMA PricesNatural ==
  ASSUME LedgerTypeOK, PricesDefined
  PROVE  /\ SupplyPrice \in Nat /\ BorrowPrice \in Nat
         /\ total_supply * SupplyPrice \in Nat /\ total_borrow * BorrowPrice \in Nat
         /\ held * supply_price \in Nat /\ owed * borrow_price \in Nat
<1>1. SupplyPrice \in Nat /\ BorrowPrice \in Nat
  BY PricesInteger DEF PricesDefined
<1>2. /\ total_supply \in Nat /\ total_borrow \in Nat /\ held \in Nat /\ owed \in Nat
      /\ supply_price \in Nat /\ borrow_price \in Nat
  BY DEF LedgerTypeOK
<1>3. \A x, y \in Nat : x * y \in Nat
  OBVIOUS
<1> QED BY <1>1, <1>2, <1>3

SupplyBooked == ((total_supply * SupplyPrice) \div Precision) \div supply_scale
BorrowBooked == ((total_borrow * BorrowPrice) \div Precision) \div borrow_scale

LEMMA BookedNatural ==
  ASSUME LedgerTypeOK, PricesDefined
  PROVE  SupplyBooked \in Nat /\ BorrowBooked \in Nat
<1>1. /\ (total_supply * SupplyPrice) \div Precision \in Nat
      /\ (total_borrow * BorrowPrice) \div Precision \in Nat
  BY PricesNatural, Quotient, Positive
<1> QED BY <1>1, Quotient, Positive DEF SupplyBooked, BorrowBooked

(* What the calls of a rebalance make of the positions in the layer.        *)
LEMMA RebalancedSupply ==
  ASSUME LedgerTypeOK, Rebalance
  PROVE  /\ SupplyBooked * Precision - supply_price < held' * supply_price
         /\ held' * supply_price < SupplyBooked * Precision + Precision + supply_price
<1> DEFINE P == Precision
           p == supply_price
           h == held
           R == h * p
           A == SupplyBooked
           Near(x) == A * P - p < x /\ x < A * P + P + p
<1>1. P \in Nat \ {0} /\ p \in Nat \ {0} /\ h \in Nat /\ R \in Nat /\ A \in Nat
  BY Positive, PricesNatural, BookedNatural DEF LedgerTypeOK, Rebalance
<1>2. SupplyGap = A - R \div P
  BY DEF SupplyGap, SupplyBooked
<1> HIDE DEF A
<1>3. PICK g \in {A - R \div P} :
        CASE g > 0 -> Deposits(g) [] g < 0 -> Withdraws(-g) [] OTHER -> UNCHANGED held
  BY <1>2 DEF Rebalance
<1>4. g \in Int /\ g = A - R \div P
  BY <1>1, <1>3, Quotient
<1>5. ASSUME g > 0 PROVE Near(held' * p)
  <2> DEFINE q == (g * P) \div p
  <2>1. held' = h + q
    <3>1. Deposits(g)
      BY <1>3, <1>4, <1>5
    <3> QED BY <3>1 DEF Deposits
  <2>2. q \in Nat /\ A * P - p < R + q * p /\ R + q * p < A * P + P + p
    <3> HIDE DEF R, P, p
    <3> QED BY <1>1, <1>4, <1>5, PaidNearly
  <2> HIDE DEF q
  <2>3. held' * p = R + q * p
    <3>1. (h + q) * p = h * p + q * p
      BY <1>1, <2>2
    <3> QED BY <2>1, <3>1
  <2> QED BY <2>2, <2>3
<1>6. ASSUME g < 0 PROVE Near(held' * p)
  <2> DEFINE w == DivCeil((-g) * P, p)
  <2>1. held' = h - w
    <3>1. Withdraws(-g)
      BY <1>3, <1>4, <1>6
    <3> QED BY <3>1 DEF Withdraws
  <2>2. w \in Nat /\ A * P - p < R - w * p /\ R - w * p < A * P + P + p
    <3> HIDE DEF R, P, p
    <3> QED BY <1>1, <1>4, <1>6, TakenNearly
  <2> HIDE DEF w
  <2>3. held' * p = R - w * p
    <3>1. (h - w) * p = h * p - w * p
      BY <1>1, <2>2
    <3> QED BY <2>1, <3>1
  <2> QED BY <2>2, <2>3
<1>7. ASSUME g = 0 PROVE Near(held' * p)
  <2>1. held' = h
    BY <1>3, <1>7
  <2>2. A * P - p < R /\ R < A * P + P + p
    <3> HIDE DEF R, P, p
    <3> QED BY <1>1, <1>4, <1>7, NoGap
  <2> QED BY <2>1, <2>2
<1> QED BY <1>4, <1>5, <1>6, <1>7 DEF A, Near

LEMMA RebalancedBorrow ==
  ASSUME LedgerTypeOK, Rebalance
  PROVE  /\ BorrowBooked * Precision - borrow_price < owed' * borrow_price
         /\ owed' * borrow_price < BorrowBooked * Precision + Precision + borrow_price
<1> DEFINE P == Precision
           p == borrow_price
           h == owed
           R == h * p
           A == BorrowBooked
           Near(x) == A * P - p < x /\ x < A * P + P + p
<1>1. P \in Nat \ {0} /\ p \in Nat \ {0} /\ h \in Nat /\ R \in Nat /\ A \in Nat
  BY Positive, PricesNatural, BookedNatural DEF LedgerTypeOK, Rebalance
<1>2. BorrowGap = A - R \div P
  BY DEF BorrowGap, BorrowBooked
<1> HIDE DEF A
<1>3. PICK g \in {A - R \div P} :
        CASE g > 0 -> Borrows(g) [] g < 0 -> PaysBack(-g) [] OTHER -> UNCHANGED owed
  BY <1>2 DEF Rebalance
<1>4. g \in Int /\ g = A - R \div P
  BY <1>1, <1>3, Quotient
<1>5. ASSUME g > 0 PROVE Near(owed' * p)
  <2> DEFINE w == DivCeil(g * P, p)
  <2>1. owed' = h + w
    <3>1. Borrows(g)
      BY <1>3, <1>4, <1>5
    <3> QED BY <3>1 DEF Borrows
  <2>2. w \in Nat /\ A * P - p < R + w * p /\ R + w * p < A * P + P + p
    <3> HIDE DEF R, P, p
    <3> QED BY <1>1, <1>4, <1>5, PaidNearly
  <2> HIDE DEF w
  <2>3. owed' * p = R + w * p
    <3>1. (h + w) * p = h * p + w * p
      BY <1>1, <2>2
    <3> QED BY <2>1, <3>1
  <2> QED BY <2>2, <2>3
<1>6. ASSUME g < 0 PROVE Near(owed' * p)
  <2> DEFINE q == ((-g) * P) \div p
  <2>1. owed' = h - q
    <3>1. PaysBack(-g)
      BY <1>3, <1>4, <1>6
    <3> QED BY <3>1 DEF PaysBack
  <2>2. q \in Nat /\ A * P - p < R - q * p /\ R - q * p < A * P + P + p
    <3> HIDE DEF R, P, p
    <3> QED BY <1>1, <1>4, <1>6, TakenNearly
  <2> HIDE DEF q
  <2>3. owed' * p = R - q * p
    <3>1. (h - q) * p = h * p - q * p
      BY <1>1, <2>2
    <3> QED BY <2>1, <3>1
  <2> QED BY <2>2, <2>3
<1>7. ASSUME g = 0 PROVE Near(owed' * p)
  <2>1. owed' = h
    BY <1>3, <1>7
  <2>2. A * P - p < R /\ R < A * P + P + p
    <3> HIDE DEF R, P, p
    <3> QED BY <1>1, <1>4, <1>7, NoGap
  <2> QED BY <2>1, <2>2
<1> QED BY <1>4, <1>5, <1>6, <1>7 DEF A, Near

(* What user instructions and rebalances do not touch.                      *)
LEMMA SamePrices ==
  ASSUME Users \/ Rebalance
  PROVE  /\ UNCHANGED <<now, supply_price, borrow_price, config, prices>>
         /\ SupplyPrice' = SupplyPrice /\ BorrowPrice' = BorrowPrice
         /\ PricesDefined
<1>1. UNCHANGED <<now, supply_price, borrow_price, config, prices>> /\ PricesDefined
  BY DEF Users, Rebalance, Operate, Liquidate
<1> QED BY <1>1 DEF SupplyPrice, BorrowPrice, Increase, RateChange

(* A rebalance leaves the books of vault and layer within a token and a raw *)
(* unit of each other on both sides, whichever way they had drifted apart   *)
(* (user.rs, rebalance).                                                    *)
THEOREM GapsClosed == Spec => RebalanceClosesGaps
<1> DEFINE Closed ==
      Rebalance =>
        /\ SupplySurplus' < (Precision + supply_price) * supply_scale
        /\ SupplySurplus' > -(Precision + supply_price) * supply_scale
        /\ BorrowSurplus' < (Precision + borrow_price) * borrow_scale
        /\ BorrowSurplus' > -(Precision + borrow_price) * borrow_scale
<1>1. LedgerInv /\ [Next]_vars => [Closed]_vars
  <2> SUFFICES ASSUME LedgerInv, Rebalance PROVE Closed
    OBVIOUS
  <2>1. /\ LedgerTypeOK /\ UNCHANGED <<supply_price, borrow_price, total_supply, total_borrow>>
        /\ SupplyPrice' = SupplyPrice /\ BorrowPrice' = BorrowPrice /\ PricesDefined
    BY SamePrices DEF LedgerInv, Rebalance, totals
  <2>2. held' \in Nat /\ owed' \in Nat
    BY <2>1, RebalanceKeepsType DEF LedgerTypeOK
  <2>3. /\ total_supply * SupplyPrice \in Nat /\ total_borrow * BorrowPrice \in Nat
        /\ supply_price \in Nat \ {0} /\ borrow_price \in Nat \ {0}
    BY <2>1, PricesNatural DEF LedgerTypeOK
  <2>4. held' * supply_price \in Int /\ owed' * borrow_price \in Int
    <3>1. \A x, y \in Nat : x * y \in Int
      OBVIOUS
    <3> QED BY <2>2, <2>3, <3>1
  <2> DEFINE T == total_supply * SupplyPrice
             D == total_borrow * BorrowPrice
             H == held' * supply_price
             O == owed' * borrow_price
  <2>5. SupplySurplus' = H * supply_scale - T /\ BorrowSurplus' = D - O * borrow_scale
    BY <2>1 DEF SupplySurplus, BorrowSurplus
  <2>6. /\ ((T \div Precision) \div supply_scale) * Precision - supply_price < H
        /\ H < ((T \div Precision) \div supply_scale) * Precision + Precision + supply_price
    BY <2>1, RebalancedSupply DEF SupplyBooked
  <2>7. /\ ((D \div Precision) \div borrow_scale) * Precision - borrow_price < O
        /\ O < ((D \div Precision) \div borrow_scale) * Precision + Precision + borrow_price
    BY <2>1, RebalancedBorrow DEF BorrowBooked
  <2> HIDE DEF T, D, H, O
  <2>8. T \in Nat /\ D \in Nat /\ H \in Int /\ O \in Int
    BY <2>3, <2>4 DEF T, D, H, O
  <2>9. /\ H * supply_scale - T < (Precision + supply_price) * supply_scale
        /\ H * supply_scale - T > -(Precision + supply_price) * supply_scale
    BY <2>3, <2>6, <2>8, BooksClose, Positive
  <2>10. /\ O * borrow_scale - D < (Precision + borrow_price) * borrow_scale
         /\ O * borrow_scale - D > -(Precision + borrow_price) * borrow_scale
    BY <2>3, <2>7, <2>8, BooksClose, Positive
  <2>11. /\ D - O * borrow_scale < (Precision + borrow_price) * borrow_scale
         /\ D - O * borrow_scale > -(Precision + borrow_price) * borrow_scale
    <3> DEFINE x == O * borrow_scale
               y == (Precision + borrow_price) * borrow_scale
    <3>1. x \in Int /\ y \in Int /\ -(Precision + borrow_price) * borrow_scale = -y
      BY <2>3, <2>8, Positive
    <3>2. x - D < y /\ x - D > -y
      BY <2>10, <3>1
    <3> HIDE DEF x, y
    <3>3. D - x < y /\ D - x > -y
      BY <2>8, <3>1, <3>2
    <3> QED BY <3>1, <3>3 DEF x, y
  <2> QED BY <2>5, <2>9, <2>11
<1> QED BY <1>1, InitInv, StepInv, PTL DEF Spec, RebalanceClosesGaps

-----------------------------------------------------------------------------
(* What the calls of an operate or a liquidation are worth, scaled.         *)

LEMMA Gotten ==
  ASSUME NEW a \in Nat, NEW P \in Nat \ {0}, NEW p \in Nat \ {0}, NEW c \in Nat \ {0}
  PROVE  LET q == (a * P) \div p
         IN  q \in Nat /\ (q * p) * c > (a * P) * c - p * c
<1> DEFINE q == (a * P) \div p
<1>1. a * P \in Nat
  OBVIOUS
<1>2. q \in Nat /\ a * P < q * p + p
  BY <1>1, QuotientBounds
<1> HIDE DEF q
<1>3. q * p \in Nat /\ q * p + p \in Int
  BY <1>2
<1>4. (a * P) * c < (q * p + p) * c
  BY <1>1, <1>2, <1>3, ProductStrict
<1>5. (q * p + p) * c = (q * p) * c + p * c
  BY <1>3
<1>6. (a * P) * c \in Int /\ (q * p) * c \in Int /\ p * c \in Int
  BY <1>1, <1>3
<1> QED BY <1>2, <1>4, <1>5, <1>6 DEF q

LEMMA Given ==
  ASSUME NEW a \in Nat, NEW P \in Nat \ {0}, NEW p \in Nat \ {0}, NEW c \in Nat \ {0}
  PROVE  LET w == DivCeil(a * P, p)
         IN  w \in Nat /\ (w * p) * c < (a * P) * c + p * c
<1> DEFINE w == DivCeil(a * P, p)
<1>1. a * P \in Nat
  OBVIOUS
<1>2. w \in Nat /\ w * p < a * P + p
  BY <1>1, CeilBounds
<1> HIDE DEF w
<1>3. w * p \in Int /\ a * P + p \in Int
  BY <1>2
<1>4. (w * p) * c < (a * P + p) * c
  BY <1>1, <1>2, <1>3, ProductStrict
<1>5. (a * P + p) * c = (a * P) * c + p * c
  BY <1>1
<1> QED BY <1>2, <1>4, <1>5 DEF w

(* What the vault has more in the layer, and owes it more, after a step.     *)
Gained == (held' * supply_price) * supply_scale - (held * supply_price) * supply_scale
Charged == (owed' * borrow_price) * borrow_scale - (owed * borrow_price) * borrow_scale

LEMMA DepositWorth ==
  ASSUME LedgerTypeOK, NEW a \in Nat, Deposits(a)
  PROVE  held' > held /\ Gained > (a * Precision) * supply_scale - supply_price * supply_scale
<1> DEFINE p == supply_price
           c == supply_scale
           q == (a * Precision) \div p
<1>1. p \in Nat \ {0} /\ c \in Nat \ {0} /\ held \in Nat /\ Precision \in Nat \ {0}
  BY Positive DEF LedgerTypeOK
<1>2. held' = held + q /\ q # 0
  BY DEF Deposits
<1> HIDE DEF p, c
<1>3. q \in Nat /\ (q * p) * c > (a * Precision) * c - p * c
  BY <1>1, Gotten
<1> HIDE DEF q
<1>4. ((held + q) * p) * c = (held * p) * c + (q * p) * c
  BY <1>1, <1>3
<1>5. (held * p) * c \in Int /\ (q * p) * c \in Int
  BY <1>1, <1>3
<1>6. Gained = (q * p) * c
  BY <1>2, <1>4, <1>5 DEF Gained, p, c
<1>7. held' > held
  BY <1>1, <1>2, <1>3
<1> QED BY <1>3, <1>6, <1>7 DEF p, c

LEMMA WithdrawalWorth ==
  ASSUME LedgerTypeOK, NEW a \in Nat, Withdraws(a)
  PROVE  held' < held /\ Gained > -((a * Precision) * supply_scale) - supply_price * supply_scale
<1> DEFINE p == supply_price
           c == supply_scale
           w == DivCeil(a * Precision, p)
<1>1. p \in Nat \ {0} /\ c \in Nat \ {0} /\ held \in Nat /\ Precision \in Nat \ {0}
  BY Positive DEF LedgerTypeOK
<1>2. held' = held - w /\ w \in 1 .. held
  BY DEF Withdraws
<1> HIDE DEF p, c
<1>3. w \in Nat /\ (w * p) * c < (a * Precision) * c + p * c
  BY <1>1, Given
<1> HIDE DEF w
<1>4. ((held - w) * p) * c = (held * p) * c - (w * p) * c
  BY <1>1, <1>3
<1>5. (held * p) * c \in Int /\ (w * p) * c \in Int /\ (a * Precision) * c \in Int /\ p * c \in Int
  BY <1>1, <1>3
<1>6. Gained = -((w * p) * c)
  BY <1>2, <1>4, <1>5 DEF Gained, p, c
<1>7. held' < held
  BY <1>1, <1>2
<1>8. Gained > -((a * Precision) * c) - p * c
  BY <1>3, <1>5, <1>6
<1> QED BY <1>7, <1>8 DEF p, c

LEMMA BorrowingWorth ==
  ASSUME LedgerTypeOK, NEW a \in Nat, Borrows(a)
  PROVE  Charged < (a * Precision) * borrow_scale + borrow_price * borrow_scale
<1> DEFINE p == borrow_price
           c == borrow_scale
           w == DivCeil(a * Precision, p)
<1>1. p \in Nat \ {0} /\ c \in Nat \ {0} /\ owed \in Nat /\ Precision \in Nat \ {0}
  BY Positive DEF LedgerTypeOK
<1>2. owed' = owed + w
  BY DEF Borrows
<1> HIDE DEF p, c
<1>3. w \in Nat /\ (w * p) * c < (a * Precision) * c + p * c
  BY <1>1, Given
<1> HIDE DEF w
<1>4. ((owed + w) * p) * c = (owed * p) * c + (w * p) * c
  BY <1>1, <1>3
<1>5. (owed * p) * c \in Int /\ (w * p) * c \in Int
  BY <1>1, <1>3
<1>6. Charged = (w * p) * c
  BY <1>2, <1>4, <1>5 DEF Charged, p, c
<1> QED BY <1>3, <1>6 DEF p, c

LEMMA PaybackWorth ==
  ASSUME LedgerTypeOK, NEW a \in Nat, PaysBack(a)
  PROVE  Charged < borrow_price * borrow_scale - (a * Precision) * borrow_scale
<1> DEFINE p == borrow_price
           c == borrow_scale
           q == (a * Precision) \div p
<1>1. p \in Nat \ {0} /\ c \in Nat \ {0} /\ owed \in Nat /\ Precision \in Nat \ {0}
  BY Positive DEF LedgerTypeOK
<1>2. owed' = owed - q
  BY DEF PaysBack
<1> HIDE DEF p, c
<1>3. q \in Nat /\ (q * p) * c > (a * Precision) * c - p * c
  BY <1>1, Gotten
<1> HIDE DEF q
<1>4. ((owed - q) * p) * c = (owed * p) * c - (q * p) * c
  BY <1>1, <1>3
<1>5. (owed * p) * c \in Int /\ (q * p) * c \in Int /\ (a * Precision) * c \in Int /\ p * c \in Int
  BY <1>1, <1>3
<1>6. Charged = -((q * p) * c)
  BY <1>2, <1>4, <1>5 DEF Charged, p, c
<1>7. Charged < p * c - (a * Precision) * c
  BY <1>3, <1>5, <1>6
<1> QED BY <1>7 DEF p, c

(* The calls of operate: what is moved is worth, scaled and rounded towards *)
(* zero, no more than what it leaves in the layer, but for a raw unit.      *)
LEMMA MoveWorth ==
  ASSUME LedgerTypeOK, NEW m \in Int, NEW n \in Int, Move(m, n)
  PROVE  LET y == DivTrunc(m, supply_scale)
             z == DivTrunc(n, borrow_scale)
         IN  /\ y > 0 => /\ held' > held
                         /\ Gained > ((y + 1) * Precision) * supply_scale - supply_price * supply_scale
             /\ y < 0 => /\ held' < held
                         /\ Gained > (y * Precision) * supply_scale - supply_price * supply_scale
             /\ y = 0 => held' = held /\ Gained = 0
             /\ z > 0 => Charged < (z * Precision) * borrow_scale + borrow_price * borrow_scale
             /\ z < 0 => Charged < ((z - 1) * Precision) * borrow_scale + borrow_price * borrow_scale
             /\ z = 0 => Charged = 0
<1> DEFINE y == DivTrunc(m, supply_scale)
           z == DivTrunc(n, borrow_scale)
           P == Precision
           c == supply_scale
           e == borrow_scale
<1>1. y \in Int /\ z \in Int /\ P \in Nat \ {0} /\ c \in Nat \ {0} /\ e \in Nat \ {0}
  BY Truncated, Positive
<1>2. /\ CASE y > 0 -> Deposits(y + 1)
           [] y < 0 -> Withdraws(-y) /\ \E limit \in WithdrawalLimits : GapKept(-y, limit)
           [] OTHER -> UNCHANGED held
      /\ CASE z > 0 -> Borrows(z)
           [] z < 0 -> PaysBack(1 - z)
           [] OTHER -> UNCHANGED owed
  BY DEF Move
<1> HIDE DEF y, z, P, c, e
<1>3. y > 0 => held' > held /\ Gained > ((y + 1) * P) * c - supply_price * c
  <2>1. ASSUME y > 0 PROVE y + 1 \in Nat /\ Deposits(y + 1)
    BY <1>1, <1>2, <2>1
  <2> QED BY <2>1, DepositWorth DEF P, c
<1>4. y < 0 => held' < held /\ Gained > (y * P) * c - supply_price * c
  <2> SUFFICES ASSUME y < 0 PROVE held' < held /\ Gained > (y * P) * c - supply_price * c
    OBVIOUS
  <2>1. -y \in Nat /\ Withdraws(-y)
    BY <1>1, <1>2
  <2>2. -(((-y) * P) * c) = (y * P) * c
    BY <1>1
  <2>3. held' < held /\ Gained > -(((-y) * P) * c) - supply_price * c
    BY <2>1, WithdrawalWorth DEF P, c
  <2> QED BY <2>2, <2>3
<1>5. y = 0 => held' = held /\ Gained = 0
  <2> SUFFICES ASSUME y = 0 PROVE held' = held /\ Gained = 0
    OBVIOUS
  <2>1. held' = held
    BY <1>2
  <2>2. (held * supply_price) * supply_scale \in Int
    <3>1. held \in Nat /\ supply_price \in Nat /\ supply_scale \in Nat
      BY Positive DEF LedgerTypeOK
    <3> QED BY <3>1
  <2> QED BY <2>1, <2>2 DEF Gained
<1>6. z > 0 => Charged < (z * P) * e + borrow_price * e
  <2>1. ASSUME z > 0 PROVE z \in Nat /\ Borrows(z)
    BY <1>1, <1>2, <2>1
  <2> QED BY <2>1, BorrowingWorth DEF P, e
<1>7. z < 0 => Charged < ((z - 1) * P) * e + borrow_price * e
  <2> SUFFICES ASSUME z < 0 PROVE Charged < ((z - 1) * P) * e + borrow_price * e
    OBVIOUS
  <2>1. 1 - z \in Nat /\ PaysBack(1 - z)
    BY <1>1, <1>2
  <2>2. ((1 - z) * P) * e = -(((z - 1) * P) * e)
    BY <1>1
  <2>3. Charged < borrow_price * e - ((1 - z) * P) * e
    BY <2>1, PaybackWorth DEF P, e
  <2>4. ((z - 1) * P) * e \in Int /\ borrow_price * e \in Int
    BY <1>1 DEF LedgerTypeOK
  <2> QED BY <2>2, <2>3, <2>4
<1>8. z = 0 => Charged = 0
  <2> SUFFICES ASSUME z = 0 PROVE Charged = 0
    OBVIOUS
  <2>1. owed' = owed
    BY <1>2
  <2>2. (owed * borrow_price) * borrow_scale \in Int
    <3>1. owed \in Nat /\ borrow_price \in Nat /\ borrow_scale \in Nat
      BY Positive DEF LedgerTypeOK
    <3> QED BY <3>1
  <2> QED BY <2>1, <2>2 DEF Charged
<1> QED BY <1>3, <1>4, <1>5, <1>6, <1>7, <1>8 DEF y, z, P, c, e

-----------------------------------------------------------------------------
(* What an operate books, against what it moves.                            *)

LEMMA TruncBounds ==
  ASSUME NEW m \in Int, NEW c \in Nat \ {0}
  PROVE  LET y == DivTrunc(m, c)
         IN  /\ m >= 0 => y \in Nat
             /\ m < 0 => y \in Int /\ y <= 0 /\ m <= y * c /\ y * c - c < m
             /\ m = 0 => y = 0
<1> DEFINE y == DivTrunc(m, c)
<1>1. CASE m >= 0
  <2>1. y = m \div c
    BY <1>1 DEF DivTrunc
  <2>2. m = 0 => m \div c = 0
    OBVIOUS
  <2> QED BY <1>1, <2>1, <2>2, QuotientBounds
<1>2. CASE m < 0
  <2> DEFINE k == (-m) \div c
  <2>1. y = -k
    BY <1>2 DEF DivTrunc
  <2>2. k \in Nat /\ k * c <= -m /\ -m < k * c + c
    <3>1. -m \in Nat
      BY <1>2
    <3> QED BY <3>1, QuotientBounds
  <2> HIDE DEF k, y
  <2>3. (-k) * c = -(k * c) /\ k * c \in Nat
    BY <2>2
  <2>4. y \in Int /\ y <= 0 /\ m <= y * c /\ y * c - c < m
    BY <2>1, <2>2, <2>3
  <2> QED BY <1>2, <2>4 DEF y
<1> QED BY <1>1, <1>2

LEMMA TruncMultiple ==
  ASSUME NEW a \in Int, NEW c \in Nat \ {0}
  PROVE  DivTrunc(a * c, c) = a
<1>1. CASE a >= 0
  <2>1. a \in Nat /\ a * c >= 0
    BY <1>1
  <2> QED BY <2>1, ScaledBack DEF DivTrunc
<1>2. CASE a < 0
  <2>1. -a \in Nat \ {0} /\ -(a * c) = (-a) * c
    BY <1>2
  <2>2. (-a) * c > 0
    BY <2>1
  <2>3. a * c < 0
    BY <2>1, <2>2
  <2>4. ((-a) * c) \div c = -a
    BY <2>1, ScaledBack
  <2> QED BY <2>1, <2>3, <2>4 DEF DivTrunc
<1> QED BY <1>1, <1>2

LEMMA CollateralBooked ==
  ASSUME NEW col \in Nat, NEW amount \in Int, NEW price \in Nat \ {0},
         amount = ALL \/ \E a \in Int : amount = a * supply_scale
  PROVE  (NewCollateral(col, amount, price) - col) * price
           <= (DivTrunc(CollateralMoved(col, amount, price), supply_scale) * Precision) * supply_scale
<1> DEFINE P == Precision
           c == supply_scale
           m == CollateralMoved(col, amount, price)
           y == DivTrunc(m, c)
<1>1. P \in Nat \ {0} /\ c \in Nat \ {0}
  BY Positive
<1>2. CASE amount = ALL
  <2> DEFINE v == col * price
             X == v \div P
  <2>1. v \in Nat /\ NewCollateral(col, amount, price) = 0 /\ m = 1 - X
    BY <1>2, AllNegative DEF NewCollateral, CollateralMoved
  <2>2. X \in Nat /\ X * P <= v
    BY <1>1, <2>1, QuotientBounds
  <2> HIDE DEF X, m
  <2>3. m \in Int
    BY <2>1, <2>2
  <2>4. (0 - col) * price = -v
    OBVIOUS
  <2> HIDE DEF v, P, c, y
  <2>5. -v <= (y * P) * c
    <3>1. CASE m >= 0
      <4>1. y \in Nat
        BY <1>1, <2>3, <3>1, TruncBounds DEF y
      <4>2. (y * P) * c \in Nat
        BY <1>1, <4>1
      <4> QED BY <2>1, <4>2
    <3>2. CASE m < 0
      <4>1. y \in Int /\ m <= y * c
        BY <1>1, <2>3, <3>2, TruncBounds DEF y
      <4>2. -X <= y * c /\ y * c \in Int /\ -X \in Int
        BY <1>1, <2>1, <2>2, <4>1
      <4>3. (-X) * P <= (y * c) * P
        BY <1>1, <4>2, ProductMonotonic
      <4>4. (-X) * P = -(X * P) /\ (y * c) * P = (y * P) * c
        BY <1>1, <2>2, <4>1
      <4>5. X * P \in Nat /\ (y * P) * c \in Int
        BY <1>1, <2>2, <4>1
      <4> QED BY <2>1, <2>2, <4>3, <4>4, <4>5
    <3> QED BY <2>3, <3>1, <3>2
  <2> QED BY <2>1, <2>4, <2>5 DEF y, m, P, c
<1>3. CASE amount # ALL
  <2>1. PICK a \in Int : amount = a * c
    BY <1>3
  <2>2. m = a * c /\ y = a
    BY <1>1, <1>3, <2>1, TruncMultiple DEF CollateralMoved
  <2> HIDE DEF y, m, c, P
  <2>3. (a * c) * P = (a * P) * c /\ (a * c) * P \in Int
    BY <1>1
  <2>4. (NewCollateral(col, amount, price) - col) * price <= (a * P) * c
    <3>1. CASE amount >= 0
      <4> DEFINE k == (amount * P) \div price
      <4>1. amount * P \in Nat
        BY <1>1, <3>1
      <4>2. k \in Nat /\ k * price <= amount * P
        BY <4>1, QuotientBounds
      <4>3. NewCollateral(col, amount, price) = col + k
        BY <1>3, <3>1 DEF NewCollateral, P
      <4> HIDE DEF k
      <4>4. (col + k) - col = k
        BY <4>2
      <4> QED BY <2>1, <2>3, <4>2, <4>3, <4>4
    <3>2. CASE amount < 0
      <4> DEFINE k == DivCeil(-amount * P, price)
      <4>1. -amount * P \in Nat /\ -amount * P = -(amount * P) /\ amount * P \in Int
        BY <1>1, <3>2
      <4>2. k \in Nat /\ k * price >= -amount * P
        BY <4>1, CeilBounds
      <4>3. NewCollateral(col, amount, price) = col - k
        BY <1>3, <3>2 DEF NewCollateral, P
      <4> HIDE DEF k
      <4>4. ((col - k) - col) * price = -(k * price) /\ k * price \in Nat
        BY <4>2
      <4>5. -(k * price) <= amount * P
        BY <4>1, <4>2, <4>4
      <4> QED BY <2>1, <2>3, <4>3, <4>4, <4>5
    <3> QED BY <3>1, <3>2
  <2> QED BY <2>2, <2>4 DEF y, m, P, c
<1> QED BY <1>2, <1>3

LEMMA DebtBooked ==
  ASSUME LedgerTypeOK, NEW debt \in Nat, NEW amount \in Int, NEW price \in Nat \ {0},
         amount = ALL \/ \E a \in Int : amount = a * borrow_scale
  PROVE  LET z == DivTrunc(DebtMoved(debt, amount, price), borrow_scale)
             booked == (NewDebt(debt, amount, price) - debt) * price
         IN  /\ z > 0 => booked >= (z * Precision) * borrow_scale
             /\ z <= 0 => booked > ((z - 1) * Precision) * borrow_scale
<1> DEFINE P == Precision
           c == borrow_scale
           m == DebtMoved(debt, amount, price)
           z == DivTrunc(m, c)
           booked == (NewDebt(debt, amount, price) - debt) * price
<1>1. P \in Nat \ {0} /\ c \in Nat \ {0}
  BY Positive
<1>2. CASE amount = ALL
  <2> DEFINE v == debt * price
             X == DivCeil(v, P)
  <2>1. v \in Nat /\ NewDebt(debt, amount, price) = 0 /\ m = -X
    BY <1>2, AllNegative DEF NewDebt, DebtMoved
  <2>2. X \in Nat /\ X * P >= v
    BY <1>1, <2>1, CeilBounds
  <2> HIDE DEF X, m
  <2>3. m \in Int /\ m <= 0
    BY <2>1, <2>2
  <2>4. booked = -v
    BY <2>1
  <2> HIDE DEF v, P, c, z, booked
  <2>5. z \in Int /\ z <= 0 /\ z * c - c < m
    <3>1. CASE m = 0
      BY <1>1, <2>3, <3>1, TruncBounds DEF z
    <3>2. CASE m < 0
      BY <1>1, <2>3, <3>2, TruncBounds DEF z
    <3> QED BY <2>3, <3>1, <3>2
  <2>6. (z * c - c) * P < m * P
    <3>1. z * c - c \in Int
      BY <1>1, <2>5
    <3> QED BY <1>1, <2>3, <2>5, <3>1, ProductStrict
  <2>7. (z * c - c) * P = ((z - 1) * P) * c /\ m * P = -(X * P) /\ X * P \in Nat
    BY <1>1, <2>1, <2>2, <2>5
  <2>8. ((z - 1) * P) * c \in Int
    BY <1>1, <2>5
  <2>9. booked > ((z - 1) * P) * c
    BY <2>1, <2>2, <2>4, <2>6, <2>7, <2>8
  <2> QED BY <2>5, <2>9 DEF booked, z, m, P, c
<1>3. CASE amount # ALL
  <2>1. PICK a \in Int : amount = a * c
    BY <1>3
  <2>2. m = a * c /\ z = a
    BY <1>1, <1>3, <2>1, TruncMultiple DEF DebtMoved
  <2> HIDE DEF z, m, c, P
  <2>3. /\ amount * P = (a * P) * c /\ amount * P \in Int
        /\ ((a - 1) * P) * c = (a * P) * c - P * c /\ P * c \in Nat \ {0}
        /\ amount > 0 <=> a > 0
    BY <1>1, <2>1
  <2>4. CASE amount > 0
    <3> DEFINE k == DivCeil(amount * P, price)
    <3>1. amount * P \in Nat
      BY <1>1, <2>4
    <3>2. k \in Nat /\ k * price >= amount * P
      BY <3>1, CeilBounds
    <3> HIDE DEF k
    <3>3. WithFee(k) \in Nat /\ WithFee(k) >= k
      <4>1. config.borrow_fee \in Nat
        BY DEF LedgerTypeOK, VaultConfig
      <4>2. k * config.borrow_fee \in Nat
        BY <3>2, <4>1
      <4>3. DivCeil(k * config.borrow_fee, FOUR_DECIMALS) \in Nat
        BY <4>2, CeilBounds, Positive
      <4> QED BY <3>2, <4>3 DEF WithFee
    <3>4. NewDebt(debt, amount, price) = debt + WithFee(k)
      BY <1>3, <2>4 DEF NewDebt, P, k
    <3>5. booked = WithFee(k) * price
      <4>1. (debt + WithFee(k)) - debt = WithFee(k)
        BY <3>3
      <4> QED BY <3>4, <4>1
    <3>6. k * price <= WithFee(k) * price
      BY <3>2, <3>3, ProductMonotonic
    <3>7. k * price \in Int /\ WithFee(k) * price \in Int
      BY <3>2, <3>3
    <3> HIDE DEF booked
    <3>8. booked >= (a * P) * c /\ a > 0
      BY <2>3, <2>4, <3>2, <3>5, <3>6, <3>7
    <3> QED BY <2>2, <3>8 DEF booked, z, m, P, c
  <2>5. CASE amount = 0
    <3>1. booked = 0
      <4>1. NewDebt(debt, amount, price) - debt = 0
        BY <1>3, <2>5 DEF NewDebt
      <4> QED BY <4>1
    <3> HIDE DEF booked
    <3>2. amount * P = 0
      BY <1>1, <2>5
    <3>3. a <= 0 /\ booked > ((a - 1) * P) * c
      BY <2>3, <2>5, <3>1, <3>2
    <3> QED BY <2>2, <3>3 DEF booked, z, m, P, c
  <2>6. CASE amount < 0
    <3> DEFINE k == (-amount * P) \div price
    <3>1. -amount * P \in Nat /\ -amount * P = -(amount * P)
      BY <1>1, <2>6
    <3>2. k \in Nat /\ k * price <= -amount * P
      BY <3>1, QuotientBounds
    <3>3. NewDebt(debt, amount, price) = debt - (k - 1)
      BY <1>3, <2>6 DEF NewDebt, P
    <3> HIDE DEF k
    <3>4. booked = price - k * price /\ k * price \in Nat
      <4>1. ((debt - (k - 1)) - debt) * price = price - k * price
        BY <3>2
      <4> QED BY <3>2, <3>3, <4>1
    <3> HIDE DEF booked
    <3>5. a <= 0 /\ booked > ((a - 1) * P) * c
      <4>1. a <= 0
        BY <2>3, <2>6
      <4>2. booked \in Int /\ booked >= price + amount * P
        BY <2>3, <3>1, <3>2, <3>4
      <4>3. ((a - 1) * P) * c < price + amount * P /\ ((a - 1) * P) * c \in Int
        BY <2>3
      <4> QED BY <2>3, <4>1, <4>2, <4>3
    <3> QED BY <2>2, <3>5 DEF booked, z, m, P, c
  <2> QED BY <2>4, <2>5, <2>6
<1> QED BY <1>2, <1>3

(* The growth at every touch never loses debt.                              *)
LEMMA ScaledAtLeast ==
  ASSUME NEW debt \in Nat
  PROVE  Scaled(debt) \in Nat /\ Scaled(debt) >= debt
<1> DEFINE B == BILLION
           q == (debt * (B + 1)) \div B
<1>1. B \in Nat \ {0}
  BY Positive
<1> HIDE DEF B
<1>2. debt * (B + 1) \in Nat /\ debt * (B + 1) = debt * B + debt /\ debt * B \in Nat
  BY <1>1
<1>3. q \in Nat /\ debt * (B + 1) < q * B + B
  BY <1>1, <1>2, QuotientBounds
<1> HIDE DEF q
<1>4. q + 1 >= debt
  <2>1. CASE q + 1 < debt
    <3>1. (q + 1) * B < debt * B
      BY <1>1, <1>3, <2>1, ProductStrict
    <3>2. (q + 1) * B = q * B + B /\ q * B \in Nat
      BY <1>1, <1>3
    <3> QED BY <1>1, <1>2, <1>3, <3>1, <3>2
  <2> QED BY <1>3, <2>1
<1>5. Scaled(debt) = IF debt = 0 THEN 0 ELSE q + 1
  BY DEF Scaled, B, q
<1> QED BY <1>3, <1>4, <1>5

-----------------------------------------------------------------------------
(* The books of vault and layer across operations and liquidations.          *)

(* The layer's borrow price never falls below the price of one.              *)
BooksInv == LedgerInv /\ borrow_price >= Precision

LEMMA BooksInit == Init => BooksInv
<1>1. Init => borrow_price >= Precision
  <2>1. \A g \in BorrowGrowth : Precision + g >= Precision
    BY Positive, LedgerAssumption DEF LedgerAssumption
  <2> QED BY <2>1 DEF Init
<1> QED BY <1>1, InitInv DEF BooksInv

LEMMA BooksStep == BooksInv /\ [Next]_vars => BooksInv'
<1> SUFFICES ASSUME BooksInv, [Next]_vars PROVE BooksInv'
  OBVIOUS
<1>1. LedgerInv'
  BY StepInv DEF BooksInv
<1>2. CASE UNCHANGED borrow_price
  BY <1>1, <1>2 DEF BooksInv
<1>3. CASE Tick
  <2>1. PICK g \in BorrowGrowth : borrow_price' = borrow_price + g
    BY <1>3 DEF Tick
  <2>2. g \in Nat /\ borrow_price \in Nat
    BY LedgerAssumption DEF LedgerAssumption, BooksInv, LedgerInv, LedgerTypeOK
  <2> QED BY <1>1, <2>1, <2>2, Positive DEF BooksInv
<1>4. CASE Auths
  <2>1. PICK c \in VaultConfig : Stored(c)
    BY <1>4, AuthsStore DEF BooksInv, LedgerInv
  <2> QED BY <1>2, <2>1 DEF Stored, Configure, layerVars
<1>5. CASE Users \/ Rebalance
  BY <1>2, <1>5, SamePrices
<1>6. CASE UNCHANGED vars
  BY <1>2, <1>6 DEF vars
<1> QED BY <1>3, <1>4, <1>5, <1>6 DEF Next

(* The surplus changes by what the layer books and what the vault books.     *)
LEMMA SurplusChange ==
  ASSUME LedgerTypeOK, LedgerTypeOK', Users
  PROVE  /\ SupplySurplus' - SupplySurplus = Gained - (total_supply' - total_supply) * SupplyPrice
         /\ BorrowSurplus' - BorrowSurplus = (total_borrow' - total_borrow) * BorrowPrice - Charged
<1>1. /\ UNCHANGED <<supply_price, borrow_price>> /\ PricesDefined
      /\ SupplyPrice' = SupplyPrice /\ BorrowPrice' = BorrowPrice
  BY SamePrices
<1>2. SupplyPrice \in Nat /\ BorrowPrice \in Nat
  BY <1>1, PricesNatural
<1>3. /\ held \in Nat /\ owed \in Nat /\ total_supply \in Nat /\ total_borrow \in Nat
      /\ held' \in Nat /\ owed' \in Nat /\ total_supply' \in Nat /\ total_borrow' \in Nat
      /\ supply_price \in Nat /\ borrow_price \in Nat
      /\ supply_scale \in Nat /\ borrow_scale \in Nat
  BY Positive DEF LedgerTypeOK
<1>4. /\ SupplySurplus = (held * supply_price) * supply_scale - total_supply * SupplyPrice
      /\ SupplySurplus' = (held' * supply_price) * supply_scale - total_supply' * SupplyPrice
      /\ BorrowSurplus = total_borrow * BorrowPrice - (owed * borrow_price) * borrow_scale
      /\ BorrowSurplus' = total_borrow' * BorrowPrice - (owed' * borrow_price) * borrow_scale
  BY <1>1 DEF SupplySurplus, BorrowSurplus
<1>5. \A h, k, p, c, t, u, s \in Nat :
        /\ ((k * p) * c - u * s) - ((h * p) * c - t * s) = ((k * p) * c - (h * p) * c) - (u - t) * s
        /\ (u * s - (k * p) * c) - (t * s - (h * p) * c) = (u - t) * s - ((k * p) * c - (h * p) * c)
  <2> TAKE h, k, p, c, t, u, s \in Nat
  <2>1. (u - t) * s = u * s - t * s
    OBVIOUS
  <2>2. (k * p) * c \in Nat /\ (h * p) * c \in Nat /\ u * s \in Nat /\ t * s \in Nat
    OBVIOUS
  <2> QED BY <2>1, <2>2
<1> QED BY <1>2, <1>3, <1>4, <1>5 DEF Gained, Charged

Agreed ==
  /\ SupplySurplus' - SupplySurplus
       > (IF held' > held THEN Precision - supply_price ELSE -supply_price) * supply_scale
  /\ BorrowSurplus' - BorrowSurplus > -borrow_price * borrow_scale

LEMMA LiquidateAgrees ==
  ASSUME LedgerTypeOK, LedgerTypeOK', NEW debt \in Nat, NEW col \in Nat, Liquidate(debt, col),
         SupplySurplus' - SupplySurplus = Gained - (total_supply' - total_supply) * SupplyPrice,
         BorrowSurplus' - BorrowSurplus = (total_borrow' - total_borrow) * BorrowPrice - Charged
  PROVE  Agreed
<1> DEFINE P == Precision
           p == supply_price
           c == supply_scale
           b == borrow_price
           e == borrow_scale
           sp == SupplyPrice
           bp == BorrowPrice
           x == (col * sp) \div P
           y == x \div c
           u == DivCeil(debt * bp, P)
           z == DivCeil(u, e)
<1>1. /\ P \in Nat \ {0} /\ c \in Nat \ {0} /\ e \in Nat \ {0} /\ p \in Nat /\ b \in Nat
      /\ sp \in Nat /\ bp \in Nat
  BY Positive, PricesNatural DEF Liquidate, LedgerTypeOK
<1>2. /\ PaysBack(z) /\ Withdraws(y)
      /\ total_supply' = total_supply - col /\ total_borrow' = total_borrow - debt
      /\ total_supply \in Nat /\ total_borrow \in Nat
  BY DEF Liquidate, Paid, Received, LedgerTypeOK
<1> HIDE DEF P, p, c, b, e, sp, bp
<1>3. col * sp \in Nat /\ debt * bp \in Nat
  BY <1>1
<1>4. x \in Nat /\ x * P <= col * sp
  BY <1>1, <1>3, QuotientBounds
<1>5. u \in Nat /\ u * P >= debt * bp
  BY <1>1, <1>3, CeilBounds
<1> HIDE DEF x, u
<1>6. y \in Nat /\ y * c <= x
  BY <1>1, <1>4, QuotientBounds
<1>7. z \in Nat /\ z * e >= u
  BY <1>1, <1>5, CeilBounds
<1> HIDE DEF y, z
<1>8. held' < held /\ Gained > -((y * P) * c) - p * c
  BY <1>2, <1>6, WithdrawalWorth DEF P, p, c
<1>9. Charged < b * e - (z * P) * e
  BY <1>2, <1>7, PaybackWorth DEF P, b, e
<1>10. (y * P) * c <= col * sp
  <2>1. (y * c) * P <= x * P
    <3>1. y * c \in Int
      BY <1>1, <1>6
    <3> QED BY <1>1, <1>4, <1>6, <3>1, ProductMonotonic
  <2>2. (y * c) * P = (y * P) * c /\ (y * c) * P \in Int /\ x * P \in Int
    BY <1>1, <1>4, <1>6
  <2> QED BY <1>3, <1>4, <2>1, <2>2
<1>11. (z * P) * e >= debt * bp
  <2>1. u * P <= (z * e) * P
    <3>1. z * e \in Int
      BY <1>1, <1>7
    <3> QED BY <1>1, <1>5, <1>7, <3>1, ProductMonotonic
  <2>2. (z * e) * P = (z * P) * e /\ (z * e) * P \in Int /\ u * P \in Int
    BY <1>1, <1>5, <1>7
  <2> QED BY <1>3, <1>5, <2>1, <2>2
<1>12. /\ (total_supply' - total_supply) * sp = -(col * sp)
       /\ (total_borrow' - total_borrow) * bp = -(debt * bp)
  <2>1. total_supply' - total_supply = -col /\ total_borrow' - total_borrow = -debt
    BY <1>2
  <2>2. (-col) * sp = -(col * sp) /\ (-debt) * bp = -(debt * bp)
    BY <1>1
  <2> QED BY <2>1, <2>2
<1>13. Gained \in Int /\ Charged \in Int
  <2>1. \A h, k, q, r \in Nat : (k * q) * r - (h * q) * r \in Int
    OBVIOUS
  <2>2. held \in Nat /\ held' \in Nat /\ owed \in Nat /\ owed' \in Nat
    BY DEF LedgerTypeOK
  <2> QED BY <1>1, <2>1, <2>2 DEF Gained, Charged, p, c, b, e
<1>14. /\ (y * P) * c \in Int /\ p * c \in Int /\ (z * P) * e \in Int /\ b * e \in Int
       /\ (-p) * c = -(p * c) /\ -b * e = -(b * e)
  BY <1>1, <1>6, <1>7
<1>15. SupplySurplus' - SupplySurplus > -(p * c)
  <2>1. SupplySurplus' - SupplySurplus = Gained + col * sp
    BY <1>3, <1>12, <1>13 DEF sp
  <2> QED BY <1>3, <1>8, <1>10, <1>13, <1>14, <2>1
<1>16. BorrowSurplus' - BorrowSurplus > -(b * e)
  <2>1. BorrowSurplus' - BorrowSurplus = -(debt * bp) - Charged
    BY <1>12 DEF bp
  <2> QED BY <1>3, <1>9, <1>11, <1>13, <1>14, <2>1
<1>17. ~(held' > held)
  BY <1>8 DEF LedgerTypeOK
<1> QED BY <1>14, <1>15, <1>16, <1>17 DEF Agreed, p, c, b, e

LEMMA OperateAgrees ==
  ASSUME LedgerTypeOK, LedgerTypeOK', borrow_price >= Precision,
         NEW col \in {0, total_supply}, NEW debt \in {0, total_borrow},
         NEW amounts \in Amounts, Operate(col, debt, amounts[1], amounts[2]),
         SupplySurplus' - SupplySurplus = Gained - (total_supply' - total_supply) * SupplyPrice,
         BorrowSurplus' - BorrowSurplus = (total_borrow' - total_borrow) * BorrowPrice - Charged
  PROVE  Agreed
<1> DEFINE P == Precision
           p == supply_price
           c == supply_scale
           b == borrow_price
           e == borrow_scale
           new_col  == IF amounts[1] = ALL THEN ALL ELSE amounts[1] * supply_scale
           new_debt == IF amounts[2] = ALL THEN ALL ELSE amounts[2] * borrow_scale
<1>1. /\ new_col \in Int /\ new_debt \in Int
      /\ new_col = ALL \/ \E a \in Int : new_col = a * supply_scale
      /\ new_debt = ALL \/ \E a \in Int : new_debt = a * borrow_scale
  <2>1. amounts[1] \in Int /\ amounts[2] \in Int
    BY LedgerAssumption DEF LedgerAssumption
  <2>2. amounts[1] * supply_scale \in Int /\ amounts[2] * borrow_scale \in Int
    BY <2>1, Positive
  <2> QED BY <2>1, <2>2, AllNegative
<1>2. PICK sp \in {SupplyPrice}, bp \in {BorrowPrice} :
        /\ sp > 0 /\ bp > 0
        /\ NewCollateral(col, new_col, sp) >= 0
        /\ NewDebt(debt, new_debt, bp) >= 0
        /\ Move(CollateralMoved(col, new_col, sp), DebtMoved(debt, new_debt, bp))
        /\ total_supply' = total_supply + NewCollateral(col, new_col, sp) - col
        /\ total_borrow' = total_borrow + Scaled(NewDebt(debt, new_debt, bp)) - debt
  BY DEF Operate
<1>3. sp = SupplyPrice /\ bp = BorrowPrice /\ sp \in Nat \ {0} /\ bp \in Nat \ {0}
  BY <1>2, PricesInteger
<1>4. col \in Nat /\ debt \in Nat /\ total_supply \in Nat /\ total_borrow \in Nat
  BY DEF LedgerTypeOK
<1> HIDE DEF new_col, new_debt
<1> DEFINE nc == NewCollateral(col, new_col, sp)
           nd == NewDebt(debt, new_debt, bp)
           m == CollateralMoved(col, new_col, sp)
           n == DebtMoved(debt, new_debt, bp)
           y == DivTrunc(m, supply_scale)
           z == DivTrunc(n, borrow_scale)
<1>5. nc \in Nat /\ m \in Int
  <2>1. nc \in Int /\ m \in Int
    BY <1>1, <1>3, <1>4, NewCollateralInteger
  <2> QED BY <1>2, <2>1
<1>6. nd \in Nat /\ n \in Int
  <2>1. nd \in Int /\ n \in Int
    BY <1>1, <1>3, <1>4, NewDebtInteger
  <2> QED BY <1>2, <2>1
<1>7. (nc - col) * sp <= (y * P) * c
  BY <1>1, <1>3, <1>4, CollateralBooked
<1>8. /\ z > 0 => (nd - debt) * bp >= (z * P) * e
      /\ z <= 0 => (nd - debt) * bp > ((z - 1) * P) * e
  BY <1>1, <1>3, <1>4, DebtBooked
<1>9. /\ y > 0 => held' > held /\ Gained > ((y + 1) * P) * c - p * c
      /\ y < 0 => held' < held /\ Gained > (y * P) * c - p * c
      /\ y = 0 => held' = held /\ Gained = 0
      /\ z > 0 => Charged < (z * P) * e + b * e
      /\ z < 0 => Charged < ((z - 1) * P) * e + b * e
      /\ z = 0 => Charged = 0
  BY <1>2, <1>5, <1>6, MoveWorth
<1>10. total_supply' - total_supply = nc - col
  BY <1>2, <1>4, <1>5
<1>11. total_borrow' - total_borrow >= nd - debt /\ total_borrow' - total_borrow \in Int
  <2>1. Scaled(nd) \in Nat /\ Scaled(nd) >= nd
    BY <1>6, ScaledAtLeast
  <2>2. total_borrow' = total_borrow + Scaled(nd) - debt
    BY <1>2
  <2> HIDE DEF nd
  <2> QED BY <1>4, <1>6, <2>1, <2>2
<1>12. /\ P \in Nat \ {0} /\ c \in Nat \ {0} /\ e \in Nat \ {0} /\ p \in Nat /\ b \in Nat
       /\ b >= P
  BY Positive DEF LedgerTypeOK
<1>13. y \in Int /\ z \in Int
  BY <1>5, <1>6, Truncated, Positive
<1>14. Gained \in Int /\ Charged \in Int /\ held \in Nat /\ held' \in Nat
  <2>1. \A h, k, q, r \in Nat : (k * q) * r - (h * q) * r \in Int
    OBVIOUS
  <2>2. held \in Nat /\ held' \in Nat /\ owed \in Nat /\ owed' \in Nat
    BY DEF LedgerTypeOK
  <2> QED BY <1>12, <2>1, <2>2 DEF Gained, Charged
<1> HIDE DEF nc, nd, m, n, y, z, P, p, c, b, e
<1> DEFINE B == (nc - col) * sp
           D == (total_borrow' - total_borrow) * bp
<1>15. SupplySurplus' - SupplySurplus = Gained - B /\ BorrowSurplus' - BorrowSurplus = D - Charged
  BY <1>3, <1>10
<1>16. B \in Int /\ B <= (y * P) * c
  BY <1>3, <1>4, <1>5, <1>7
<1>17. D \in Int /\ (z > 0 => D >= (z * P) * e) /\ (z <= 0 => D > ((z - 1) * P) * e)
  <2>1. (nd - debt) * bp <= D
    <3>1. nd - debt \in Int
      BY <1>4, <1>6
    <3> QED BY <1>3, <1>11, <3>1, ProductMonotonic
  <2>2. D \in Int /\ (nd - debt) * bp \in Int
    BY <1>3, <1>4, <1>6, <1>11
  <2>3. (z * P) * e \in Int /\ ((z - 1) * P) * e \in Int
    BY <1>12, <1>13
  <2> HIDE DEF D
  <2> QED BY <1>8, <2>1, <2>2, <2>3
<1> HIDE DEF B, D
<1>18. /\ (y * P) * c \in Int /\ p * c \in Int /\ P * c \in Int
       /\ ((y + 1) * P) * c = (y * P) * c + P * c
       /\ (P - p) * c = P * c - p * c /\ (-p) * c = -(p * c)
  BY <1>12, <1>13
<1>19. Gained - B > (IF held' > held THEN P - p ELSE -p) * c
  <2>1. CASE y > 0
    <3>1. Gained - B > P * c - p * c
      BY <1>9, <1>14, <1>16, <1>18, <2>1
    <3> QED BY <1>9, <1>18, <2>1, <3>1
  <2>2. CASE y < 0
    <3>1. Gained - B > -(p * c) /\ ~(held' > held)
      BY <1>9, <1>14, <1>16, <1>18, <2>2
    <3> QED BY <1>18, <3>1
  <2>3. CASE y = 0
    <3>1. (y * P) * c = 0
      BY <1>12, <2>3
    <3>2. Gained - B >= 0 /\ ~(held' > held)
      BY <1>9, <1>14, <1>16, <2>3, <3>1
    <3>3. p * c > 0
      <4>1. p # 0
        BY DEF p, LedgerTypeOK
      <4> QED BY <1>12, <4>1
    <3> QED BY <1>14, <1>16, <1>18, <3>2, <3>3
  <2> QED BY <1>13, <2>1, <2>2, <2>3
<1>20. D - Charged > -b * e
  <2>1. /\ (z * P) * e \in Int /\ ((z - 1) * P) * e \in Int /\ b * e \in Int
        /\ -b * e = -(b * e)
    BY <1>12, <1>13
  <2>2. CASE z > 0
    BY <1>9, <1>14, <1>17, <2>1, <2>2
  <2>3. CASE z < 0
    BY <1>9, <1>13, <1>14, <1>17, <2>1, <2>3
  <2>4. CASE z = 0
    <3>1. ((z - 1) * P) * e = -(P * e)
      BY <1>12, <2>4
    <3>2. P * e <= b * e /\ P * e \in Int
      BY <1>12, ProductMonotonic
    <3>3. D > -(P * e) /\ Charged = 0
      BY <1>9, <1>17, <2>4, <3>1
    <3> QED BY <1>17, <2>1, <3>2, <3>3
  <2> QED BY <1>13, <2>2, <2>3, <2>4
<1> QED BY <1>15, <1>19, <1>20 DEF Agreed, P, p, c, b, e

(* No operation and no liquidation costs the vault as much as a raw unit of *)
(* its position in the layer on either side: the roundings of the vault's   *)
(* books, of the scale of the tokens and of the layer's books, and the one  *)
(* token that operate adds to what is paid in, do not add up against the    *)
(* vault (user.rs, operate and liquidate).                                   *)
THEOREM BooksAgree == Spec => LedgersAgree
<1>1. BooksInv /\ [Next]_vars => [Users => Agreed]_vars
  <2> SUFFICES ASSUME BooksInv, Users PROVE Agreed
    OBVIOUS
  <2>1. LedgerTypeOK /\ borrow_price >= Precision
    BY DEF BooksInv, LedgerInv
  <2>2. LedgerTypeOK'
    BY <2>1, OperateKeepsType, LiquidateKeepsType DEF Users
  <2>3. /\ SupplySurplus' - SupplySurplus = Gained - (total_supply' - total_supply) * SupplyPrice
        /\ BorrowSurplus' - BorrowSurplus = (total_borrow' - total_borrow) * BorrowPrice - Charged
    BY <2>1, <2>2, SurplusChange
  <2>4. ASSUME NEW col \in {0, total_supply}, NEW debt \in {0, total_borrow},
               NEW amounts \in Amounts, Operate(col, debt, amounts[1], amounts[2])
        PROVE  Agreed
    BY <2>1, <2>2, <2>3, <2>4, OperateAgrees
  <2>5. ASSUME NEW amounts \in Liquidations, Liquidate(amounts[1], amounts[2])
        PROVE  Agreed
    <3>1. amounts[1] \in Nat /\ amounts[2] \in Nat
      BY LedgerAssumption DEF LedgerAssumption
    <3> QED BY <2>1, <2>2, <2>3, <2>5, <3>1, LiquidateAgrees
  <2> QED BY <2>4, <2>5 DEF Users
<1>2. [Users => Agreed]_vars =>
        [Users =>
           /\ SupplySurplus' - SupplySurplus
                > (IF held' > held THEN Precision - supply_price ELSE -supply_price) * supply_scale
           /\ BorrowSurplus' - BorrowSurplus > -borrow_price * borrow_scale]_vars
  BY DEF Agreed
<1> QED BY <1>1, <1>2, BooksInit, BooksStep, PTL DEF Spec, LedgersAgree
=============================================================================

--------------------------- MODULE SupplyAccount ---------------------------
(***************************************************************************)
(* What the liquidity layer promises a protocol about its supply position: *)
(* while the position earns interest, its raw amount changes only by the   *)
(* protocol's own deposits, rounded down, and withdrawals, rounded up, at  *)
(* a price that never falls; time and everybody else's instructions can    *)
(* only raise the price.  Programs on top of the layer are modelled over   *)
(* this specification, and Liquidity is checked to implement it.           *)
(***************************************************************************)
EXTENDS FixedPoint

CONSTANTS
  Precision,      \* an exchange price of 1
  OperateAmounts  \* the amounts of single operations

VARIABLES
  price,       \* the supply exchange price accrued to this second
  raw,         \* UserSupplyPosition.amount
  earning      \* UserSupplyPosition.with_interest

accountVars == <<price, raw, earning>>

RawOfDeposit(amount) == (amount * Precision) \div price
RawOfWithdrawal(amount) == DivCeil(amount * Precision, price)

AccountInit ==
  /\ price \in Nat /\ price >= Precision
  /\ raw = 0
  /\ earning \in BOOLEAN

(* The price rises with time, and whatever others do.                      *)
Accrue ==
  /\ price' >= price
  /\ raw' = raw /\ earning' = earning

Supply(amount) ==
  /\ RawOfDeposit(amount) # 0
  /\ raw' = raw + RawOfDeposit(amount)
  /\ price' = price /\ earning' = earning

Take(amount) ==
  /\ RawOfWithdrawal(amount) \in 1..raw
  /\ raw' = raw - RawOfWithdrawal(amount)
  /\ price' = price /\ earning' = earning

(* A position without interest holds tokens instead of shares, and an auth *)
(* may turn one kind into the other.                                       *)
HoldTokens(amount) ==
  /\ ~earning
  /\ raw' \in {raw + amount, raw - amount}
  /\ price' = price /\ earning' = earning

SwitchMode ==
  /\ earning' # earning
  /\ raw' \in Nat
  /\ price' = price

AccountNext ==
  \/ Accrue
  \/ \E amount \in OperateAmounts :
       Supply(amount) \/ Take(amount) \/ HoldTokens(amount)
  \/ SwitchMode

AccountSpec == AccountInit /\ [][AccountNext]_accountVars
=============================================================================

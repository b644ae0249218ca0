----------------------------- MODULE Positions -----------------------------
(***************************************************************************)
(* What one protocol supplied to, or borrowed from, the liquidity layer:   *)
(* the accounts UserSupplyPosition and UserBorrowPosition, their automated *)
(* limits, and how an amount moves them.  Pure operators: a position is a  *)
(* record with the fields of the Rust struct, and each operator returns    *)
(* the new record or says whether the handler accepts the call.            *)
(*                                                                         *)
(* Amounts and limits are raw (divided by the exchange price) in a         *)
(* position with interest and normal tokens in an interest-free one.       *)
(***************************************************************************)
EXTENDS LiquidityMath

CONSTANTS
  X14,             \* largest expand_percent of a borrow config
  X24,             \* largest expand_duration
  DebtCeilingCap   \* 10 times the mint's total supply (no cap for wrapped SOL)

ASSUME PositionsAssumption ==
  /\ X14 \in Nat /\ X24 \in Nat /\ DebtCeilingCap \in Nat
  /\ X14 <= U16_MAX

Status == {"Active", "Paused", "NotSet", "Absent"}   \* Absent: account not created

SupplyPosition ==
  [status : Status, with_interest : BOOLEAN, amount : 0..U64_MAX,
   withdrawal_limit : 0..U64_MAX, last_update : Nat, expand_pct : 0..FOUR_DECIMALS,
   expand_duration : 0..X24, base_withdrawal_limit : 0..U64_MAX]

BorrowPosition ==
  [status : Status, with_interest : BOOLEAN, amount : 0..U64_MAX,
   debt_ceiling : 0..U64_MAX, last_update : Nat, expand_pct : 0..X14,
   expand_duration : 0..X24, base_debt_ceiling : 0..U64_MAX,
   max_debt_ceiling : 0..U64_MAX]

(* The accounts as UserSupplyPosition::init and UserBorrowPosition::init   *)
(* leave them; status Absent stands for an account that does not exist.    *)
NewSupplyPosition(status, now) ==
  [status |-> status, with_interest |-> FALSE, amount |-> 0, withdrawal_limit |-> 0,
   last_update |-> now, expand_pct |-> 0, expand_duration |-> 0,
   base_withdrawal_limit |-> 0]

NewBorrowPosition(status, now) ==
  [status |-> status, with_interest |-> FALSE, amount |-> 0, debt_ceiling |-> 0,
   last_update |-> now, expand_pct |-> 0, expand_duration |-> 0,
   base_debt_ceiling |-> 0, max_debt_ceiling |-> 0]

PercentOf(amount, pct) == (amount * pct) \div FOUR_DECIMALS

-----------------------------------------------------------------------------
(* The withdrawal limit: the amount a position may not be withdrawn below. *)

WithdrawalLimitBefore(pos, now) ==
  LET withdrawable == PercentOf(pos.amount, pos.expand_pct)
      expanded == (withdrawable * (now - pos.last_update)) \div pos.expand_duration
  IN  IF pos.withdrawal_limit = 0 THEN 0
      ELSE Greatest(SaturatingSub(pos.withdrawal_limit, expanded), pos.amount - withdrawable)

(* Mutant: every operation leaves the limit fully expanded.                *)
AlwaysFullyExpanded(pos, amount, limit) ==
  IF amount < pos.base_withdrawal_limit THEN 0 ELSE amount - PercentOf(amount, pos.expand_pct)

WithdrawalLimitAfter(pos, amount, limit) ==
  IF amount < pos.base_withdrawal_limit THEN 0
  ELSE Greatest(amount - PercentOf(amount, pos.expand_pct), limit)

(* Mutant: a deposit is rounded up.                                        *)
SupplyDeltaCeil(pos, amount, price) ==
  CASE ~pos.with_interest -> amount
    [] pos.with_interest /\ amount > 0 -> DivCeil(amount * Precision, price)
    [] pos.with_interest /\ amount <= 0 -> -DivCeil(-amount * Precision, price)

(* The raw (or normal) amount by which a deposit or withdrawal of amount   *)
(* moves the position: deposits round down, withdrawals up.                *)
SupplyDelta(pos, amount, price) ==
  CASE ~pos.with_interest -> amount
    [] pos.with_interest /\ amount > 0 -> (amount * Precision) \div price
    [] pos.with_interest /\ amount <= 0 -> -DivCeil(-amount * Precision, price)

(* The limit divides by expand_duration as soon as there is one to expand. *)
SupplyOrWithdrawAllowed(pos, amount, price, now) ==
  LET delta == SupplyDelta(pos, amount, price)
  IN  /\ pos.status = "Active"
      /\ pos.withdrawal_limit # 0 => pos.expand_duration # 0
      /\ delta # 0
      /\ pos.amount + delta \in 0..U64_MAX
      /\ amount < 0 => pos.amount + delta >= WithdrawalLimitBefore(pos, now)

SupplyOrWithdraw(pos, amount, price, now) ==
  LET new == pos.amount + SupplyDelta(pos, amount, price)
  IN  [pos EXCEPT !.amount = new,
                  !.withdrawal_limit =
                      WithdrawalLimitAfter(pos, new, WithdrawalLimitBefore(pos, now)),
                  !.last_update = now]

-----------------------------------------------------------------------------
(* The debt ceiling: the amount a position may not be borrowed above.      *)

FullyExpanded(pos, amount) == amount + PercentOf(amount, pos.expand_pct)

(* Mutant: the hard ceiling is not applied.                                *)
LimitWithoutCeiling(pos, now) ==
  LET expansion == PercentOf(pos.amount, pos.expand_pct)
  IN  IF FullyExpanded(pos, pos.amount) < pos.base_debt_ceiling THEN pos.base_debt_ceiling
      ELSE Least((expansion * (now - pos.last_update)) \div pos.expand_duration + pos.debt_ceiling,
                 FullyExpanded(pos, pos.amount))

BorrowLimitBefore(pos, now) ==
  LET expansion == PercentOf(pos.amount, pos.expand_pct)
      expanded == (expansion * (now - pos.last_update)) \div pos.expand_duration
                    + pos.debt_ceiling
  IN  IF FullyExpanded(pos, pos.amount) < pos.base_debt_ceiling THEN pos.base_debt_ceiling
      ELSE Least(Least(expanded, FullyExpanded(pos, pos.amount)), pos.max_debt_ceiling)

(* Mutant: every operation leaves the ceiling fully expanded.              *)
CeilingReopened(pos, amount, limit) ==
  IF FullyExpanded(pos, amount) < pos.base_debt_ceiling THEN pos.base_debt_ceiling
  ELSE Least(FullyExpanded(pos, amount), pos.max_debt_ceiling)

BorrowLimitAfter(pos, amount, limit) ==
  IF FullyExpanded(pos, amount) < pos.base_debt_ceiling THEN pos.base_debt_ceiling
  ELSE Least(limit, Least(FullyExpanded(pos, amount), pos.max_debt_ceiling))

(* Mutant: borrowing rounds down, paying back rounds up.                   *)
BorrowDeltaFloor(pos, amount, price) ==
  IF ~pos.with_interest THEN amount
  ELSE IF amount > 0 THEN (amount * Precision) \div price
  ELSE -DivCeil(-amount * Precision, price)

(* Borrowing rounds up, paying back rounds down.                           *)
BorrowDelta(pos, amount, price) ==
  CASE ~pos.with_interest -> amount
    [] pos.with_interest /\ amount > 0 -> DivCeil(amount * Precision, price)
    [] pos.with_interest /\ amount <= 0 -> -((-amount * Precision) \div price)

BorrowOrPaybackAllowed(pos, amount, price, now) ==
  LET delta == BorrowDelta(pos, amount, price)
  IN  /\ pos.status = "Active"
      /\ FullyExpanded(pos, pos.amount) >= pos.base_debt_ceiling => pos.expand_duration # 0
      /\ delta # 0
      /\ pos.amount + delta \in 0..U64_MAX
      /\ amount > 0 => pos.amount + delta <= BorrowLimitBefore(pos, now)

BorrowOrPayback(pos, amount, price, now) ==
  LET new == pos.amount + BorrowDelta(pos, amount, price)
  IN  [pos EXCEPT !.amount = new,
                  !.debt_ceiling = BorrowLimitAfter(pos, new, BorrowLimitBefore(pos, now)),
                  !.last_update = now]

-----------------------------------------------------------------------------
(* Configuration by an auth.                                               *)

SupplyConfigAllowed(c) ==
  /\ c.mode <= 1
  /\ c.expand_percent <= FOUR_DECIMALS
  /\ c.expand_duration \in 1..X24
  /\ c.base_withdrawal_limit \in 1..U64_MAX

BorrowConfigAllowed(c) ==
  /\ c.mode <= 1
  /\ c.base_debt_ceiling <= c.max_debt_ceiling
  /\ c.max_debt_ceiling <= DebtCeilingCap
  /\ c.expand_percent <= X14
  /\ c.expand_duration \in 1..X24
  /\ c.base_debt_ceiling \in 1..U64_MAX /\ c.max_debt_ceiling \in 1..U64_MAX

(* A position configured for the first time, or again, becomes as c says;  *)
(* only the first configuration changes the status.                        *)
Activated(status) == IF status = "NotSet" THEN "Active" ELSE status

WithSupplyConfig(pos, c) ==
  [pos EXCEPT !.status = Activated(@), !.with_interest = (c.mode = 1),
              !.expand_pct = c.expand_percent, !.expand_duration = c.expand_duration,
              !.base_withdrawal_limit = c.base_withdrawal_limit]

WithBorrowConfig(pos, c) ==
  [pos EXCEPT !.status = Activated(@), !.with_interest = (c.mode = 1),
              !.expand_pct = c.expand_percent, !.expand_duration = c.expand_duration,
              !.base_debt_ceiling = c.base_debt_ceiling,
              !.max_debt_ceiling = c.max_debt_ceiling]

(* A configured position whose mode changes has its amounts converted.     *)
ModeChanges(pos, c) == pos.status # "NotSet" /\ pos.with_interest # (c.mode = 1)

ToMode(amount, mode, price) ==
  IF mode = 1 THEN (amount * Precision) \div price ELSE (amount * price) \div Precision

(* Mutant: debts are converted in favour of the borrower.                  *)
ToModeFloor(amount, mode, price) == ToMode(amount, mode, price)

ToModeCeil(amount, mode, price) ==
  IF mode = 1 THEN DivCeil(amount * Precision, price) ELSE DivCeil(amount * price, Precision)

ConvertedSupply(pos, mode, price) ==
  [pos EXCEPT !.amount = ToMode(@, mode, price),
              !.withdrawal_limit = ToMode(@, mode, price)]

ConvertedBorrow(pos, mode, price) ==
  [pos EXCEPT !.amount = ToModeCeil(@, mode, price),
              !.debt_ceiling = ToMode(@, mode, price)]

(* Mutant: the requested limit is not capped by the supply.                *)
UncappedWithdrawalLimit(pos, new_limit) ==
  IF pos.amount < pos.base_withdrawal_limit THEN 0
  ELSE Greatest(new_limit, pos.amount - PercentOf(pos.amount, pos.expand_pct))

(* The limit update_user_withdrawal_limit stores: the requested one moved  *)
(* into the range from full expansion to the supplied amount, and none for *)
(* a position below its base limit.                                        *)
AdjustedWithdrawalLimit(pos, new_limit) ==
  LET full == pos.amount - PercentOf(pos.amount, pos.expand_pct)
  IN  CASE pos.amount < pos.base_withdrawal_limit -> 0
        [] pos.amount >= pos.base_withdrawal_limit /\ new_limit < full -> full
        [] pos.amount >= pos.base_withdrawal_limit /\ new_limit >= full ->
             Least(new_limit, pos.amount)
=============================================================================

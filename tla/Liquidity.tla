----------------------------- MODULE Liquidity -----------------------------
(***************************************************************************)
(* The liquidity layer for one mint: the token reserve, its rate model,    *)
(* the vault token account, the positions of the protocols and the claim   *)
(* accounts of the users, under the instructions of the liquidity program. *)
(*                                                                         *)
(* Every instruction is one atomic action (Solana serialises transactions  *)
(* that write the same accounts and rolls back the ones that fail), but a  *)
(* deposit needs three of them, pre_operate, a token transfer and operate, *)
(* which are separate actions here: nothing in the program makes them part *)
(* of one transaction, only of one second.                                 *)
(***************************************************************************)
EXTENDS AccessControl, Positions

CONSTANTS
  PROTOCOL_INIT_AUTH,       \* key that may create accounts without being an auth
  MIN_OPERATE_AMOUNT, MAX_OPERATE,
  MAX_INPUT_AMOUNT_EXCESS,  \* excess of a transfer over the operated amount, in 1 / FOUR_DECIMALS
  Recipients,               \* keys that receive or claim tokens
  NoProtocol,               \* the interacting_protocol of a reserve nobody interacts with
  \* arguments explored
  SupplyAmounts, BorrowAmounts, TransferAmounts, TransferTypes,
  RateDataV1, RateDataV2, TokenConfigs,
  UserSupplyConfigs, UserBorrowConfigs, WithdrawalLimits,
  \* bounds
  MaxTime, MaxVault

ASSUME LiquidityAssumption ==
  /\ MIN_OPERATE_AMOUNT \in Nat /\ MAX_OPERATE \in Nat /\ MAX_INPUT_AMOUNT_EXCESS \in Nat
  /\ IsFiniteSet(Recipients) /\ DefaultPubkey \notin Recipients
  /\ NoProtocol \notin Protocols
  /\ SupplyAmounts \subseteq Int /\ BorrowAmounts \subseteq Int
  /\ TransferAmounts \subseteq Nat \ {0}
  /\ TransferTypes \subseteq {"SKIP", "DIRECT", "CLAIM"}
  /\ RateDataV1 \subseteq
       [kink : Nat, rate_at_utilization_zero : Nat, rate_at_utilization_kink : Nat,
        rate_at_utilization_max : Nat]
  /\ RateDataV2 \subseteq
       [kink1 : Nat, kink2 : Nat, rate_at_utilization_zero : Nat,
        rate_at_utilization_kink1 : Nat, rate_at_utilization_kink2 : Nat,
        rate_at_utilization_max : Nat]
  /\ TokenConfigs \subseteq [fee : Nat, max_utilization : Nat]
  /\ UserSupplyConfigs \subseteq
       [mode : Nat, expand_percent : Nat, expand_duration : Nat,
        base_withdrawal_limit : Nat]
  /\ UserBorrowConfigs \subseteq
       [mode : Nat, expand_percent : Nat, expand_duration : Nat,
        base_debt_ceiling : Nat, max_debt_ceiling : Nat]
  /\ WithdrawalLimits \subseteq Nat
  /\ MaxTime \in Nat /\ MaxVault \in 0..U64_MAX

VARIABLES
  now,          \* Clock::get()?.unix_timestamp
  vault,        \* balance of the liquidity layer's token account
  reserve,      \* TokenReserve, without the fields of interacting
  interacting,  \* TokenReserve.interacting_*: the last pre_operate not yet used
  rate_model,   \* RateModel
  supplyPos,    \* protocol -> UserSupplyPosition
  borrowPos,    \* protocol -> UserBorrowPosition
  claimOpen,    \* recipients whose UserClaim account exists
  claimAmount   \* recipient -> UserClaim.amount

positionVars == <<supplyPos, borrowPos>>
claimVars == <<claimOpen, claimAmount>>
moneyVars == <<now, vault, reserve, interacting, rate_model, supplyPos, borrowPos,
               claimOpen, claimAmount>>
vars == <<accessVars, moneyVars>>

Amount == 0..U64_MAX

Reserve ==
  [borrow_rate : 0..U16_MAX, fee_on_interest : 0..FOUR_DECIMALS,
   last_utilization : 0..U16_MAX, last_update_timestamp : Nat,
   supply_exchange_price : 1..U64_MAX, borrow_exchange_price : 1..U64_MAX,
   max_utilization : 0..FOUR_DECIMALS,
   total_supply_with_interest : Amount, total_supply_interest_free : Amount,
   total_borrow_with_interest : Amount, total_borrow_interest_free : Amount,
   total_claim_amount : Amount]

Interaction == [protocol : Protocols \cup {NoProtocol}, timestamp : Nat, balance : Amount]

RateModel ==
  [version : 0..2, rate_at_zero : 0..U16_MAX, kink1_utilization : 0..U16_MAX,
   rate_at_kink1 : 0..U16_MAX, rate_at_max : 0..U16_MAX,
   kink2_utilization : 0..U16_MAX, rate_at_kink2 : 0..U16_MAX]

TypeOK ==
  /\ AccessTypeOK
  /\ now \in Nat
  /\ vault \in Amount
  /\ reserve \in Reserve
  /\ interacting \in Interaction
  /\ rate_model \in RateModel
  /\ supplyPos \in [Protocols -> SupplyPosition]
  /\ borrowPos \in [Protocols -> BorrowPosition]
  /\ claimOpen \subseteq Recipients
  /\ claimAmount \in [Recipients -> Nat]

-----------------------------------------------------------------------------
NoInteraction == [protocol |-> NoProtocol, timestamp |-> 0, balance |-> 0]

(* A reserve and a rate model as init_token_reserve leaves them, and no    *)
(* protocol or claim account yet.                                          *)
NewReserve ==
  [borrow_rate |-> 0, fee_on_interest |-> 0, last_utilization |-> 0,
   last_update_timestamp |-> 0,
   supply_exchange_price |-> EXCHANGE_PRICES_PRECISION,
   borrow_exchange_price |-> EXCHANGE_PRICES_PRECISION,
   max_utilization |-> 0,
   total_supply_with_interest |-> 0, total_supply_interest_free |-> 0,
   total_borrow_with_interest |-> 0, total_borrow_interest_free |-> 0,
   total_claim_amount |-> 0]

NewRateModel ==
  [version |-> 0, rate_at_zero |-> 0, kink1_utilization |-> 0, rate_at_kink1 |-> 0,
   rate_at_max |-> 0, kink2_utilization |-> 0, rate_at_kink2 |-> 0]

Init ==
  /\ AccessInit
  /\ now = 0
  /\ vault = 0
  /\ reserve = NewReserve
  /\ interacting = NoInteraction
  /\ rate_model = NewRateModel
  /\ supplyPos = [p \in Protocols |-> NewSupplyPosition("Absent", 0)]
  /\ borrowPos = [p \in Protocols |-> NewBorrowPosition("Absent", 0)]
  /\ claimOpen = {}
  /\ claimAmount = [u \in Recipients |-> 0]

-----------------------------------------------------------------------------
(* Refreshing the reserve.                                                 *)

StoredPrices(r) == [supply |-> r.supply_exchange_price, borrow |-> r.borrow_exchange_price]

(* r with the prices stored, at time now: update_exchange_price.           *)
WithPrices(r, prices) ==
  [r EXCEPT !.supply_exchange_price = prices.supply,
            !.borrow_exchange_price = prices.borrow,
            !.last_update_timestamp = now]

Accrued(r) == WithPrices(r, CalculateExchangePrices(r, now))

(* r with the prices stored and utilization and rate taken from its totals *)
(* and the curve m.                                                        *)
Restated(r, prices, m) ==
  [WithPrices(r, prices) EXCEPT
     !.last_utilization = CalcUtilization(r, prices),
     !.borrow_rate = CalcBorrowRate(m, CalcUtilization(r, prices))]

PricesFit(prices) == prices.supply <= U64_MAX /\ prices.borrow <= U64_MAX

(* Values that do not fit their fields and undefined rates are errors.     *)
RestateAllowed(r, prices, m) ==
  /\ PricesFit(prices)
  /\ CalcUtilization(r, prices) <= U16_MAX
  /\ RateDefined(m, CalcUtilization(r, prices))

(* update_exchange_prices_and_rates.                                       *)
Refreshed(r, m) == Restated(r, CalculateExchangePrices(r, now), m)
RefreshAllowed(r, m) == RestateAllowed(r, CalculateExchangePrices(r, now), m)

(* A total after a signed change; it saturates at zero.                    *)
Shifted(total, delta) ==
  IF delta > 0 THEN total + delta ELSE SaturatingSub(total, -delta)

(* Mutant: every amount is booked as bearing interest.                     *)
ShiftWithInterest(r, with_interest, delta) ==
  [r EXCEPT !.total_supply_with_interest = Shifted(@, delta)]

ShiftSupply(r, with_interest, delta) ==
  IF with_interest THEN [r EXCEPT !.total_supply_with_interest = Shifted(@, delta)]
  ELSE [r EXCEPT !.total_supply_interest_free = Shifted(@, delta)]

ShiftBorrow(r, with_interest, delta) ==
  IF with_interest THEN [r EXCEPT !.total_borrow_with_interest = Shifted(@, delta)]
  ELSE [r EXCEPT !.total_borrow_interest_free = Shifted(@, delta)]

TotalsFit(r) ==
  /\ r.total_supply_with_interest <= U64_MAX /\ r.total_supply_interest_free <= U64_MAX
  /\ r.total_borrow_with_interest <= U64_MAX /\ r.total_borrow_interest_free <= U64_MAX

-----------------------------------------------------------------------------
(* Instructions of the protocols and their users.                          *)

Positive(x) == IF x > 0 THEN x ELSE 0

PreOperate(p) ==
  /\ ~locked
  /\ supplyPos[p].status # "Absent" \/ borrowPos[p].status # "Absent"
  /\ interacting' = [protocol |-> p, timestamp |-> now, balance |-> vault]
  /\ UNCHANGED <<accessVars, now, vault, reserve, rate_model, positionVars, claimVars>>

(* Anybody may send tokens to the vault account at any time; a deposit and *)
(* a payback arrive this way before operate accounts for them.             *)
TransferIn(amount) ==
  /\ vault + amount <= MaxVault
  /\ vault' = vault + amount
  /\ UNCHANGED <<accessVars, now, reserve, interacting, rate_model, positionVars, claimVars>>

(* Mutant: whose pre_operate it was, and when, is not checked.             *)
AmountArrivedForAnybody(p, amount) ==
  LET net_amount_in == vault - interacting.balance
  IN  /\ net_amount_in >= amount
      /\ net_amount_in <= PercentOf(amount, FOUR_DECIMALS + MAX_INPUT_AMOUNT_EXCESS)

(* The tokens of a deposit or payback of amount arrived since p's own      *)
(* pre_operate in this second, with a small excess at most.                *)
AmountArrived(p, amount) ==
  LET net_amount_in == vault - interacting.balance
  IN  /\ interacting.protocol = p /\ interacting.timestamp = now
      /\ net_amount_in >= amount
      /\ net_amount_in <= PercentOf(amount, FOUR_DECIMALS + MAX_INPUT_AMOUNT_EXCESS)

OperateAmountsAllowed(supply, borrow) ==
  /\ supply \in -MAX_OPERATE..MAX_OPERATE /\ borrow \in -MAX_OPERATE..MAX_OPERATE
  /\ \/ supply \notin (-MIN_OPERATE_AMOUNT+1)..(MIN_OPERATE_AMOUNT-1)
     \/ borrow \notin (-MIN_OPERATE_AMOUNT+1)..(MIN_OPERATE_AMOUNT-1)

(* Mutants: no look at the balance; no look at what is reserved for claims.*)
PayoutUnbounded(transfer_type, withdrawn, withdraw_to, borrowed, borrow_to) ==
  withdrawn + borrowed > 0 => transfer_type # "SKIP"
PayoutOverClaims(transfer_type, withdrawn, withdraw_to, borrowed, borrow_to) ==
  withdrawn + borrowed > 0 =>
    /\ transfer_type # "SKIP"
    /\ withdrawn + borrowed <= vault
    /\ transfer_type = "CLAIM" => {withdraw_to, borrow_to} \subseteq claimOpen

(* handle_transfer_or_claim: what leaves may not touch what is reserved    *)
(* for claims, and a claim needs the recipient's claim account.            *)
PayoutAllowed(transfer_type, withdrawn, withdraw_to, borrowed, borrow_to) ==
  withdrawn + borrowed > 0 =>
    /\ transfer_type # "SKIP"
    /\ withdrawn + borrowed + reserve.total_claim_amount <= vault
    /\ transfer_type = "CLAIM" =>
         /\ withdrawn > 0 => withdraw_to \in claimOpen
         /\ borrowed > 0 => borrow_to \in claimOpen

Operate(p, supply, borrow, withdraw_to, borrow_to, transfer_type) ==
  LET prices == CalculateExchangePrices(reserve, now)
      supplied == Positive(supply) + Positive(-borrow)
      withdrawn == Positive(-supply)
      borrowed == Positive(borrow)
      moved == ShiftBorrow(
                 ShiftSupply(reserve, supplyPos[p].with_interest,
                             SupplyDelta(supplyPos[p], supply, prices.supply)),
                 borrowPos[p].with_interest,
                 BorrowDelta(borrowPos[p], borrow, prices.borrow))
      final == Restated(moved, prices, rate_model)
      claims == transfer_type = "CLAIM"
  IN  /\ ~locked
      /\ OperateAmountsAllowed(supply, borrow)
      /\ supplied > 0 => AmountArrived(p, supplied)
      /\ supply # 0 => SupplyOrWithdrawAllowed(supplyPos[p], supply, prices.supply, now)
      /\ borrow # 0 => BorrowOrPaybackAllowed(borrowPos[p], borrow, prices.borrow, now)
      /\ TotalsFit(moved)
      /\ supply # 0 /\ ~supplyPos[p].with_interest =>
           moved.total_supply_interest_free <= MAX_TOKEN_AMOUNT_CAP
      /\ borrow # 0 /\ ~borrowPos[p].with_interest =>
           moved.total_borrow_interest_free <= MAX_TOKEN_AMOUNT_CAP
      /\ ScaledAmountsFit(moved, prices, supply, borrow)
      /\ RestateAllowed(moved, prices, rate_model)
      /\ borrow > 0 => final.last_utilization <= reserve.max_utilization
      /\ PayoutAllowed(transfer_type, withdrawn, withdraw_to, borrowed, borrow_to)
      /\ supplyPos' = IF supply = 0 THEN supplyPos
                      ELSE [supplyPos EXCEPT ![p] = SupplyOrWithdraw(@, supply, prices.supply, now)]
      /\ borrowPos' = IF borrow = 0 THEN borrowPos
                      ELSE [borrowPos EXCEPT ![p] = BorrowOrPayback(@, borrow, prices.borrow, now)]
      /\ reserve' = [final EXCEPT !.total_claim_amount =
                       @ + IF claims THEN withdrawn + borrowed ELSE 0]
      /\ interacting' = NoInteraction
      /\ vault' = IF claims THEN vault ELSE vault - (withdrawn + borrowed)
      /\ claimAmount' = IF ~claims THEN claimAmount
                        ELSE [u \in Recipients |->
                               claimAmount[u] + (IF u = withdraw_to THEN withdrawn ELSE 0)
                                              + (IF u = borrow_to THEN borrowed ELSE 0)]
      /\ UNCHANGED <<accessVars, now, rate_model, claimOpen>>

(* Mutant: an existing account is initialised again.                       *)
ReinitClaimAccount(user) ==
  /\ claimOpen' = claimOpen \cup {user}
  /\ claimAmount' = [claimAmount EXCEPT ![user] = 0]
  /\ UNCHANGED <<accessVars, now, vault, reserve, interacting, rate_model, positionVars>>

InitClaimAccount(user) ==
  /\ user \notin claimOpen
  /\ claimOpen' = claimOpen \cup {user}
  /\ claimAmount' = [claimAmount EXCEPT ![user] = 0]
  /\ UNCHANGED <<accessVars, now, vault, reserve, interacting, rate_model, positionVars>>

CloseClaimAccount(user) ==
  /\ user \in claimOpen
  /\ claimAmount[user] = 0
  /\ claimOpen' = claimOpen \ {user}
  /\ UNCHANGED <<accessVars, now, vault, reserve, interacting, rate_model, positionVars,
                 claimAmount>>

Claim(user) ==
  LET amount == claimAmount[user]
  IN  /\ ~locked
      /\ user \in claimOpen
      /\ amount > 0
      /\ amount <= reserve.total_claim_amount
      /\ amount <= vault                     \* else the token transfer fails
      /\ vault' = vault - amount
      /\ reserve' = [reserve EXCEPT !.total_claim_amount = @ - amount]
      /\ claimAmount' = [claimAmount EXCEPT ![user] = 0]
      /\ UNCHANGED <<accessVars, now, interacting, rate_model, positionVars, claimOpen>>

(* Anybody may bring prices, utilization and rate up to date.              *)
UpdateExchangePrice ==
  /\ RefreshAllowed(reserve, rate_model)
  /\ reserve' = Refreshed(reserve, rate_model)
  /\ UNCHANGED <<accessVars, now, vault, interacting, rate_model, positionVars, claimVars>>

-----------------------------------------------------------------------------
(* Instructions of auths, guardians and the initialising key.              *)

Sides == {"supply", "borrow"}

(* Creates the protocol's position of this mint on the given sides; the    *)
(* other position of the call, if any, belongs to another mint.            *)
InitNewProtocol(signer, p, sides) ==
  /\ signer \in auth_users \/ signer = PROTOCOL_INIT_AUTH
  /\ "supply" \in sides => supplyPos[p].status = "Absent"
  /\ "borrow" \in sides => borrowPos[p].status = "Absent"
  /\ supplyPos' = IF "supply" \in sides
                  THEN [supplyPos EXCEPT ![p] = NewSupplyPosition("NotSet", now)] ELSE supplyPos
  /\ borrowPos' = IF "borrow" \in sides
                  THEN [borrowPos EXCEPT ![p] = NewBorrowPosition("NotSet", now)] ELSE borrowPos
  /\ UNCHANGED <<accessVars, now, vault, reserve, interacting, rate_model, claimVars>>

(* Revenue is what the vault and the borrowers hold beyond supply and      *)
(* claims; it does not wait for the program to be unlocked.                *)
CollectRevenue(signer) ==
  LET revenue_amount == CalcRevenue(reserve, vault, now)
  IN  /\ signer \in auth_users
      /\ revenue_amount <= vault             \* else the token transfer fails
      /\ vault' = vault - revenue_amount
      /\ UNCHANGED <<accessVars, now, reserve, interacting, rate_model, positionVars, claimVars>>

(* Mutant: the borrow rate of the old curve is kept.                       *)
InstallCurveOnly(signer, curve) ==
  /\ signer \in auth_users
  /\ PricesFit(CalculateExchangePrices(reserve, now))
  /\ rate_model' = curve
  /\ reserve' = Accrued(reserve)
  /\ UNCHANGED <<accessVars, now, vault, interacting, positionVars, claimVars>>

(* Prices accrue under the old curve before the new one is stored.         *)
InstallCurve(signer, curve) ==
  /\ signer \in auth_users
  /\ PricesFit(CalculateExchangePrices(reserve, now))
  /\ RefreshAllowed(Accrued(reserve), curve)
  /\ rate_model' = curve
  /\ reserve' = Refreshed(Accrued(reserve), curve)
  /\ UNCHANGED <<accessVars, now, vault, interacting, positionVars, claimVars>>

UpdateRateDataV1(signer, d) ==
  /\ d.kink \in 1..(FOUR_DECIMALS - 1)
  /\ d.rate_at_utilization_kink <= d.rate_at_utilization_max
  /\ d.rate_at_utilization_zero <= U16_MAX /\ d.rate_at_utilization_max <= U16_MAX
  /\ InstallCurve(signer, [rate_model EXCEPT !.version = 1,
                             !.rate_at_zero = d.rate_at_utilization_zero,
                             !.kink1_utilization = d.kink,
                             !.rate_at_kink1 = d.rate_at_utilization_kink,
                             !.rate_at_max = d.rate_at_utilization_max])

UpdateRateDataV2(signer, d) ==
  /\ d.kink1 \in 1..(FOUR_DECIMALS - 1)
  /\ d.kink1 < d.kink2 /\ d.kink2 < FOUR_DECIMALS
  /\ d.rate_at_utilization_kink2 <= d.rate_at_utilization_max
  /\ d.rate_at_utilization_zero <= U16_MAX /\ d.rate_at_utilization_kink1 <= U16_MAX
  /\ d.rate_at_utilization_max <= U16_MAX
  /\ InstallCurve(signer, [rate_model EXCEPT !.version = 2,
                             !.rate_at_zero = d.rate_at_utilization_zero,
                             !.kink1_utilization = d.kink1,
                             !.rate_at_kink1 = d.rate_at_utilization_kink1,
                             !.kink2_utilization = d.kink2,
                             !.rate_at_kink2 = d.rate_at_utilization_kink2,
                             !.rate_at_max = d.rate_at_utilization_max])

(* Mutant: the new fee applies to the time since the last update.          *)
RetroactiveTokenConfig(r, c) ==
  [r EXCEPT !.fee_on_interest = c.fee, !.max_utilization = c.max_utilization]

WithTokenConfig(r, c) ==
  [Accrued(r) EXCEPT !.fee_on_interest = c.fee, !.max_utilization = c.max_utilization]

UpdateTokenConfig(signer, c) ==
  LET configured == WithTokenConfig(reserve, c)
  IN  /\ signer \in auth_users
      /\ rate_model.version # 0
      /\ c.fee <= FOUR_DECIMALS
      /\ c.max_utilization \in 1..FOUR_DECIMALS
      /\ PricesFit(CalculateExchangePrices(reserve, now))
      /\ RefreshAllowed(configured, rate_model)
      /\ reserve' = Refreshed(configured, rate_model)
      /\ UNCHANGED <<accessVars, now, vault, interacting, rate_model, positionVars, claimVars>>

UpdateUserWithdrawalLimit(signer, p, new_limit) ==
  /\ signer \in auth_users
  /\ supplyPos[p].status # "Absent"
  /\ supplyPos' = [supplyPos EXCEPT
                     ![p].withdrawal_limit = AdjustedWithdrawalLimit(supplyPos[p], new_limit),
                     ![p].last_update = now]
  /\ UNCHANGED <<accessVars, now, vault, reserve, interacting, rate_model, borrowPos, claimVars>>

(* A first configuration, or one that keeps the interest mode, touches the *)
(* position only.                                                          *)
UpdateUserSupplyConfig(signer, p, c) ==
  /\ signer \in auth_users
  /\ supplyPos[p].status # "Absent"
  /\ reserve.max_utilization # 0
  /\ SupplyConfigAllowed(c)
  /\ ~ModeChanges(supplyPos[p], c)
  /\ supplyPos' = [supplyPos EXCEPT ![p] = WithSupplyConfig(@, c)]
  /\ UNCHANGED <<accessVars, now, vault, reserve, interacting, rate_model, borrowPos, claimVars>>

(* A configuration that changes the mode converts the amount at the price  *)
(* of this second and moves it from one total to the other.                *)
SwitchSupplyMode(signer, p, c) ==
  LET pos == supplyPos[p]
      prices == CalculateExchangePrices(reserve, now)
      converted == ConvertedSupply(pos, c.mode, prices.supply)
      moved == ShiftSupply(ShiftSupply(Accrued(reserve), pos.with_interest, -pos.amount),
                           c.mode = 1, converted.amount)
  IN  /\ signer \in auth_users
      /\ pos.status # "Absent"
      /\ reserve.max_utilization # 0
      /\ SupplyConfigAllowed(c)
      /\ ModeChanges(pos, c)
      /\ PricesFit(prices)
      /\ converted.amount <= U64_MAX /\ converted.withdrawal_limit <= U64_MAX
      /\ TotalsFit(moved)
      /\ RefreshAllowed(moved, rate_model)
      /\ supplyPos' = [supplyPos EXCEPT ![p] = WithSupplyConfig(converted, c)]
      /\ reserve' = Refreshed(moved, rate_model)
      /\ UNCHANGED <<accessVars, now, vault, interacting, rate_model, borrowPos, claimVars>>

UpdateUserBorrowConfig(signer, p, c) ==
  /\ signer \in auth_users
  /\ borrowPos[p].status # "Absent"
  /\ reserve.max_utilization # 0
  /\ BorrowConfigAllowed(c)
  /\ ~ModeChanges(borrowPos[p], c)
  /\ borrowPos' = [borrowPos EXCEPT ![p] = WithBorrowConfig(@, c)]
  /\ UNCHANGED <<accessVars, now, vault, reserve, interacting, rate_model, supplyPos, claimVars>>

SwitchBorrowMode(signer, p, c) ==
  LET pos == borrowPos[p]
      prices == CalculateExchangePrices(reserve, now)
      converted == ConvertedBorrow(pos, c.mode, prices.borrow)
      moved == ShiftBorrow(ShiftBorrow(Accrued(reserve), pos.with_interest, -pos.amount),
                           c.mode = 1, converted.amount)
  IN  /\ signer \in auth_users
      /\ pos.status # "Absent"
      /\ reserve.max_utilization # 0
      /\ BorrowConfigAllowed(c)
      /\ ModeChanges(pos, c)
      /\ PricesFit(prices)
      /\ converted.amount <= U64_MAX /\ converted.debt_ceiling <= U64_MAX
      /\ TotalsFit(moved)
      /\ RefreshAllowed(moved, rate_model)
      /\ borrowPos' = [borrowPos EXCEPT ![p] = WithBorrowConfig(converted, c)]
      /\ reserve' = Refreshed(moved, rate_model)
      /\ UNCHANGED <<accessVars, now, vault, interacting, rate_model, supplyPos, claimVars>>

(* Guardians pause the positions of class 0 protocols, on either side or   *)
(* on both; the whole call fails unless every position named is active.    *)
PauseUser(signer, p, sides) ==
  /\ signer \in guardians
  /\ UserClassOf(p) # 1
  /\ "supply" \in sides => supplyPos[p].status = "Active"
  /\ "borrow" \in sides => borrowPos[p].status = "Active"
  /\ supplyPos' = IF "supply" \in sides
                  THEN [supplyPos EXCEPT ![p].status = "Paused"] ELSE supplyPos
  /\ borrowPos' = IF "borrow" \in sides
                  THEN [borrowPos EXCEPT ![p].status = "Paused"] ELSE borrowPos
  /\ UNCHANGED <<accessVars, now, vault, reserve, interacting, rate_model, claimVars>>

(* Unpausing refuses active positions only: it looks neither at the class  *)
(* nor at whether the position was ever configured.                        *)
UnpauseUser(signer, p, sides) ==
  /\ signer \in guardians
  /\ "supply" \in sides => supplyPos[p].status \in {"Paused", "NotSet"}
  /\ "borrow" \in sides => borrowPos[p].status \in {"Paused", "NotSet"}
  /\ supplyPos' = IF "supply" \in sides
                  THEN [supplyPos EXCEPT ![p].status = "Active"] ELSE supplyPos
  /\ borrowPos' = IF "borrow" \in sides
                  THEN [borrowPos EXCEPT ![p].status = "Active"] ELSE borrowPos
  /\ UNCHANGED <<accessVars, now, vault, reserve, interacting, rate_model, claimVars>>

Tick ==
  /\ now < MaxTime
  /\ now' = now + 1
  /\ UNCHANGED <<accessVars, vault, reserve, interacting, rate_model, positionVars, claimVars>>

-----------------------------------------------------------------------------
NonEmptySides == {{"supply"}, {"borrow"}, Sides}

ProtocolNext ==
  \E p \in Protocols :
    \/ PreOperate(p)
    \/ \E s \in SupplyAmounts, b \in BorrowAmounts, wto, bto \in Recipients,
          type \in TransferTypes : Operate(p, s, b, wto, bto, type)

UserNext ==
  \/ \E amount \in TransferAmounts : TransferIn(amount)
  \/ \E user \in Recipients :
       InitClaimAccount(user) \/ CloseClaimAccount(user) \/ Claim(user)
  \/ UpdateExchangePrice
  \/ Tick

ReserveAdminNext(signer) ==
  \/ CollectRevenue(signer)
  \/ \E d \in RateDataV1 : UpdateRateDataV1(signer, d)
  \/ \E d \in RateDataV2 : UpdateRateDataV2(signer, d)
  \/ \E c \in TokenConfigs : UpdateTokenConfig(signer, c)

PositionAdminNext(signer) ==
  \E p \in Protocols :
    \/ \E sides \in NonEmptySides : InitNewProtocol(signer, p, sides)
    \/ \E limit \in WithdrawalLimits : UpdateUserWithdrawalLimit(signer, p, limit)
    \/ \E c \in UserSupplyConfigs :
         UpdateUserSupplyConfig(signer, p, c) \/ SwitchSupplyMode(signer, p, c)
    \/ \E c \in UserBorrowConfigs :
         UpdateUserBorrowConfig(signer, p, c) \/ SwitchBorrowMode(signer, p, c)
    \/ \E sides \in NonEmptySides : PauseUser(signer, p, sides) \/ UnpauseUser(signer, p, sides)

Next ==
  \/ AccessNext /\ UNCHANGED moneyVars
  \/ ProtocolNext
  \/ UserNext
  \/ \E signer \in Accounts : ReserveAdminNext(signer) \/ PositionAdminNext(signer)

Spec == Init /\ [][Next]_vars
-----------------------------------------------------------------------------
(***************************************************************************)
(* Correctness.                                                            *)
(***************************************************************************)

(* The sum of a function into the naturals, as the number of its units.    *)
Units(f) == UNION {{x} \X (1..f[x]) : x \in DOMAIN f}
SumOf(f) == Cardinality(Units(f))

SuppliedIn(mode) ==
  [p \in Protocols |-> IF supplyPos[p].with_interest = mode THEN supplyPos[p].amount ELSE 0]
BorrowedIn(mode) ==
  [p \in Protocols |-> IF borrowPos[p].with_interest = mode THEN borrowPos[p].amount ELSE 0]

(* The four running totals of the reserve are exactly the sums of the      *)
(* positions in each mode, after any deposits, withdrawals, borrows,       *)
(* paybacks and mode switches: the saturating subtractions never bite and  *)
(* no conversion is applied to one side only.                              *)
TotalsMatchPositions ==
  /\ reserve.total_supply_with_interest = SumOf(SuppliedIn(TRUE))
  /\ reserve.total_supply_interest_free = SumOf(SuppliedIn(FALSE))
  /\ reserve.total_borrow_with_interest = SumOf(BorrowedIn(TRUE))
  /\ reserve.total_borrow_interest_free = SumOf(BorrowedIn(FALSE))

(* The reserve's claim total is what the claim accounts hold together, so  *)
(* claim never fails for an approved amount (reduce_claim_amount).         *)
ClaimsMatchAccounts == reserve.total_claim_amount = SumOf(claimAmount)

(* The cached utilization and borrow rate are those of the totals, prices  *)
(* and curve stored beside them: every instruction that changes one of     *)
(* them recomputes the cache, so interest never accrues at a stale rate.   *)
CachedRateCurrent ==
  /\ reserve.last_utilization = CalcUtilization(reserve, StoredPrices(reserve))
  /\ rate_model.version # 0 =>
       reserve.borrow_rate = CalcBorrowRate(rate_model, reserve.last_utilization)

(* A change of curve, fee or totals never applies to time already elapsed: *)
(* the step that makes it first accrues at the old values up to now.       *)
NothingRetroactive ==
  [][[reserve EXCEPT !.total_claim_amount = 0] # [reserve' EXCEPT !.total_claim_amount = 0] =>
       /\ reserve'.last_update_timestamp = now
       /\ StoredPrices(reserve') = CalculateExchangePrices(reserve, now)]_vars

(* What the layer holds and is owed, and what it owes, at the stored       *)
(* prices, in units of 1 / EXCHANGE_PRICES_PRECISION of a token.           *)
Backing == vault * Precision + ScaledBorrow(reserve, reserve.borrow_exchange_price)
Owed == ScaledSupply(reserve, reserve.supply_exchange_price)
          + reserve.total_claim_amount * Precision

(* Tokens that arrived since the last pre_operate and that an operate of   *)
(* this second may still account for.                                      *)
InFlight ==
  IF interacting.protocol # NoProtocol /\ interacting.timestamp = now
  THEN SaturatingSub(vault, interacting.balance) ELSE 0

(* Vault and debts cover supply, claims and the deposits under way.        *)
Covered == Backing >= Owed + InFlight * Precision

InterestOnly ==
  reserve.total_supply_interest_free = 0 /\ reserve.total_borrow_interest_free = 0

(* collect_revenue pays out at prices accrued to this second and does not  *)
(* store them, so its share of the rounding is settled by a later accrual. *)
UnsettledCollection ==
  /\ reserve.last_update_timestamp # now
  /\ \E signer \in Accounts : CollectRevenue(signer)

(* No step makes the layer insolvent, not even by a rounding unit: no      *)
(* deposit is credited for tokens that did not arrive or arrived once for  *)
(* two operations, no rounding favours a user, suppliers are never         *)
(* credited more than borrowers pay, revenue leaves enough behind.  Two    *)
(* exceptions: revenue collected at prices that are not yet stored, and    *)
(* accrual over interest-free amounts, whose ratios are rounded either way.*)
SolvencyKept ==
  [][InterestOnly /\ Covered /\ ~UnsettledCollection => Covered']_vars

(* No position is allowed to shrink only to a limit above what it holds.   *)
WithdrawalLimitWithinSupply ==
  \A p \in Protocols : supplyPos[p].withdrawal_limit <= supplyPos[p].amount

(* Only collect_revenue can leave the vault short of the amounts users     *)
(* may claim: withdrawals and borrows never touch them.                    *)
ClaimsKept ==
  [][\/ \E signer \in Accounts : CollectRevenue(signer)
     \/ reserve.total_claim_amount <= vault =>
          reserve'.total_claim_amount <= vault']_vars

(* A deposit or withdrawal does not lower the limit in force, unless the   *)
(* limit is below the base, where all may leave: splitting a withdrawal,   *)
(* or mixing it with deposits, yields no more than one withdrawal.         *)
WithdrawalWindowNotReopened ==
  [][\A p \in Protocols :
       LET pos == supplyPos[p]
       IN  /\ pos.amount # supplyPos'[p].amount
           /\ pos.with_interest = supplyPos'[p].with_interest
           /\ pos.expand_duration # 0
           => \/ WithdrawalLimitBefore(pos, now) < pos.base_withdrawal_limit
              \/ WithdrawalLimitBefore(supplyPos'[p], now) >= WithdrawalLimitBefore(pos, now)
    ]_vars

(* Nor does a borrow or payback raise the debt ceiling in force above what *)
(* it was, or above the base ceiling that is always available.             *)
BorrowWindowNotReopened ==
  [][\A p \in Protocols :
       LET pos == borrowPos[p]
       IN  /\ pos.amount # borrowPos'[p].amount
           /\ pos.with_interest = borrowPos'[p].with_interest
           /\ pos.expand_duration # 0
           => BorrowLimitBefore(borrowPos'[p], now)
                <= Greatest(BorrowLimitBefore(pos, now), pos.base_debt_ceiling)
    ]_vars

(* However often and whenever a protocol borrows, its debt never passes    *)
(* the hard ceiling by a borrow (only interest, which raw amounts leave    *)
(* out, and mode switches or lower ceilings can put it above).             *)
DebtWithinHardCeiling ==
  [][\A p \in Protocols :
       /\ borrowPos'[p].amount > borrowPos[p].amount
       /\ borrowPos'[p].with_interest = borrowPos[p].with_interest
       => borrowPos'[p].amount <= borrowPos[p].max_debt_ceiling]_vars
-----------------------------------------------------------------------------
(***************************************************************************)
(* What a comment of the code says and the code does not do: a run finds   *)
(* it violated.                                                            *)
(***************************************************************************)

(* All yield of the suppliers is paid by borrowers: what supply grows by   *)
(* since the last update is no more than what debts grow by                *)
(* (token_reserve.rs, calculate_exchange_prices).                          *)
YieldPaidByBorrowers ==
  LET prices == CalculateExchangePrices(reserve, now)
  IN  ScaledSupply(reserve, prices.supply) - ScaledSupply(reserve, reserve.supply_exchange_price)
        <= ScaledBorrow(reserve, prices.borrow) - ScaledBorrow(reserve, reserve.borrow_exchange_price)
=============================================================================

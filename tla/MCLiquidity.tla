---------------------------- MODULE MCLiquidity ----------------------------
(* Liquidity for TLC.  The scaling constants are small powers of two, so   *)
(* that every division of the arithmetic is inexact somewhere within the   *)
(* bounds; the runs differ in the arguments they explore.                  *)
EXTENDS LiquidityAccounts, TLC

CONSTANTS
  Admin, Lending, Vaults, User, None, Nobody,
  Curve,      \* the rate curve in force at the start of a run
  Fee,        \* and its fee_on_interest
  Suppliers, Borrowers  \* the protocols with a supply, a borrow position

(* Amounts of 1, 2, 3, ... tokens in both directions.                      *)
PlusMinus(amounts) == amounts \cup {-a : a \in amounts}

SupplyConfig(mode, pct, duration, base) ==
  [mode |-> mode, expand_percent |-> pct, expand_duration |-> duration,
   base_withdrawal_limit |-> base]
BorrowConfig(mode, pct, duration, base, max) ==
  [mode |-> mode, expand_percent |-> pct, expand_duration |-> duration,
   base_debt_ceiling |-> base, max_debt_ceiling |-> max]

SteepCurve == [kink |-> 2, rate_at_utilization_zero |-> 0, rate_at_utilization_kink |-> 1,
               rate_at_utilization_max |-> 4]
KinkedCurve == [kink1 |-> 1, kink2 |-> 3, rate_at_utilization_zero |-> 2,
                rate_at_utilization_kink1 |-> 0, rate_at_utilization_kink2 |-> 1,
                rate_at_utilization_max |-> 4]

ModelV1(d) == [NewRateModel EXCEPT !.version = 1, !.rate_at_zero = d.rate_at_utilization_zero,
                 !.kink1_utilization = d.kink, !.rate_at_kink1 = d.rate_at_utilization_kink,
                 !.rate_at_max = d.rate_at_utilization_max]

NoArguments == {}

(* Arguments of the runs, named for the run.                               *)
(* Half of a position may leave over two seconds, once it holds two tokens.*)
LimitAmounts == PlusMinus({1, 2}) \cup {0}
LimitTransfers == {1}
LimitSupplyConfigs == {SupplyConfig(0, 2, 2, 2), SupplyConfig(0, 1, 1, 4)}
LimitBorrowConfigs == {BorrowConfig(0, 2, 2, 2, 5), BorrowConfig(0, 4, 1, 3, 4)}
LimitWithdrawalLimits == {1, 3}

(* A mint listed from nothing: both curves, two fees, both modes.          *)
ListingAmounts == {0} \cup PlusMinus({2})
ListingTransfers == {2}
ListingCurves == {SteepCurve}
ListingKinkedCurves == {KinkedCurve}
ListingTokenConfigs == {[fee |-> 1, max_utilization |-> 4]}
ListingSupplyConfigs == {SupplyConfig(mode, 4, 1, 4) : mode \in {0, 1}}
ListingBorrowConfigs == {BorrowConfig(mode, 4, 1, 4, 4) : mode \in {0, 1}}
ListingWithdrawalLimits == {0}
ListingClasses == {<<[addr |-> Vaults, value |-> 1]>>}

(* Interest accrues; curve, fee, cap and modes change where one position   *)
(* is alone.                                                               *)
BooksAmounts == {0} \cup PlusMinus({2})
BooksTransfers == {2}
BooksCurves == {SteepCurve}
BooksKinkedCurves == {KinkedCurve}
BooksTokenConfigs == {[fee |-> 0, max_utilization |-> 3]}

(* Debt doubles in a year, and deposits of equal size in either mode.      *)
DoublingCurve == [kink |-> 2, rate_at_utilization_zero |-> 8, rate_at_utilization_kink |-> 8,
                  rate_at_utilization_max |-> 8]
MixedAmounts == {0, 2}
MixedSupplyConfigs == {SupplyConfig(mode, 8, 1, 4) : mode \in {0, 1}}
MixedBorrowConfigs == {BorrowConfig(1, 8, 1, 4, 4)}

(* The state after init_liquidity, init_token_reserve, update_rate_data_v1,*)
(* update_token_config, init_new_protocol and the user configurations of   *)
(* established (class 1) protocols, all in the first second.               *)
Established(suppliers, borrowers) ==
  /\ authority \in Accounts /\ revenue_collector \in Accounts /\ locked = FALSE
  /\ auth_users = {authority} /\ guardians = {authority}
  /\ user_classes = [p \in Protocols |-> 1]
  /\ now = 0 /\ vault = 0 /\ interacting = NoInteraction
  /\ rate_model = ModelV1(Curve)
  /\ reserve = [NewReserve EXCEPT !.fee_on_interest = Fee,
                                  !.max_utilization = FOUR_DECIMALS,
                                  !.borrow_rate = CalcBorrowRate(ModelV1(Curve), 0)]
  /\ \E s \in UserSupplyConfigs :
       supplyPos = [p \in Protocols |->
                      IF p \in suppliers THEN WithSupplyConfig(NewSupplyPosition("NotSet", 0), s)
                      ELSE NewSupplyPosition("Absent", 0)]
  /\ \E b \in UserBorrowConfigs :
       borrowPos = [p \in Protocols |->
                      IF p \in borrowers THEN WithBorrowConfig(NewBorrowPosition("NotSet", 0), b)
                      ELSE NewBorrowPosition("Absent", 0)]
  /\ claimOpen = {} /\ claimAmount = [u \in Recipients |-> 0]

Configured == Established(Suppliers, Borrowers)

(* One kind of position at a time: the limits of either are its own.       *)
OneSided == Established(Suppliers, {}) \/ Established({}, Borrowers)

(* Established positions under operation: protocols operate, tokens arrive *)
(* and time passes, revenue is collected, and nobody creates, configures   *)
(* or pauses positions or uses claim accounts.                             *)
ServingNext ==
  \/ ProtocolNext
  \/ \E amount \in TransferAmounts : TransferIn(amount)
  \/ UpdateExchangePrice
  \/ Tick
  \/ \E signer \in Accounts : CollectRevenue(signer)

(* The same, with auths tending the reserve and reconfiguring positions.   *)
TuningNext ==
  \/ ServingNext
  \/ \E signer \in Accounts : ReserveAdminNext(signer)
  \/ \E signer \in Accounts, p \in Protocols :
       \/ \E limit \in WithdrawalLimits : UpdateUserWithdrawalLimit(signer, p, limit)
       \/ \E c \in UserSupplyConfigs :
            UpdateUserSupplyConfig(signer, p, c) \/ SwitchSupplyMode(signer, p, c)
       \/ \E c \in UserBorrowConfigs :
            UpdateUserBorrowConfig(signer, p, c) \/ SwitchBorrowMode(signer, p, c)

(* Either several protocols with interest in a reserve that nobody tunes,  *)
(* or a borrower alone whose modes, curve and fee are changed, within a    *)
(* shorter time and with fewer tokens.                                     *)
Together == Suppliers \subseteq {p \in Protocols : supplyPos[p].status # "Absent"}
TuningTime == 1
TuningVault == 2
BooksInit ==
  \/ /\ Configured
     /\ \A p \in Suppliers : supplyPos[p].with_interest
     /\ \A p \in Borrowers : borrowPos[p].with_interest
  \/ Established(Borrowers, Borrowers)
BooksNext ==
  \/ Together /\ ServingNext
  \/ ~Together /\ TuningNext /\ now' <= TuningTime /\ vault' <= TuningVault
BooksSpec == BooksInit /\ [][BooksNext]_vars
TuningSpec == Configured /\ [][TuningNext]_vars
OneSidedSpec == OneSided /\ [][TuningNext]_vars
=============================================================================

---------------------------- MODULE MCFlashloan ----------------------------
(* Flashloan for TLC, over the scaling constants of MCLiquidity.           *)
EXTENDS Flashloan, SequencesExt

CONSTANTS
  Admin, Gov, Flash, Lending, User, None, Nobody,
  Curve,       \* the rate curve in force
  Amounts      \* the amounts of loans asked for

Instr(op, signer, amount, cpi) ==
  [op |-> op, signer |-> signer, amount |-> amount, cpi |-> cpi]

LoanInstructions ==
  {Instr(op, User, a, FALSE) : op \in {"flashloan_borrow", "flashloan_payback"}, a \in Amounts}
RefusedLoans ==
  {Instr("flashloan_borrow", User, 5, TRUE), Instr("flashloan_payback", User, 5, TRUE)}
AdminInstructions ==
  {Instr("set_flashloan_fee", Admin, 1, cpi) : cpi \in BOOLEAN}
    \cup {Instr("set_flashloan_fee", Admin, 2, FALSE)}
    \cup {Instr("pause_protocol", Admin, 0, cpi) : cpi \in BOOLEAN}
    \cup {Instr(op, Admin, 0, FALSE) : op \in {"activate_protocol", "update_authority"}}
Other == Instr("other", User, 0, FALSE)

AnyInstruction == LoanInstructions \cup RefusedLoans \cup AdminInstructions

(* Every list of up to two instructions, of three with at most one that is *)
(* not a loan's, and of two loans of five.                                 *)
AllTransactions ==
  (SeqOf(AnyInstruction, 2) \ {<<>>})
    \cup {tx \in [1 .. 3 -> AnyInstruction] :
            \E i \in 1 .. 3 : \A j \in 1 .. 3 \ {i} : tx[j] \in LoanInstructions}
    \cup [1 .. 4 -> {ix \in LoanInstructions : ix.amount = 5}]

(* A loan with anything of the liquidity layer inside (before and after it *)
(* are the steps between transactions).                                    *)
LoanAround ==
  {<<b, Other, p>> : b, p \in {ix \in LoanInstructions : ix.amount = 5}}

NoArguments == {}
Deposits == {0, 2}
BorrowsBack == {0, -2}
SmallTransfers == {2}

OneKink == [kink |-> 2, rate_at_utilization_zero |-> 2, rate_at_utilization_kink |-> 4,
            rate_at_utilization_max |-> 8]
ModelV1(d) == [NewRateModel EXCEPT !.version = 1, !.rate_at_zero = d.rate_at_utilization_zero,
                 !.kink1_utilization = d.kink, !.rate_at_kink1 = d.rate_at_utilization_kink,
                 !.rate_at_max = d.rate_at_utilization_max]

SupplyConfig == [mode |-> 1, expand_percent |-> 4, expand_duration |-> 1,
                 base_withdrawal_limit |-> 20]
BorrowConfig(mode) == [mode |-> mode, expand_percent |-> 4, expand_duration |-> 1,
                       base_debt_ceiling |-> 20, max_debt_ceiling |-> 20]

(* Lending supplied eight tokens and borrowed two of them in the first     *)
(* second; the loans bear interest or not.                                 *)
FundedLayer ==
  /\ authority = Admin /\ revenue_collector = Admin /\ locked = FALSE
  /\ auth_users = {Admin} /\ guardians = {Admin}
  /\ user_classes = [p \in Protocols |-> 1]
  /\ now = 0 /\ vault = 6 /\ interacting = NoInteraction
  /\ rate_model = ModelV1(Curve)
  /\ LET r == [NewReserve EXCEPT !.max_utilization = FOUR_DECIMALS,
                                 !.total_supply_with_interest = 8,
                                 !.total_borrow_with_interest = 2]
     IN  reserve = Restated(r, StoredPrices(r), rate_model)
  /\ supplyPos = [p \in Protocols |->
       IF p = Lending
       THEN [WithSupplyConfig(NewSupplyPosition("NotSet", 0), SupplyConfig) EXCEPT !.amount = 8]
       ELSE NewSupplyPosition("NotSet", 0)]
  /\ \E mode \in {0, 1} :
       borrowPos = [p \in Protocols |->
         LET pos == NewBorrowPosition("NotSet", 0)
         IN  IF p = Lending
             THEN [WithBorrowConfig(pos, BorrowConfig(1)) EXCEPT !.amount = 2, !.debt_ceiling = 20]
             ELSE WithBorrowConfig(pos, BorrowConfig(mode))]
  /\ claimOpen = {} /\ claimAmount = [u \in Recipients |-> 0]

Funded ==
  /\ FundedLayer
  /\ flashloan_admin \in {a \in NewFlashloanAdmin : a.authority = Admin}
  /\ ixs = <<>> /\ index = 1 /\ stage = "start" /\ before = <<>>

MCTransactions == AllTransactions \cup LoanAround

(* Any list of instructions on the funded layer, and loans at any time     *)
(* among the steps of the layer, which is locked only within a transaction.*)
LoansNext ==
  \/ FundedLayer /\ \E tx \in AllTransactions : Begin(tx)
  \/ \E tx \in LoanAround : Begin(tx)
  \/ ~Idle /\ ~Finished /\ Execute(ixs[index])
  \/ Commit
  \/ Abort
  \/ Idle /\ LayerStep /\ UNCHANGED <<locked, flashloan_admin, ixs, index, stage, before>>
FlashloanSpec == Funded /\ [][LoansNext]_flashVars
=============================================================================

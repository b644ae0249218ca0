----------------------------- MODULE Flashloan -----------------------------
(***************************************************************************)
(* The flashloan program on top of the liquidity layer.  A loan is taken   *)
(* and paid back by two instructions of one transaction, so a state of     *)
(* this module is in the middle of a transaction or between two of them:   *)
(* ixs is the list of its top-level instructions, as the instructions      *)
(* sysvar shows it to the program, and index the one that runs next.  An   *)
(* instruction that fails takes the whole transaction back.                *)
(*                                                                         *)
(* The payback makes three calls (pre_operate, the token transfer and      *)
(* operate of the liquidity layer), stages here, with nothing in between.  *)
(***************************************************************************)
EXTENDS Liquidity, Sequences

CONSTANTS
  FLASHLOAN,             \* the protocol key of the program, its FlashloanAdmin account
  MIN_FLASHLOAN_AMOUNT,
  FLASHLOAN_FEE_MAX,     \* in 1 / FOUR_DECIMALS
  Transactions           \* the instruction lists explored

Operations == {"flashloan_borrow", "flashloan_payback", "set_flashloan_fee", "pause_protocol",
               "activate_protocol", "update_authority", "other"}

(* One top-level instruction.  Its signer stands for its account list,     *)
(* amount for its argument; with cpi the operation is called by another    *)
(* program, and it is that program's key the sysvar shows.  "other" is any *)
(* instruction that does not reach the flashloan program.                  *)
Instruction == [op : Operations, signer : Accounts \cup Recipients, amount : Nat, cpi : BOOLEAN]

ASSUME FlashloanAssumption ==
  /\ FLASHLOAN \in Protocols
  /\ MIN_FLASHLOAN_AMOUNT \in Nat \ {0}
  /\ FLASHLOAN_FEE_MAX \in Nat
  /\ MIN_FLASHLOAN_AMOUNT * (MAX_INPUT_AMOUNT_EXCESS - FLASHLOAN_FEE_MAX) >= FOUR_DECIMALS - 1
  /\ Transactions \subseteq Seq(Instruction) \ {<<>>}
  /\ \A tx \in Transactions : \A i \in DOMAIN tx :
       tx[i].op \in {"flashloan_borrow", "flashloan_payback"} => tx[i].signer \in Recipients

VARIABLES
  flashloan_admin,  \* FlashloanAdmin
  ixs, index,       \* the transaction under way (none: <<>>) and its position
  stage,            \* how far the payback at index has come
  before            \* the state to return to if the transaction fails

flashVars == <<vars, flashloan_admin, ixs, index, stage, before>>

FlashloanAdmin ==
  [authority : Accounts, status : BOOLEAN, flashloan_fee : 0..FLASHLOAN_FEE_MAX,
   flashloan_timestamp : Nat, is_flashloan_active : BOOLEAN, active_flashloan_amount : Nat]

Idle == ixs = <<>>
Finished == ~Idle /\ index > Len(ixs)

FlashTypeOK ==
  /\ TypeOK
  /\ flashloan_admin \in FlashloanAdmin
  /\ Idle \/ ixs \in Transactions
  /\ index \in 1..(Len(ixs) + 1)
  /\ stage \in {"start", "recorded", "transferred"}

(* The program as init_flashloan_admin leaves it.                          *)
NewFlashloanAdmin ==
  [authority : Accounts \ {DefaultPubkey}, status : {TRUE}, flashloan_fee : 0..FLASHLOAN_FEE_MAX,
   flashloan_timestamp : {0}, is_flashloan_active : {FALSE}, active_flashloan_amount : {0}]
-----------------------------------------------------------------------------
(* Transactions.                                                           *)

State ==
  [authority |-> authority, revenue_collector |-> revenue_collector, locked |-> locked,
   auth_users |-> auth_users, guardians |-> guardians, user_classes |-> user_classes,
   now |-> now, vault |-> vault, reserve |-> reserve, interacting |-> interacting,
   rate_model |-> rate_model, supplyPos |-> supplyPos, borrowPos |-> borrowPos,
   claimOpen |-> claimOpen, claimAmount |-> claimAmount, flashloan_admin |-> flashloan_admin]

NoTransaction == ixs' = <<>> /\ index' = 1 /\ stage' = "start" /\ before' = <<>>

Begin(tx) ==
  /\ Idle
  /\ ixs' = tx /\ index' = 1 /\ stage' = "start"
  /\ before' = State
  /\ UNCHANGED <<vars, flashloan_admin>>

Commit ==
  /\ Finished
  /\ NoTransaction
  /\ UNCHANGED <<vars, flashloan_admin>>

(* An instruction fails, for a reason of this model or of another (funds,  *)
(* compute budget, an error of the other program).                         *)
Abort ==
  /\ ~Idle /\ ~Finished
  /\ NoTransaction
  /\ authority' = before.authority /\ revenue_collector' = before.revenue_collector
  /\ locked' = before.locked /\ auth_users' = before.auth_users
  /\ guardians' = before.guardians /\ user_classes' = before.user_classes
  /\ now' = before.now /\ vault' = before.vault /\ reserve' = before.reserve
  /\ interacting' = before.interacting /\ rate_model' = before.rate_model
  /\ supplyPos' = before.supplyPos /\ borrowPos' = before.borrowPos
  /\ claimOpen' = before.claimOpen /\ claimAmount' = before.claimAmount
  /\ flashloan_admin' = before.flashloan_admin

Done == index' = index + 1 /\ stage' = "start" /\ UNCHANGED <<ixs, before>>

-----------------------------------------------------------------------------
(* Loans.                                                                  *)

(* What the sysvar shows as an instruction of the flashloan program.       *)
OfFlashloan(ix) == ix.op # "other" /\ ~ix.cpi

IsPayback(ix, loan) ==
  ix.op = "flashloan_payback" /\ ix.signer = loan.signer /\ ix.amount = loan.amount

Later == {i \in (index + 1)..Len(ixs) : OfFlashloan(ixs[i])}

(* Mutants: other flashloan instructions may follow too; anything may.     *)
PaybackAmongLater(loan) == \E i \in Later : IsPayback(ixs[i], loan)
PaybackUnchecked(loan) == loan \in Instruction

(* validate_payback_instruction_exists: the only instruction of the        *)
(* program still to come is the payback of this loan.                      *)
PaybackFollows(loan) == \E i \in Later : Later = {i} /\ IsPayback(ixs[i], loan)

FlashloanBorrow(ix) ==
  /\ ix.op = "flashloan_borrow" /\ ~ix.cpi
  /\ stage = "start"
  /\ ix.amount >= MIN_FLASHLOAN_AMOUNT
  /\ PaybackFollows(ix)
  /\ flashloan_admin.status
  /\ ~flashloan_admin.is_flashloan_active
  /\ Operate(FLASHLOAN, 0, ix.amount, ix.signer, ix.signer, "DIRECT")
  /\ flashloan_admin' = [flashloan_admin EXCEPT !.flashloan_timestamp = now,
                                                !.is_flashloan_active = TRUE,
                                                !.active_flashloan_amount = ix.amount]
  /\ Done

(* Mutant: the fee is rounded down.                                        *)
FloorPayback(admin, amount) == amount + (amount * admin.flashloan_fee) \div FOUR_DECIMALS

ExpectedPayback(admin, amount) == amount + DivCeil(amount * admin.flashloan_fee, FOUR_DECIMALS)

(* flashloan_payback: its checks and its call of pre_operate, ...          *)
PaybackRecord(ix) ==
  /\ ix.op = "flashloan_payback" /\ ~ix.cpi
  /\ stage = "start"
  /\ ix.amount >= MIN_FLASHLOAN_AMOUNT
  /\ ix.amount = flashloan_admin.active_flashloan_amount
  /\ flashloan_admin.status
  /\ PreOperate(FLASHLOAN)
  /\ stage' = "recorded"
  /\ UNCHANGED <<flashloan_admin, ixs, index, before>>

(* ... the transfer of the amount with the fee, ...                        *)
PaybackTransfer(ix) ==
  /\ stage = "recorded"
  /\ TransferIn(ExpectedPayback(flashloan_admin, ix.amount))
  /\ stage' = "transferred"
  /\ UNCHANGED <<flashloan_admin, ixs, index, before>>

(* ... and the payback of the amount without it.                           *)
PaybackOperate(ix) ==
  /\ stage = "transferred"
  /\ flashloan_admin.is_flashloan_active
  /\ Operate(FLASHLOAN, 0, -flashloan_admin.active_flashloan_amount, ix.signer, ix.signer, "DIRECT")
  /\ flashloan_admin' = [flashloan_admin EXCEPT !.is_flashloan_active = FALSE,
                                                !.active_flashloan_amount = 0]
  /\ Done
-----------------------------------------------------------------------------
(* Administration, by the authority, called from the top or by a program   *)
(* that holds its signature.                                               *)

ByAuthority(ix, op) ==
  /\ ix.op = op
  /\ ix.signer = flashloan_admin.authority
  /\ Done
  /\ UNCHANGED vars

SetFlashloanFee(ix) ==
  /\ ByAuthority(ix, "set_flashloan_fee")
  /\ ix.amount <= FLASHLOAN_FEE_MAX
  /\ flashloan_admin' = [flashloan_admin EXCEPT !.flashloan_fee = ix.amount]

PauseProtocol(ix) ==
  /\ ByAuthority(ix, "pause_protocol")
  /\ flashloan_admin.status
  /\ flashloan_admin' = [flashloan_admin EXCEPT !.status = FALSE]

ActivateProtocol(ix) ==
  /\ ByAuthority(ix, "activate_protocol")
  /\ ~flashloan_admin.status
  /\ flashloan_admin' = [flashloan_admin EXCEPT !.status = TRUE]

(* Authority can only be handed to the governance multisig.                *)
HandOver(ix) ==
  /\ ByAuthority(ix, "update_authority")
  /\ flashloan_admin' = [flashloan_admin EXCEPT !.authority = GOVERNANCE_MS]
-----------------------------------------------------------------------------
(* The liquidity layer used by everybody else.                             *)

LayerStep ==
  \/ AccessNext /\ UNCHANGED moneyVars
  \/ \E p \in Protocols \ {FLASHLOAN} :
       \/ PreOperate(p)
       \/ \E s \in SupplyAmounts, b \in BorrowAmounts, wto, bto \in Recipients,
             type \in TransferTypes : Operate(p, s, b, wto, bto, type)
  \/ UserNext
  \/ \E signer \in Accounts : ReserveAdminNext(signer) \/ PositionAdminNext(signer)

(* Another program's instruction in the transaction; the clock stands.     *)
OtherInstruction(ix) ==
  /\ ix.op = "other"
  /\ \/ LayerStep /\ now' = now
     \/ UNCHANGED vars
  /\ Done
  /\ UNCHANGED flashloan_admin

Execute(ix) ==
  \/ FlashloanBorrow(ix)
  \/ PaybackRecord(ix)
  \/ PaybackTransfer(ix)
  \/ PaybackOperate(ix)
  \/ SetFlashloanFee(ix)
  \/ PauseProtocol(ix)
  \/ ActivateProtocol(ix)
  \/ HandOver(ix)
  \/ OtherInstruction(ix)

FlashInit ==
  /\ Init
  /\ flashloan_admin \in NewFlashloanAdmin
  /\ ixs = <<>> /\ index = 1 /\ stage = "start" /\ before = <<>>

FlashNext ==
  \/ \E tx \in Transactions : Begin(tx)
  \/ ~Idle /\ ~Finished /\ Execute(ixs[index])
  \/ Commit
  \/ Abort
  \/ Idle /\ LayerStep /\ UNCHANGED <<flashloan_admin, ixs, index, stage, before>>

FlashSpec == FlashInit /\ [][FlashNext]_flashVars
-----------------------------------------------------------------------------
(***************************************************************************)
(* Correctness.                                                            *)
(***************************************************************************)

(* Between transactions no loan is open: whatever the instructions of a    *)
(* transaction and their order, it commits only with its loan paid back.   *)
TransactionsCloseLoans ==
  Idle => ~flashloan_admin.is_flashloan_active /\ flashloan_admin.active_flashloan_amount = 0

(* The payback transfers more than it operates, by the fee; what arrives   *)
(* is within the excess that operate tolerates, for every loan and fee.    *)
PaymentWithinWindow ==
  stage = "transferred" => AmountArrived(FLASHLOAN, flashloan_admin.active_flashloan_amount)

(* The liquidity layer does not refuse a payment that arrived (the debt    *)
(* recorded by the borrow covers it whatever the price), unless a guardian *)
(* or the lock stopped it meanwhile: no borrower is trapped by rounding.   *)
PaybackAccepted ==
  stage = "transferred" /\ ~locked /\ borrowPos[FLASHLOAN].status = "Active" =>
    ENABLED PaybackOperate(ixs[index])

(* Inside a transaction or outside, no step of a loan, of its fee or of    *)
(* another protocol beside it makes the layer owe more than it has.  (An   *)
(* aborted transaction returns to where it began, covered or not.)         *)
LoansKeepSolvency ==
  [][ixs' = ixs /\ InterestOnly /\ Covered /\ ~UnsettledCollection => Covered']_flashVars

LoanOnly == \A i \in DOMAIN ixs : ixs[i].op \in {"flashloan_borrow", "flashloan_payback"}

(* A loan leaves the vault with at least the nominal fee more than before, *)
(* and the program's debt where it was, but for one unit of rounding.      *)
LoanRepaid ==
  Finished /\ LoanOnly =>
    \A i \in DOMAIN ixs :
      ixs[i].op = "flashloan_borrow" =>
        /\ (vault - before.vault) * FOUR_DECIMALS >= ixs[i].amount * flashloan_admin.flashloan_fee
        /\ borrowPos[FLASHLOAN].amount - before.borrowPos[FLASHLOAN].amount \in 0..1

(* While a loan is open no instruction of the transaction changes its fee  *)
(* or pauses the program; the authority still can through another program. *)
TermsKept ==
  [][flashloan_admin.is_flashloan_active /\ flashloan_admin'.is_flashloan_active
       => \/ flashloan_admin' = flashloan_admin
          \/ ixs[index].cpi]_flashVars
=============================================================================

-------------------------- MODULE FlashloanProofs --------------------------
(***************************************************************************)
(* Proofs about Flashloan for every list of transactions, every amount and *)
(* every behaviour of the liquidity layer around and inside them.          *)
(***************************************************************************)
EXTENDS Flashloan, SolvencyProofs

(* The liquidity layer as it was when the transaction began.               *)
Saved == INSTANCE LiquidityProofs WITH
  authority <- before.authority, revenue_collector <- before.revenue_collector,
  locked <- before.locked, auth_users <- before.auth_users, guardians <- before.guardians,
  user_classes <- before.user_classes, now <- before.now, vault <- before.vault,
  reserve <- before.reserve, interacting <- before.interacting,
  rate_model <- before.rate_model, supplyPos <- before.supplyPos,
  borrowPos <- before.borrowPos, claimOpen <- before.claimOpen,
  claimAmount <- before.claimAmount

Closed(admin) ==
  /\ admin \in FlashloanAdmin
  /\ ~admin.is_flashloan_active
  /\ admin.active_flashloan_amount = 0

(* What an aborted transaction returns to.                                 *)
ReturnInv == ~Idle => Saved!TypeInv /\ Closed(before.flashloan_admin)

TransactionInv ==
  /\ flashloan_admin \in FlashloanAdmin
  /\ Idle \/ ixs \in Transactions
  /\ index \in 1..(Len(ixs) + 1)
  /\ stage \in {"start", "recorded", "transferred"}

(* An open loan has a payback among the instructions still to run, and the *)
(* rest of them do not belong to the program.                              *)
PaybackPending ==
  \E j \in index..Len(ixs) :
    /\ ixs[j].op = "flashloan_payback" /\ ~ixs[j].cpi
    /\ \A k \in index..Len(ixs) : OfFlashloan(ixs[k]) => k = j

LoanInv ==
  IF flashloan_admin.is_flashloan_active
  THEN ~Idle /\ PaybackPending
  ELSE flashloan_admin.active_flashloan_amount = 0

(* A payback under way, between its calls.                                 *)
PaybackInv ==
  stage # "start" =>
    /\ ~Idle /\ index <= Len(ixs)
    /\ ixs[index].op = "flashloan_payback" /\ ~ixs[index].cpi
    /\ ixs[index].amount = flashloan_admin.active_flashloan_amount
    /\ flashloan_admin.active_flashloan_amount >= MIN_FLASHLOAN_AMOUNT
    /\ interacting.protocol = FLASHLOAN /\ interacting.timestamp = now
    /\ vault = interacting.balance
         + IF stage = "recorded" THEN 0
           ELSE ExpectedPayback(flashloan_admin, flashloan_admin.active_flashloan_amount)

FlashInv == TypeInv /\ ReturnInv /\ TransactionInv /\ LoanInv /\ PaybackInv
-----------------------------------------------------------------------------
(* The payment of any loan, at any fee that can be set, is the amount and  *)
(* an excess that operate tolerates.                                       *)
LEMMA FeeFits ==
  ASSUME NEW amount \in Nat, amount >= MIN_FLASHLOAN_AMOUNT,
         NEW admin \in FlashloanAdmin
  PROVE  /\ ExpectedPayback(admin, amount) \in Nat
         /\ ExpectedPayback(admin, amount) >= amount
         /\ ExpectedPayback(admin, amount)
              <= PercentOf(amount, FOUR_DECIMALS + MAX_INPUT_AMOUNT_EXCESS)
<1> DEFINE F == FOUR_DECIMALS
           E == MAX_INPUT_AMOUNT_EXCESS
           fee == admin.flashloan_fee
           M == MIN_FLASHLOAN_AMOUNT
           charged == DivCeil(amount * fee, F)
           tolerated == (amount * (F + E)) \div F
<1>1. /\ F \in Nat \ {0} /\ E \in Nat /\ M \in Nat \ {0} /\ fee \in Nat
      /\ fee <= FLASHLOAN_FEE_MAX /\ FLASHLOAN_FEE_MAX \in Nat
      /\ M * (E - FLASHLOAN_FEE_MAX) >= F - 1
  BY Constants, LiquidityAssumption, FlashloanAssumption
     DEF LiquidityAssumption, FlashloanAssumption, FlashloanAdmin, Percent
<1> HIDE DEF F, E, fee, M
<1>2. /\ amount * fee \in Nat /\ charged \in Nat
      /\ amount * (F + E) \in Nat
  BY <1>1, CeilQuotient
<1>3. charged * F <= amount * fee + (F - 1)
  <2>1. amount * fee + F - 1 \in Nat /\ charged = (amount * fee + F - 1) \div F
    BY <1>1, <1>2 DEF DivCeil
  <2>2. F * charged <= amount * fee + F - 1
    BY <1>1, <2>1, Quotient
  <2>3. F * charged = charged * F
    BY <1>1, <1>2
  <2> QED BY <1>1, <1>2, <2>2, <2>3
<1>4. amount * fee + (F - 1) <= amount * E
  <2> DEFINE d == E - FLASHLOAN_FEE_MAX
  <2>1. d \in Nat
    <3>1. d \in Int
      BY <1>1
    <3>2. CASE d < 0
      <4>1. M * d < 0
        BY <1>1, <3>1, <3>2
      <4> QED BY <1>1, <4>1
    <3> QED BY <3>1, <3>2
  <2>2. M * d <= amount * d
    BY <1>1, <2>1, ProductMonotonic DEF M
  <2>3. E - fee \in Nat /\ d <= E - fee
    BY <1>1, <2>1
  <2>4. amount * d <= amount * (E - fee)
    BY <2>1, <2>3, ProductMonotonic
  <2>5. amount * (E - fee) = amount * E - amount * fee
    BY <1>1
  <2>6. F - 1 <= amount * (E - fee)
    BY <1>1, <2>1, <2>2, <2>3, <2>4
  <2> QED BY <1>1, <1>2, <2>5, <2>6
<1>5. (amount + charged) * F <= amount * (F + E)
  <2>1. (amount + charged) * F = amount * F + charged * F
    BY <1>1, <1>2
  <2>2. amount * (F + E) = amount * F + amount * E
    BY <1>1
  <2> QED BY <1>1, <1>2, <1>3, <1>4, <2>1, <2>2
<1>6. amount + charged <= tolerated
  <2>1. ((amount + charged) * F) \div F = amount + charged
    BY <1>1, <1>2
  <2>2. ((amount + charged) * F) \div F <= tolerated
    BY <1>1, <1>2, <1>5, QuotientMonotonic
  <2> QED BY <2>1, <2>2
<1> QED BY <1>1, <1>2, <1>6 DEF ExpectedPayback, PercentOf, F, E, fee

LEMMA InstructionsTyped ==
  ASSUME TransactionInv, ~Idle
  PROVE  /\ Len(ixs) \in Nat /\ index \in Nat
         /\ \A i \in 1..Len(ixs) :
              /\ ixs[i] \in Instruction /\ ixs[i].amount \in Nat
              /\ ixs[i].op \in {"flashloan_borrow", "flashloan_payback"} =>
                   ixs[i].signer \in Recipients
<1>1. ixs \in Transactions
  BY DEF TransactionInv
<1>2. ixs \in Seq(Instruction)
  BY <1>1, FlashloanAssumption DEF FlashloanAssumption
<1>3. Len(ixs) \in Nat /\ DOMAIN ixs = 1..Len(ixs) /\ \A i \in 1..Len(ixs) : ixs[i] \in Instruction
  BY <1>2
<1>4. \A i \in 1..Len(ixs) : ixs[i].op \in {"flashloan_borrow", "flashloan_payback"} =>
                              ixs[i].signer \in Recipients
  BY <1>1, <1>3, FlashloanAssumption DEF FlashloanAssumption
<1>5. \A i \in 1..Len(ixs) : ixs[i].amount \in Nat
  BY <1>3 DEF Instruction
<1>6. index \in Nat
  BY <1>3 DEF TransactionInv
<1> QED BY <1>3, <1>4, <1>5, <1>6
-----------------------------------------------------------------------------
(* What others do to the liquidity layer keeps it well formed.             *)
LEMMA LayerStepAmongSteps == LayerStep => LayerNext
<1>1. AccessNext /\ UNCHANGED moneyVars => LayerNext
  BY DEF LayerNext
<1>2. /\ SupplyAmounts \subseteq Int /\ BorrowAmounts \subseteq Int
      /\ TransferAmounts \subseteq Nat /\ TransferTypes \subseteq {"SKIP", "DIRECT", "CLAIM"}
  BY LiquidityAssumption DEF LiquidityAssumption
<1>3. ASSUME NEW p \in Protocols,
             \/ PreOperate(p)
             \/ \E s \in SupplyAmounts, b \in BorrowAmounts, wto, bto \in Recipients,
                   type \in TransferTypes : Operate(p, s, b, wto, bto, type)
      PROVE  LayerNext
  BY <1>2, <1>3 DEF LayerNext
<1>4. UserNext => LayerNext
  BY NextAmongSteps DEF Next
<1>5. (\E signer \in Accounts : ReserveAdminNext(signer) \/ PositionAdminNext(signer)) => LayerNext
  BY DEF LayerNext
<1> QED BY <1>1, <1>3, <1>4, <1>5 DEF LayerStep

LEMMA LayerStepTyped ==
  ASSUME TypeInv, LayerStep
  PROVE  TypeInv'
BY LayerStepAmongSteps, TypeStep

LEMMA StutterTyped ==
  ASSUME TypeInv, UNCHANGED vars
  PROVE  TypeInv'
BY TypeStep

(* A step that leaves the transaction where it is leaves what it returns   *)
(* to where it is.                                                         *)
LEMMA ReturnKept ==
  ASSUME ReturnInv, UNCHANGED <<ixs, before>>
  PROVE  ReturnInv'
BY DEF ReturnInv, Idle, Closed, Saved!TypeInv, Saved!TypeOK, Saved!AccessTypeOK,
       Saved!PrivilegeInv, Saved!AuthorityPrivileged, Saved!ListsFit, Saved!TimesPast

(* The types do not depend on the state, nor on which of the two it is.    *)
LEMMA SavedTypes ==
  /\ Saved!Reserve = Reserve /\ Saved!Amount = Amount /\ Saved!Interaction = Interaction
  /\ Saved!RateModel = RateModel /\ Saved!SupplyPosition = SupplyPosition
  /\ Saved!BorrowPosition = BorrowPosition /\ Saved!Pubkeys = Pubkeys
  /\ \A m : Saved!ModelValid(m) <=> ModelValid(m)
<1>1. Saved!Amount = Amount /\ Saved!Interaction = Interaction /\ Saved!Reserve = Reserve
  BY DEF Saved!Amount, Amount, Saved!Interaction, Interaction, Saved!Reserve, Reserve
<1>2. Saved!RateModel = RateModel /\ \A m : Saved!ModelValid(m) <=> ModelValid(m)
  BY DEF Saved!RateModel, RateModel, Saved!ModelValid, ModelValid
<1>3. Saved!SupplyPosition = SupplyPosition /\ Saved!BorrowPosition = BorrowPosition
  BY DEF Saved!SupplyPosition, SupplyPosition, Saved!BorrowPosition, BorrowPosition,
         Saved!Status, Status
<1>4. Saved!Pubkeys = Pubkeys
  BY DEF Saved!Pubkeys, Pubkeys
<1> QED BY <1>1, <1>2, <1>3, <1>4

LEMMA SavedCardinality == \A S : Saved!Cardinality(S) = Cardinality(S)
BY Zenon DEF Saved!Cardinality, Cardinality

LEMMA SavedAtBegin ==
  ASSUME TypeInv, before' = State
  PROVE  Saved!TypeInv'
<1>1. /\ before'.authority = authority /\ before'.revenue_collector = revenue_collector
      /\ before'.locked = locked /\ before'.auth_users = auth_users
      /\ before'.guardians = guardians /\ before'.user_classes = user_classes
  BY DEF State
<1>2. /\ before'.now = now /\ before'.vault = vault /\ before'.reserve = reserve
      /\ before'.interacting = interacting /\ before'.rate_model = rate_model
      /\ before'.supplyPos = supplyPos /\ before'.borrowPos = borrowPos
      /\ before'.claimOpen = claimOpen /\ before'.claimAmount = claimAmount
  BY DEF State
<1>3. Saved!PrivilegeInv'
  <2>1. Saved!AccessTypeOK'
    BY <1>1, SavedTypes, Zenon DEF TypeInv, PrivilegeInv, AccessTypeOK, Saved!AccessTypeOK
  <2>2. Saved!AuthorityPrivileged' /\ Saved!ListsFit'
    BY <1>1, SavedCardinality DEF TypeInv, PrivilegeInv, AuthorityPrivileged, ListsFit,
                       Saved!AuthorityPrivileged, Saved!ListsFit
  <2> QED BY <2>1, <2>2 DEF Saved!PrivilegeInv
<1>4. Saved!TypeOK' /\ Saved!ModelValid(before.rate_model)' /\ Saved!TimesPast'
  BY <1>2, <1>3, SavedTypes
     DEF TypeInv, TypeOK, TimesPast, Saved!PrivilegeInv, Saved!TypeOK, Saved!TimesPast
<1> QED BY <1>3, <1>4 DEF Saved!TypeInv

LEMMA RestoredByAbort ==
  ASSUME ReturnInv, Abort
  PROVE  TypeInv' /\ Closed(flashloan_admin')
<1>1. Saved!TypeInv /\ Closed(before.flashloan_admin)
  BY DEF ReturnInv, Abort
<1>2. PrivilegeInv'
  <2>1. AccessTypeOK'
    BY <1>1, SavedTypes, Zenon
       DEF Abort, AccessTypeOK, Saved!TypeInv, Saved!PrivilegeInv, Saved!AccessTypeOK
  <2>2. AuthorityPrivileged' /\ ListsFit'
    BY <1>1, SavedCardinality DEF Abort, AuthorityPrivileged, ListsFit, Saved!TypeInv, Saved!PrivilegeInv,
                       Saved!AuthorityPrivileged, Saved!ListsFit
  <2> QED BY <2>1, <2>2 DEF PrivilegeInv
<1>3. TypeOK' /\ ModelValid(rate_model)' /\ TimesPast'
  BY <1>1, <1>2, SavedTypes
     DEF Abort, TypeOK, TimesPast, PrivilegeInv, Saved!TypeInv, Saved!TypeOK, Saved!TimesPast
<1> QED BY <1>1, <1>2, <1>3 DEF Abort, TypeInv
-----------------------------------------------------------------------------
(* The end of an instruction: the next one starts with nothing pending.    *)
LEMMA DoneKeeps ==
  ASSUME TransactionInv, ReturnInv, ~Idle, ~Finished, Done, flashloan_admin' \in FlashloanAdmin
  PROVE  TransactionInv' /\ ReturnInv' /\ PaybackInv'
<1>1. Len(ixs) \in Nat /\ index \in Nat /\ index \in 1..Len(ixs)
  BY InstructionsTyped DEF TransactionInv, Finished
<1>2. ReturnInv'
  BY ReturnKept DEF Done
<1> QED BY <1>1, <1>2 DEF Done, TransactionInv, PaybackInv, Idle

(* An instruction other than the payback brings the payback closer.        *)
LEMMA PaybackApproaches ==
  ASSUME TransactionInv, LoanInv, ~Idle, ~Finished, Done,
         ~(ixs[index].op = "flashloan_payback" /\ ~ixs[index].cpi),
         flashloan_admin'.is_flashloan_active = flashloan_admin.is_flashloan_active,
         flashloan_admin'.active_flashloan_amount = flashloan_admin.active_flashloan_amount
  PROVE  LoanInv'
<1>1. Len(ixs) \in Nat /\ index \in Nat /\ index' = index + 1 /\ ixs' = ixs
  BY InstructionsTyped DEF Done
<1>2. CASE ~flashloan_admin.is_flashloan_active
  BY <1>2 DEF LoanInv
<1>3. CASE flashloan_admin.is_flashloan_active
  <2>1. PICK j \in index..Len(ixs) :
          /\ ixs[j].op = "flashloan_payback" /\ ~ixs[j].cpi
          /\ \A k \in index..Len(ixs) : OfFlashloan(ixs[k]) => k = j
    BY <1>3 DEF LoanInv, PaybackPending
  <2>2. j \in (index + 1)..Len(ixs)
    BY <1>1, <2>1
  <2>3. \A k \in (index + 1)..Len(ixs) : k \in index..Len(ixs)
    BY <1>1
  <2>4. PaybackPending'
    BY <1>1, <2>1, <2>2, <2>3 DEF PaybackPending, OfFlashloan
  <2> QED BY <1>1, <1>3, <2>4 DEF LoanInv, Idle
<1> QED BY <1>2, <1>3

LEMMA BeginKeeps ==
  ASSUME FlashInv, NEW tx \in Transactions, Begin(tx)
  PROVE  FlashInv'
<1>1. TypeInv'
  BY StutterTyped DEF FlashInv, Begin
<1>2. Closed(flashloan_admin)
  BY DEF FlashInv, LoanInv, TransactionInv, Begin, Closed
<1>3. ReturnInv'
  <2>1. before'.flashloan_admin = flashloan_admin
    BY DEF Begin, State
  <2>2. Saved!TypeInv'
    BY SavedAtBegin DEF FlashInv, Begin
  <2> QED BY <1>2, <2>1, <2>2 DEF ReturnInv, Closed
<1>4. TransactionInv'
  <2>1. tx \in Seq(Instruction)
    BY FlashloanAssumption DEF FlashloanAssumption
  <2> QED BY <2>1 DEF FlashInv, TransactionInv, Begin
<1>5. LoanInv' /\ PaybackInv'
  BY <1>2 DEF Closed, Begin, LoanInv, PaybackInv
<1> QED BY <1>1, <1>3, <1>4, <1>5 DEF FlashInv

LEMMA BorrowKeeps ==
  ASSUME FlashInv, ~Idle, ~Finished, FlashloanBorrow(ixs[index])
  PROVE  FlashInv'
<1> DEFINE ix == ixs[index]
<1>1. /\ Len(ixs) \in Nat /\ index \in Nat /\ ix.amount \in Nat /\ ix.signer \in Recipients
  BY InstructionsTyped DEF FlashInv, TransactionInv, Finished, FlashloanBorrow
<1>2. TypeInv'
  <2>1. FLASHLOAN \in Protocols /\ 0 \in Int /\ ix.amount \in Int
    BY <1>1, FlashloanAssumption DEF FlashloanAssumption
  <2>2. Operate(FLASHLOAN, 0, ix.amount, ix.signer, ix.signer, "DIRECT")
    BY DEF FlashloanBorrow
  <2> QED BY <1>1, <2>1, <2>2, OperateTyped DEF FlashInv
<1>3. now \in Nat
  BY Unpacked DEF FlashInv
<1>4. flashloan_admin' \in FlashloanAdmin /\ flashloan_admin'.is_flashloan_active
  BY <1>1, <1>3 DEF FlashloanBorrow, FlashInv, TransactionInv, FlashloanAdmin
<1>5. PaybackPending'
  <2>1. PICK i \in Later : Later = {i} /\ IsPayback(ixs[i], ix)
    BY DEF FlashloanBorrow, PaybackFollows
  <2>2. i \in (index + 1)..Len(ixs) /\ ixs[i].op = "flashloan_payback" /\ ~ixs[i].cpi
    BY <2>1 DEF Later, OfFlashloan, IsPayback
  <2>3. \A k \in (index + 1)..Len(ixs) : OfFlashloan(ixs[k]) => k = i
    BY <2>1 DEF Later
  <2>4. index' = index + 1 /\ ixs' = ixs
    BY DEF FlashloanBorrow, Done
  <2> QED BY <2>2, <2>3, <2>4 DEF PaybackPending, OfFlashloan
<1>6. LoanInv'
  BY <1>4, <1>5 DEF LoanInv, Idle, FlashloanBorrow, Done
<1> QED BY <1>2, <1>4, <1>6, DoneKeeps DEF FlashInv, FlashloanBorrow

LEMMA RecordKeeps ==
  ASSUME FlashInv, ~Idle, ~Finished, PaybackRecord(ixs[index])
  PROVE  FlashInv'
<1>1. Len(ixs) \in Nat /\ index \in Nat /\ index <= Len(ixs)
  BY InstructionsTyped DEF FlashInv, TransactionInv, Finished
<1>2. PreOperate(FLASHLOAN) /\ FLASHLOAN \in Protocols
  BY FlashloanAssumption DEF FlashloanAssumption, PaybackRecord
<1>3. TypeInv'
  BY <1>2, BystandersTyped DEF FlashInv
<1>4. ReturnInv' /\ TransactionInv'
  BY ReturnKept DEF FlashInv, PaybackRecord, TransactionInv, Idle
<1>5. LoanInv'
  BY DEF FlashInv, PaybackRecord, LoanInv, PaybackPending, OfFlashloan, Idle
<1>6. PaybackInv'
  <2>1. vault \in Int
    BY Unpacked, Constants DEF FlashInv, Amount
  <2>2. /\ interacting'.protocol = FLASHLOAN /\ interacting'.timestamp = now'
        /\ vault' = interacting'.balance + 0
    BY <1>2, <2>1 DEF PreOperate
  <2> QED BY <1>1, <2>2 DEF PaybackRecord, PaybackInv, Idle
<1> QED BY <1>3, <1>4, <1>5, <1>6 DEF FlashInv

LEMMA TransferKeeps ==
  ASSUME FlashInv, ~Idle, ~Finished, PaybackTransfer(ixs[index])
  PROVE  FlashInv'
<1> DEFINE amount == flashloan_admin.active_flashloan_amount
<1>1. /\ stage = "recorded" /\ index <= Len(ixs)
      /\ ixs[index].op = "flashloan_payback" /\ ~ixs[index].cpi
      /\ ixs[index].amount = amount /\ amount >= MIN_FLASHLOAN_AMOUNT
      /\ interacting.protocol = FLASHLOAN /\ interacting.timestamp = now
      /\ vault = interacting.balance + 0
  BY DEF FlashInv, PaybackInv, PaybackTransfer
<1>2. amount \in Nat /\ flashloan_admin \in FlashloanAdmin
  BY DEF FlashInv, TransactionInv, FlashloanAdmin
<1>3. ExpectedPayback(flashloan_admin, amount) \in Nat
  BY <1>1, <1>2, FeeFits
<1>4. TransferIn(ExpectedPayback(flashloan_admin, amount))
  BY <1>1 DEF PaybackTransfer
<1>5. TypeInv'
  BY <1>3, <1>4, BystandersTyped DEF FlashInv
<1>6. ReturnInv' /\ TransactionInv'
  BY ReturnKept DEF FlashInv, PaybackTransfer, TransactionInv, Idle
<1>7. LoanInv'
  BY DEF FlashInv, PaybackTransfer, LoanInv, PaybackPending, OfFlashloan, Idle
<1>8. PaybackInv'
  <2>1. interacting.balance \in Int
    BY Unpacked, Constants DEF FlashInv, Interaction, Amount
  <2>2. vault' = interacting'.balance + ExpectedPayback(flashloan_admin, amount)
    BY <1>1, <1>3, <1>4, <2>1 DEF TransferIn
  <2>3. /\ UNCHANGED <<flashloan_admin, ixs, index, now, interacting>> /\ stage' = "transferred"
    BY <1>4 DEF PaybackTransfer, TransferIn
  <2>4. ExpectedPayback(flashloan_admin, amount)'
          = ExpectedPayback(flashloan_admin, amount)
    BY <2>3 DEF ExpectedPayback
  <2> QED BY <1>1, <2>2, <2>3, <2>4 DEF PaybackInv, Idle
<1> QED BY <1>5, <1>6, <1>7, <1>8 DEF FlashInv

LEMMA RepaidKeeps ==
  ASSUME FlashInv, ~Idle, ~Finished, PaybackOperate(ixs[index])
  PROVE  FlashInv'
<1> DEFINE ix == ixs[index]
           amount == flashloan_admin.active_flashloan_amount
<1>1. ix.op = "flashloan_payback"
  BY DEF FlashInv, PaybackInv, PaybackOperate
<1>2. ix.signer \in Recipients
  BY <1>1, InstructionsTyped DEF FlashInv, TransactionInv, Finished
<1>3. amount \in Nat /\ FLASHLOAN \in Protocols
  BY FlashloanAssumption DEF FlashInv, TransactionInv, FlashloanAdmin, FlashloanAssumption
<1>4. TypeInv'
  <2>1. -amount \in Int /\ 0 \in Int
    BY <1>3
  <2>2. Operate(FLASHLOAN, 0, -amount, ix.signer, ix.signer, "DIRECT")
    BY DEF PaybackOperate
  <2> QED BY <1>2, <1>3, <2>1, <2>2, OperateTyped DEF FlashInv
<1>5. /\ flashloan_admin' \in FlashloanAdmin /\ ~flashloan_admin'.is_flashloan_active
      /\ flashloan_admin'.active_flashloan_amount = 0
  BY DEF FlashInv, TransactionInv, FlashloanAdmin, PaybackOperate
<1>6. LoanInv'
  BY <1>5 DEF LoanInv
<1> QED BY <1>4, <1>5, <1>6, DoneKeeps DEF FlashInv, PaybackOperate

LEMMA AdministrationKeeps ==
  ASSUME FlashInv, ~Idle, ~Finished,
         \/ SetFlashloanFee(ixs[index])
         \/ PauseProtocol(ixs[index])
         \/ ActivateProtocol(ixs[index])
         \/ HandOver(ixs[index])
  PROVE  FlashInv'
<1>1. /\ Done /\ UNCHANGED vars /\ ixs[index].op # "flashloan_payback"
  BY DEF SetFlashloanFee, PauseProtocol, ActivateProtocol, HandOver, ByAuthority
<1>2. TypeInv'
  BY <1>1, StutterTyped DEF FlashInv
<1>3. ixs[index].amount \in Nat
  BY InstructionsTyped DEF FlashInv, TransactionInv, Finished
<1>4. GOVERNANCE_MS \in Accounts
  BY AccessAssumption DEF AccessAssumption
<1>5. /\ flashloan_admin' \in FlashloanAdmin
      /\ flashloan_admin'.is_flashloan_active = flashloan_admin.is_flashloan_active
      /\ flashloan_admin'.active_flashloan_amount = flashloan_admin.active_flashloan_amount
  <2> flashloan_admin \in FlashloanAdmin
    BY DEF FlashInv, TransactionInv
  <2>1. CASE SetFlashloanFee(ixs[index])
    <3>1. ixs[index].amount \in 0..FLASHLOAN_FEE_MAX
      BY <1>3, <2>1, FlashloanAssumption DEF FlashloanAssumption, SetFlashloanFee
    <3> QED BY <2>1, <3>1 DEF SetFlashloanFee, FlashloanAdmin
  <2>2. CASE PauseProtocol(ixs[index])
    BY <2>2 DEF PauseProtocol, FlashloanAdmin
  <2>3. CASE ActivateProtocol(ixs[index])
    BY <2>3 DEF ActivateProtocol, FlashloanAdmin
  <2>4. CASE HandOver(ixs[index])
    BY <2>4, <1>4 DEF HandOver, FlashloanAdmin
  <2> QED BY <2>1, <2>2, <2>3, <2>4
<1>6. LoanInv'
  BY <1>1, <1>5, PaybackApproaches DEF FlashInv
<1> QED BY <1>1, <1>2, <1>5, <1>6, DoneKeeps DEF FlashInv

LEMMA OtherKeeps ==
  ASSUME FlashInv, ~Idle, ~Finished, OtherInstruction(ixs[index])
  PROVE  FlashInv'
<1>1. TypeInv'
  BY LayerStepTyped, StutterTyped DEF FlashInv, OtherInstruction
<1>2. /\ Done /\ UNCHANGED flashloan_admin /\ ixs[index].op # "flashloan_payback"
      /\ flashloan_admin \in FlashloanAdmin
  BY DEF OtherInstruction, FlashInv, TransactionInv
<1>3. LoanInv'
  BY <1>2, PaybackApproaches DEF FlashInv
<1> QED BY <1>1, <1>2, <1>3, DoneKeeps DEF FlashInv

LEMMA CommitKeeps ==
  ASSUME FlashInv, Commit
  PROVE  FlashInv'
<1>1. TypeInv'
  BY StutterTyped DEF FlashInv, Commit
<1>2. ~flashloan_admin.is_flashloan_active
  <2>1. Len(ixs) \in Nat /\ index \in Nat /\ index > Len(ixs)
    BY InstructionsTyped DEF FlashInv, Commit, Finished
  <2>2. ~PaybackPending
    BY <2>1 DEF PaybackPending
  <2> QED BY <2>2 DEF FlashInv, LoanInv
<1>3. ixs' = <<>> /\ index' = 1 /\ stage' = "start" /\ UNCHANGED flashloan_admin
  BY DEF Commit, NoTransaction
<1> QED BY <1>1, <1>2, <1>3
        DEF FlashInv, ReturnInv, TransactionInv, LoanInv, PaybackInv, Idle

LEMMA AbortKeeps ==
  ASSUME FlashInv, Abort
  PROVE  FlashInv'
<1>1. TypeInv' /\ Closed(flashloan_admin')
  BY RestoredByAbort DEF FlashInv
<1>2. ixs' = <<>> /\ index' = 1 /\ stage' = "start"
  BY DEF Abort, NoTransaction
<1> QED BY <1>1, <1>2
        DEF FlashInv, Closed, ReturnInv, TransactionInv, LoanInv, PaybackInv, Idle

LEMMA BetweenKeeps ==
  ASSUME FlashInv,
         \/ Idle /\ LayerStep
         \/ UNCHANGED vars,
         UNCHANGED <<flashloan_admin, ixs, index, stage, before>>
  PROVE  FlashInv'
<1>1. TypeInv'
  BY LayerStepTyped, StutterTyped DEF FlashInv
<1>2. ReturnInv'
  BY ReturnKept DEF FlashInv
<1>3. TransactionInv' /\ LoanInv'
  BY DEF FlashInv, TransactionInv, LoanInv, PaybackPending, OfFlashloan, Idle
<1>4. PaybackInv'
  <2>1. CASE stage = "start"
    BY <2>1 DEF PaybackInv
  <2>2. CASE stage # "start"
    <3>1. UNCHANGED <<vault, interacting, now>>
      BY <2>2 DEF FlashInv, PaybackInv, vars, moneyVars
    <3> QED BY <2>2, <3>1 DEF FlashInv, PaybackInv, Idle, ExpectedPayback
  <2> QED BY <2>1, <2>2
<1> QED BY <1>1, <1>2, <1>3, <1>4 DEF FlashInv

LEMMA FlashInvInit == FlashInit => FlashInv
<1> SUFFICES ASSUME FlashInit PROVE FlashInv
  OBVIOUS
<1>1. TypeInv
  BY TypeInit DEF FlashInit
<1>2. flashloan_admin \in FlashloanAdmin
  <2>1. /\ {TRUE} \subseteq BOOLEAN /\ {FALSE} \subseteq BOOLEAN
        /\ {0} \subseteq Nat /\ Accounts \ {DefaultPubkey} \subseteq Accounts
    OBVIOUS
  <2>2. NewFlashloanAdmin \subseteq FlashloanAdmin
    BY <2>1, Zenon DEF NewFlashloanAdmin, FlashloanAdmin
  <2> QED BY <2>2 DEF FlashInit
<1>3. ~flashloan_admin.is_flashloan_active /\ flashloan_admin.active_flashloan_amount = 0
  BY DEF FlashInit, NewFlashloanAdmin
<1> QED BY <1>1, <1>2, <1>3
        DEF FlashInit, FlashInv, ReturnInv, TransactionInv, LoanInv, PaybackInv, Idle

LEMMA FlashInvStep == FlashInv /\ [FlashNext]_flashVars => FlashInv'
<1> SUFFICES ASSUME FlashInv, [FlashNext]_flashVars PROVE FlashInv'
  OBVIOUS
<1>1. CASE UNCHANGED flashVars
  BY <1>1, BetweenKeeps DEF flashVars
<1>2. ASSUME NEW tx \in Transactions, Begin(tx) PROVE FlashInv'
  BY <1>2, BeginKeeps
<1>3. CASE ~Idle /\ ~Finished /\ Execute(ixs[index])
  BY <1>3, BorrowKeeps, RecordKeeps, TransferKeeps, RepaidKeeps, AdministrationKeeps, OtherKeeps
     DEF Execute
<1>4. CASE Commit
  BY <1>4, CommitKeeps
<1>5. CASE Abort
  BY <1>5, AbortKeeps
<1>6. CASE Idle /\ LayerStep /\ UNCHANGED <<flashloan_admin, ixs, index, stage, before>>
  BY <1>6, BetweenKeeps
<1> QED BY <1>1, <1>2, <1>3, <1>4, <1>5, <1>6 DEF FlashNext
-----------------------------------------------------------------------------
(* The flashloan account and the liquidity layer under it are well typed   *)
(* through loans, paybacks, administration and aborted transactions.       *)
THEOREM FlashloanTyped == FlashSpec => []FlashTypeOK
<1>1. FlashInv => FlashTypeOK
  BY DEF FlashInv, TypeInv, TransactionInv, FlashTypeOK
<1> QED BY <1>1, FlashInvInit, FlashInvStep, PTL DEF FlashSpec

(* Whatever instructions a transaction consists of, in whatever order, it  *)
(* commits only with its loan paid back (validate.rs).                     *)
THEOREM LoansAreClosed == FlashSpec => []TransactionsCloseLoans
<1>1. FlashInv => TransactionsCloseLoans
  BY DEF FlashInv, LoanInv, TransactionsCloseLoans
<1> QED BY <1>1, FlashInvInit, FlashInvStep, PTL DEF FlashSpec

(* For every amount, fee, scale and window that satisfy the assumption on  *)
(* the constants, the transfer of amount and fee is what operate expects.  *)
THEOREM PaymentsFit == FlashSpec => []PaymentWithinWindow
<1>1. ASSUME FlashInv PROVE PaymentWithinWindow
  <2> DEFINE amount == flashloan_admin.active_flashloan_amount
             paid == ExpectedPayback(flashloan_admin, amount)
  <2> SUFFICES ASSUME stage = "transferred" PROVE AmountArrived(FLASHLOAN, amount)
    BY DEF PaymentWithinWindow
  <2>1. amount \in Nat /\ flashloan_admin \in FlashloanAdmin
    BY <1>1 DEF FlashInv, TransactionInv, FlashloanAdmin
  <2>2. /\ amount >= MIN_FLASHLOAN_AMOUNT
        /\ interacting.protocol = FLASHLOAN /\ interacting.timestamp = now
        /\ vault = interacting.balance + paid
    BY <1>1 DEF FlashInv, PaybackInv
  <2>3. /\ paid \in Nat /\ paid >= amount
        /\ paid <= PercentOf(amount, FOUR_DECIMALS + MAX_INPUT_AMOUNT_EXCESS)
    BY <2>1, <2>2, FeeFits
  <2> HIDE DEF paid
  <2>4. interacting.balance \in Int
    BY <1>1, Unpacked, Constants DEF FlashInv, Interaction, Amount
  <2>5. vault - interacting.balance = paid
    BY <2>2, <2>3, <2>4
  <2> QED BY <2>2, <2>3, <2>5 DEF AmountArrived
<1> QED BY <1>1, FlashInvInit, FlashInvStep, PTL DEF FlashSpec

(* While a loan is open, only the authority through another program can    *)
(* change the fee or pause: the borrow refused every other instruction.    *)
THEOREM TermsHold == FlashSpec => TermsKept
<1>1. FlashInv /\ [FlashNext]_flashVars =>
        [flashloan_admin.is_flashloan_active /\ flashloan_admin'.is_flashloan_active
           => \/ flashloan_admin' = flashloan_admin
              \/ ixs[index].cpi]_flashVars
  <2> SUFFICES ASSUME FlashInv, FlashNext, flashloan_admin' # flashloan_admin,
                      flashloan_admin.is_flashloan_active, flashloan_admin'.is_flashloan_active
               PROVE  ixs[index].cpi
    BY DEF flashVars
  <2>1. Closed(before.flashloan_admin) \/ Idle
    BY DEF FlashInv, ReturnInv
  <2>2. ~Abort
    BY <2>1 DEF Abort, Closed
  <2>3. ~Idle /\ ~Finished /\ Execute(ixs[index])
    BY <2>2 DEF FlashNext, Begin, Commit
  <2>4. ixs[index].op # "other" /\ ixs[index].op # "flashloan_payback"
    <3>1. flashloan_admin \in FlashloanAdmin
      BY DEF FlashInv, TransactionInv
    <3>2. ~FlashloanBorrow(ixs[index])
      BY DEF FlashloanBorrow
    <3>3. ~PaybackRecord(ixs[index]) /\ ~PaybackTransfer(ixs[index])
      BY DEF PaybackRecord, PaybackTransfer
    <3>4. ~PaybackOperate(ixs[index])
      BY <3>1 DEF PaybackOperate, FlashloanAdmin
    <3>5. ~OtherInstruction(ixs[index])
      BY DEF OtherInstruction
    <3>6. /\ SetFlashloanFee(ixs[index]) => ixs[index].op = "set_flashloan_fee"
          /\ PauseProtocol(ixs[index]) => ixs[index].op = "pause_protocol"
          /\ ActivateProtocol(ixs[index]) => ixs[index].op = "activate_protocol"
          /\ HandOver(ixs[index]) => ixs[index].op = "update_authority"
      BY DEF SetFlashloanFee, PauseProtocol, ActivateProtocol, HandOver, ByAuthority
    <3> QED BY <2>3, <3>2, <3>3, <3>4, <3>5, <3>6 DEF Execute
  <2>5. PICK j \in index..Len(ixs) :
          /\ ixs[j].op = "flashloan_payback"
          /\ \A k \in index..Len(ixs) : OfFlashloan(ixs[k]) => k = j
    BY DEF FlashInv, LoanInv, PaybackPending
  <2>6. index \in index..Len(ixs)
    BY <2>3, InstructionsTyped DEF FlashInv, TransactionInv, Finished
  <2> QED BY <2>4, <2>5, <2>6 DEF OfFlashloan
<1> QED BY <1>1, FlashInvInit, FlashInvStep, PTL DEF FlashSpec, TermsKept
-----------------------------------------------------------------------------
(* Solvency.  All steps of the layer that a transaction makes are steps of *)
(* LayerNext, but for the one that takes them back.                        *)
LEMMA LoanStepsAmongSteps ==
  ASSUME FlashInv, [FlashNext]_flashVars, ~Abort
  PROVE  [LayerNext]_vars
<1> DEFINE ix == ixs[index]
           amount == flashloan_admin.active_flashloan_amount
<1>1. CASE UNCHANGED vars
  BY <1>1
<1>2. CASE LayerStep
  BY <1>2, LayerStepAmongSteps
<1>3. ASSUME ~Idle, ~Finished, FlashloanBorrow(ix) \/ PaybackOperate(ix)
      PROVE  LayerNext
  <2>1. ix.op \in {"flashloan_borrow", "flashloan_payback"}
    BY <1>3 DEF FlashInv, PaybackInv, FlashloanBorrow, PaybackOperate
  <2>2. ix.amount \in Nat /\ ix.signer \in Recipients
    BY <1>3, <2>1, InstructionsTyped DEF FlashInv, TransactionInv, Finished
  <2>3. amount \in Nat /\ FLASHLOAN \in Protocols
    BY FlashloanAssumption DEF FlashInv, TransactionInv, FlashloanAdmin, FlashloanAssumption
  <2>4. 0 \in Int /\ ix.amount \in Int /\ -amount \in Int
    BY <2>2, <2>3
  <2>5. \/ Operate(FLASHLOAN, 0, ix.amount, ix.signer, ix.signer, "DIRECT")
        \/ Operate(FLASHLOAN, 0, -amount, ix.signer, ix.signer, "DIRECT")
    BY <1>3 DEF FlashloanBorrow, PaybackOperate
  <2> HIDE DEF ix, amount
  <2> QED BY <2>2, <2>3, <2>4, <2>5 DEF LayerNext
<1>4. ASSUME PaybackRecord(ix)
      PROVE  LayerNext
  BY <1>4, FlashloanAssumption DEF PaybackRecord, LayerNext, FlashloanAssumption
<1>5. ASSUME PaybackTransfer(ix)
      PROVE  LayerNext
  <2>1. /\ amount \in Nat /\ amount >= MIN_FLASHLOAN_AMOUNT /\ flashloan_admin \in FlashloanAdmin
        /\ ix.amount = amount
    BY <1>5 DEF FlashInv, PaybackInv, TransactionInv, FlashloanAdmin, PaybackTransfer
  <2>2. ExpectedPayback(flashloan_admin, amount) \in Nat
    BY <2>1, FeeFits
  <2>3. TransferIn(ExpectedPayback(flashloan_admin, amount))
    BY <1>5, <2>1 DEF PaybackTransfer
  <2> QED BY <2>2, <2>3 DEF LayerNext
<1>6. ASSUME \/ SetFlashloanFee(ix) \/ PauseProtocol(ix) \/ ActivateProtocol(ix) \/ HandOver(ix)
             \/ \E tx \in Transactions : Begin(tx)
             \/ Commit
             \/ UNCHANGED flashVars
      PROVE  UNCHANGED vars
  BY <1>6 DEF SetFlashloanFee, PauseProtocol, ActivateProtocol, HandOver, ByAuthority, Begin,
              Commit, flashVars
<1>7. ASSUME OtherInstruction(ix)
      PROVE  LayerStep \/ UNCHANGED vars
  BY <1>7 DEF OtherInstruction
<1> QED BY <1>1, <1>2, <1>3, <1>4, <1>5, <1>6, <1>7 DEF FlashNext, Execute

(* The part of SolvencyInv beyond the types, of a recorded state.          *)
SoundAt(s) ==
  /\ \A p \in Protocols : /\ SupplySound(s.supplyPos[p]) /\ BorrowSound(s.borrowPos[p])
                          /\ Empty(s.supplyPos[p]) /\ Empty(s.borrowPos[p])
  /\ \A mode \in BOOLEAN :
       /\ SupplyTotal(s.reserve, mode) = SumOf([p \in Protocols |-> Share(s.supplyPos[p], mode)])
       /\ BorrowTotal(s.reserve, mode) = SumOf([p \in Protocols |-> Share(s.borrowPos[p], mode)])
  /\ s.reserve.last_utilization = CalcUtilization(s.reserve, StoredPrices(s.reserve))
  /\ s.rate_model.version # 0 =>
       s.reserve.borrow_rate = CalcBorrowRate(s.rate_model, s.reserve.last_utilization)
  /\ s.interacting.timestamp <= s.now

LEMMA SoundHere == SolvencyInv <=> TypeInv /\ SoundAt(State)
<1>1. \A mode : /\ SuppliedIn(mode) = [p \in Protocols |-> Share(supplyPos[p], mode)]
                /\ BorrowedIn(mode) = [p \in Protocols |-> Share(borrowPos[p], mode)]
  BY DEF SuppliedIn, BorrowedIn, Share
<1>2. /\ State.supplyPos = supplyPos /\ State.borrowPos = borrowPos /\ State.reserve = reserve
      /\ State.rate_model = rate_model /\ State.interacting = interacting /\ State.now = now
  BY DEF State
<1> QED BY <1>1, <1>2 DEF SolvencyInv, BooksInv, LimitInv, UnconfiguredEmpty, SuppliesMatch,
                          BorrowsMatch, CachedRateCurrent, InteractionPast, SoundAt

LEMMA SoundThere == SolvencyInv' <=> TypeInv' /\ SoundAt(State')
<1>1. (SolvencyInv <=> TypeInv /\ SoundAt(State))'
  BY SoundHere, PTL
<1> QED BY <1>1

LoanSolvencyInv == FlashInv /\ SolvencyInv /\ (~Idle => SoundAt(before))

LEMMA SoundnessRestored ==
  ASSUME SoundAt(before), Abort
  PROVE  SoundAt(State')
<1> DEFINE s == State'
<1>1. /\ s.supplyPos = before.supplyPos /\ s.borrowPos = before.borrowPos
      /\ s.reserve = before.reserve /\ s.rate_model = before.rate_model
      /\ s.interacting = before.interacting /\ s.now = before.now
  BY DEF Abort, State
<1> HIDE DEF s
<1>2. SoundAt(s)
  BY <1>1 DEF SoundAt
<1> QED BY <1>2 DEF s

LEMMA LoanSolvencyStep == LoanSolvencyInv /\ [FlashNext]_flashVars => LoanSolvencyInv'
<1> SUFFICES ASSUME LoanSolvencyInv, [FlashNext]_flashVars PROVE LoanSolvencyInv'
  OBVIOUS
<1>1. FlashInv /\ FlashInv' /\ TypeInv'
  BY FlashInvStep DEF LoanSolvencyInv, FlashInv
<1>2. CASE Abort
  <2>1. SoundAt(before) /\ Idle'
    BY <1>2 DEF LoanSolvencyInv, Abort, NoTransaction, Idle
  <2> QED BY <1>1, <1>2, <2>1, SoundnessRestored, SoundThere DEF LoanSolvencyInv
<1>3. CASE ~Abort
  <2>1. SolvencyInv'
    BY <1>1, <1>3, LoanStepsAmongSteps, SolvencyStep DEF LoanSolvencyInv
  <2>2. ~Idle' => SoundAt(before')
    <3>1. CASE UNCHANGED <<ixs, before>>
      BY <3>1 DEF LoanSolvencyInv, Idle
    <3>2. ASSUME NEW tx \in Transactions, Begin(tx) PROVE SoundAt(before')
      BY <3>2, SoundHere DEF LoanSolvencyInv, Begin
    <3>3. CASE Commit
      BY <3>3 DEF Commit, NoTransaction, Idle
    <3>4. Execute(ixs[index]) => UNCHANGED <<ixs, before>>
      BY DEF Execute, FlashloanBorrow, PaybackRecord, PaybackTransfer, PaybackOperate,
             SetFlashloanFee, PauseProtocol, ActivateProtocol, HandOver, ByAuthority,
             OtherInstruction, Done
    <3> QED BY <1>3, <3>1, <3>2, <3>3, <3>4 DEF FlashNext, flashVars
  <2> QED BY <1>1, <2>1, <2>2 DEF LoanSolvencyInv
<1> QED BY <1>2, <1>3

(* No step of a loan, of its fee or of any program beside it makes the     *)
(* layer insolvent, in the middle of a transaction or between two: the     *)
(* borrow, the three calls of the payback and what other instructions do   *)
(* are steps of the layer, for which that is proved with any amounts.      *)
THEOREM LoansKeepLayerSolvent == FlashSpec => LoansKeepSolvency
<1>1. FlashInit => LoanSolvencyInv
  BY FlashInvInit, SolvencyInit DEF FlashInit, LoanSolvencyInv, Idle
<1>2. LoanSolvencyInv /\ LoanSolvencyInv' /\ [FlashNext]_flashVars =>
        [ixs' = ixs /\ InterestOnly /\ Covered /\ ~UnsettledCollection => Covered']_flashVars
  <2> SUFFICES ASSUME LoanSolvencyInv, LoanSolvencyInv', FlashNext, ixs' = ixs,
                      InterestOnly, Covered, ~UnsettledCollection
               PROVE  Covered'
    OBVIOUS
  <2>1. ~Abort
    BY DEF Abort, NoTransaction, Idle
  <2>2. [LayerNext]_vars
    BY <2>1, LoanStepsAmongSteps DEF LoanSolvencyInv
  <2> QED BY <2>2, StepsCovered DEF LoanSolvencyInv
<1> QED BY <1>1, <1>2, LoanSolvencyStep, PTL DEF FlashSpec, LoansKeepSolvency
-----------------------------------------------------------------------------
(* Repayment.  What a loan of amount a, or its payback for a < 0, changes. *)
LEMMA LoanOperated ==
  ASSUME TypeInv, NEW a \in Int, a # 0, NEW user \in Recipients,
         Operate(FLASHLOAN, 0, a, user, user, "DIRECT")
  PROVE  LET price == CalculateExchangePrices(reserve, now).borrow
             old == borrowPos[FLASHLOAN]
         IN  /\ vault' = vault - Positive(a) /\ now' = now
             /\ reserve'.last_update_timestamp = now
             /\ reserve'.borrow_exchange_price = price
             /\ price \in Nat \ {0}
             /\ borrowPos'[FLASHLOAN].with_interest = old.with_interest
             /\ borrowPos'[FLASHLOAN].amount = old.amount + BorrowDelta(old, a, price)
<1> DEFINE price == CalculateExchangePrices(reserve, now).borrow
           old == borrowPos[FLASHLOAN]
           new == BorrowOrPayback(old, a, price, now)
<1>1. FLASHLOAN \in Protocols /\ 0 \in Int
  BY FlashloanAssumption DEF FlashloanAssumption
<1>2. old \in BorrowPosition /\ price \in Nat \ {0} /\ now \in Nat /\ old.last_update <= now
      /\ borrowPos \in [Protocols -> BorrowPosition] /\ vault \in Int
  BY <1>1, Unpacked, Constants DEF Amount
<1>3. /\ reserve'.last_update_timestamp = now
      /\ reserve'.borrow_exchange_price = price
  BY <1>1, OperateRewrites, RewrittenPrices DEF StoredPrices
<1>4. /\ BorrowOrPaybackAllowed(old, a, price, now)
      /\ borrowPos' = [borrowPos EXCEPT ![FLASHLOAN] = new]
      /\ now' = now /\ vault' = vault - (Positive(-0) + Positive(a))
  BY DEF Operate
<1>5. Positive(-0) + Positive(a) = Positive(a)
  BY DEF Positive
<1> HIDE DEF price
<1>6. new.with_interest = old.with_interest /\ new.amount = old.amount + BorrowDelta(old, a, price)
  BY <1>2, <1>4, BorrowOperated
<1>7. borrowPos'[FLASHLOAN] = new
  BY <1>1, <1>2, <1>4
<1> QED BY <1>2, <1>3, <1>4, <1>5, <1>6, <1>7 DEF price

(* Debt is rounded up when taken and down when paid back, at one price.    *)
LEMMA RoundTrip ==
  ASSUME NEW pos \in BorrowPosition, NEW later, later.with_interest = pos.with_interest,
         NEW a \in Nat \ {0}, NEW price \in Nat \ {0}
  PROVE  /\ BorrowDelta(pos, a, price) \in Int /\ BorrowDelta(later, -a, price) \in Int
         /\ BorrowDelta(pos, a, price) + BorrowDelta(later, -a, price) \in 0..1
<1>1. pos.with_interest \in BOOLEAN /\ Precision \in Nat \ {0}
  BY Constants DEF BorrowPosition
<1>2. CASE ~pos.with_interest
  BY <1>2 DEF BorrowDelta
<1>3. CASE pos.with_interest
  <2> DEFINE x == a * Precision
             up == DivCeil(x, price)
             down == x \div price
  <2>1. x \in Nat
    BY <1>1
  <2>2. -((-a) * Precision) = x
    BY <1>1
  <2>3. BorrowDelta(pos, a, price) = up /\ BorrowDelta(later, -a, price) = -down
    BY <1>3, <2>2 DEF BorrowDelta
  <2> HIDE DEF x
  <2>4. /\ down \in Nat /\ price * down <= x /\ x < price * down + price
        /\ up \in Nat /\ x <= price * up
    BY <2>1, Quotient, CeilQuotient
  <2>5. price * up <= x + price - 1
    BY <2>1, Quotient DEF DivCeil
  <2> HIDE DEF up, down
  <2>6. down <= up
    <3>1. price * down <= price * up
      BY <2>1, <2>4
    <3>2. down * price = price * down /\ up * price = price * up
      BY <2>4
    <3> QED BY <2>4, <3>1, <3>2, CancelFactor
  <2>7. up <= down + 1
    <3>1. CASE up >= down + 2
      <4>1. price * (down + 2) <= price * up
        BY <2>4, <3>1, ProductMonotonic
      <4>2. price * (down + 2) = price * down + price + price /\ price * down \in Nat
        BY <2>4
      <4> QED BY <2>1, <2>4, <2>5, <4>1, <4>2
    <3> QED BY <2>4, <3>1
  <2> QED BY <2>3, <2>4, <2>6, <2>7
<1> QED BY <1>1, <1>2, <1>3

(* A transaction of loans and paybacks only, before its loan, between loan *)
(* and payback, and after it.                                              *)
LoanAhead ==
  /\ index = 1 /\ stage = "start" /\ ~flashloan_admin.is_flashloan_active
  /\ vault = before.vault /\ borrowPos = before.borrowPos

DebtGrown == borrowPos[FLASHLOAN].amount - before.borrowPos[FLASHLOAN].amount

LoanOut ==
  LET a == ixs[1].amount
  IN  /\ index = 2 /\ ixs[1].op = "flashloan_borrow"
      /\ flashloan_admin.is_flashloan_active /\ flashloan_admin.active_flashloan_amount = a
      /\ a \in Nat \ {0}
      /\ vault = before.vault - a
           + IF stage = "transferred" THEN ExpectedPayback(flashloan_admin, a) ELSE 0
      /\ reserve.last_update_timestamp = now
      /\ borrowPos[FLASHLOAN].with_interest = before.borrowPos[FLASHLOAN].with_interest
      /\ before.borrowPos[FLASHLOAN] \in BorrowPosition
      /\ DebtGrown = BorrowDelta(before.borrowPos[FLASHLOAN], a, reserve.borrow_exchange_price)

LoanBack ==
  LET a == ixs[1].amount
  IN  /\ index = 3 /\ ixs[1].op = "flashloan_borrow" /\ ixs[2].op = "flashloan_payback"
      /\ \A k \in 3..Len(ixs) : ~OfFlashloan(ixs[k])
      /\ a \in Nat \ {0} /\ flashloan_admin \in FlashloanAdmin
      /\ vault = before.vault - a + ExpectedPayback(flashloan_admin, a)
      /\ DebtGrown \in 0..1

LoanProgress == ~Idle /\ LoanOnly => LoanAhead \/ LoanOut \/ LoanBack

RepayInv == FlashInv /\ LoanProgress

LEMMA SavedUnpacked ==
  ASSUME ReturnInv, ~Idle
  PROVE  before.vault \in Nat /\ before.borrowPos \in [Protocols -> BorrowPosition]
BY SavedTypes, Constants DEF ReturnInv, Saved!TypeInv, Saved!TypeOK, Amount

(* Only a loan or a payback of the program itself can run.                 *)
LEMMA OnlyLoanSteps ==
  ASSUME FlashInv, ~Idle, ~Finished, LoanOnly, Execute(ixs[index])
  PROVE  /\ OfFlashloan(ixs[index]) /\ index \in 1..Len(ixs)
         /\ \/ FlashloanBorrow(ixs[index]) \/ PaybackRecord(ixs[index])
            \/ PaybackTransfer(ixs[index]) \/ PaybackOperate(ixs[index])
<1> DEFINE ix == ixs[index]
<1>1. index \in 1..Len(ixs) /\ ixs \in Seq(Instruction)
  BY InstructionsTyped, FlashloanAssumption
     DEF FlashInv, TransactionInv, Finished, FlashloanAssumption
<1>2. ix.op \in {"flashloan_borrow", "flashloan_payback"}
  BY <1>1 DEF LoanOnly
<1>3. ~OtherInstruction(ix)
  BY <1>2 DEF OtherInstruction
<1>4. ~(SetFlashloanFee(ix) \/ PauseProtocol(ix) \/ ActivateProtocol(ix) \/ HandOver(ix))
  BY <1>2 DEF SetFlashloanFee, PauseProtocol, ActivateProtocol, HandOver, ByAuthority
<1>5. \/ FlashloanBorrow(ix) \/ PaybackRecord(ix) \/ PaybackTransfer(ix) \/ PaybackOperate(ix)
  BY <1>3, <1>4 DEF Execute
<1>6. ~ix.cpi
  BY <1>5 DEF FlashInv, PaybackInv, FlashloanBorrow, PaybackRecord, PaybackTransfer, PaybackOperate
<1> QED BY <1>1, <1>2, <1>5, <1>6 DEF OfFlashloan

LEMMA LoanTaken ==
  ASSUME FlashInv, ~Idle, ~Finished, LoanAhead, FlashloanBorrow(ixs[index])
  PROVE  LoanOut'
<1> DEFINE ix == ixs[1]
           a == ix.amount
           old == borrowPos[FLASHLOAN]
           price == CalculateExchangePrices(reserve, now).borrow
<1>1. index = 1 /\ FlashloanBorrow(ix)
  BY DEF LoanAhead
<1>2. ix.op = "flashloan_borrow" /\ index' = 2 /\ UNCHANGED <<ixs, before>> /\ stage' = "start"
  BY <1>1 DEF FlashloanBorrow, Done
<1>3. a \in Nat \ {0} /\ ix.signer \in Recipients
  <2>1. a \in Nat /\ ix.signer \in Recipients
    BY <1>1, <1>2, InstructionsTyped DEF FlashInv, TransactionInv, Finished
  <2> QED BY <1>1, <2>1, FlashloanAssumption DEF FlashloanBorrow, FlashloanAssumption
<1>4. /\ flashloan_admin'.is_flashloan_active /\ flashloan_admin'.active_flashloan_amount = a
  BY <1>1 DEF FlashloanBorrow, FlashInv, TransactionInv, FlashloanAdmin
<1>5. TypeInv /\ a \in Int /\ a # 0 /\ Operate(FLASHLOAN, 0, a, ix.signer, ix.signer, "DIRECT")
  BY <1>1, <1>3 DEF FlashloanBorrow, FlashInv
<1>6. /\ vault' = vault - Positive(a) /\ reserve'.last_update_timestamp = now'
      /\ reserve'.borrow_exchange_price = price /\ price \in Nat \ {0}
      /\ borrowPos'[FLASHLOAN].with_interest = old.with_interest
      /\ borrowPos'[FLASHLOAN].amount = old.amount + BorrowDelta(old, a, price)
  BY <1>3, <1>5, LoanOperated
<1>7. /\ before.vault = vault /\ before.borrowPos[FLASHLOAN] = old /\ vault \in Nat
      /\ old \in BorrowPosition /\ old.amount \in Nat
  <2>1. before.vault = vault /\ before.borrowPos[FLASHLOAN] = old
    BY DEF LoanAhead
  <2>2. FLASHLOAN \in Protocols /\ vault \in Nat /\ borrowPos \in [Protocols -> BorrowPosition]
    BY <1>5, Unpacked, Constants, FlashloanAssumption DEF Amount, FlashloanAssumption
  <2> QED BY <2>1, <2>2, Constants DEF BorrowPosition
<1> HIDE DEF price
<1>8. Positive(a) = a /\ BorrowDelta(old, a, price) \in Int
  BY <1>3, <1>5, <1>6, <1>7, BorrowDeltaInteger DEF Positive
<1>9. vault' = before.vault - a + 0
  BY <1>3, <1>6, <1>7, <1>8
<1>10. DebtGrown' = BorrowDelta(before.borrowPos[FLASHLOAN], a, reserve'.borrow_exchange_price)
  BY <1>2, <1>6, <1>7, <1>8 DEF DebtGrown
<1> QED BY <1>2, <1>3, <1>4, <1>6, <1>7, <1>9, <1>10 DEF LoanOut

LEMMA PaymentStarted ==
  ASSUME FlashInv, ~Idle, LoanOut, PaybackRecord(ixs[index])
  PROVE  LoanOut'
<1>1. UNCHANGED <<vault, reserve, borrowPos, now, flashloan_admin, ixs, index, before>>
  BY DEF PaybackRecord, PreOperate, positionVars
<1>2. stage # "transferred" /\ stage' # "transferred"
  BY DEF PaybackRecord
<1> QED BY <1>1, <1>2 DEF LoanOut, DebtGrown

LEMMA PaymentSent ==
  ASSUME FlashInv, ~Idle, LoanOut, PaybackTransfer(ixs[index])
  PROVE  LoanOut'
<1> DEFINE a == ixs[1].amount
           paid == ExpectedPayback(flashloan_admin, a)
<1>1. UNCHANGED <<reserve, borrowPos, now, flashloan_admin, ixs, index, before>>
  BY DEF PaybackTransfer, TransferIn, positionVars
<1>2. stage = "recorded" /\ stage' = "transferred"
  BY DEF PaybackTransfer
<1>3. /\ ixs[index].amount = a /\ a >= MIN_FLASHLOAN_AMOUNT /\ flashloan_admin \in FlashloanAdmin
      /\ a \in Nat
  BY <1>2 DEF FlashInv, PaybackInv, TransactionInv, LoanOut
<1>4. paid \in Nat
  BY <1>3, FeeFits
<1>5. vault' = vault + paid /\ vault = before.vault - a + 0 /\ before.vault \in Nat
  BY <1>2, <1>3, SavedUnpacked DEF PaybackTransfer, TransferIn, LoanOut, FlashInv
<1>6. paid' = paid
  BY <1>1 DEF ExpectedPayback
<1> HIDE DEF paid
<1>7. vault' = before.vault - a + paid
  BY <1>3, <1>4, <1>5
<1> QED BY <1>1, <1>2, <1>6, <1>7 DEF LoanOut, DebtGrown, paid

LEMMA LoanPaidBack ==
  ASSUME FlashInv, ~Idle, ~Finished, LoanOut, PaybackOperate(ixs[index])
  PROVE  LoanBack'
<1> DEFINE a == ixs[1].amount
           ix == ixs[2]
           old == borrowPos[FLASHLOAN]
           was == before.borrowPos[FLASHLOAN]
           price == reserve.borrow_exchange_price
<1>1. /\ index = 2 /\ stage = "transferred" /\ a \in Nat \ {0}
      /\ ixs[1].op = "flashloan_borrow" /\ flashloan_admin.active_flashloan_amount = a
      /\ vault = before.vault - a + ExpectedPayback(flashloan_admin, a)
      /\ reserve.last_update_timestamp = now
      /\ old.with_interest = was.with_interest /\ was \in BorrowPosition
      /\ old.amount - was.amount = BorrowDelta(was, a, price)
  BY DEF LoanOut, DebtGrown, PaybackOperate
<1>2. /\ index' = 3 /\ UNCHANGED <<ixs, before>>
      /\ Operate(FLASHLOAN, 0, -a, ix.signer, ix.signer, "DIRECT")
      /\ flashloan_admin' = [flashloan_admin EXCEPT !.is_flashloan_active = FALSE,
                                                    !.active_flashloan_amount = 0]
  BY <1>1 DEF PaybackOperate, Done
<1>3. ix.op = "flashloan_payback" /\ ~ix.cpi
  BY <1>1 DEF FlashInv, PaybackInv
<1>4. /\ ix.signer \in Recipients /\ Len(ixs) \in Nat /\ 2 \in 2..Len(ixs)
      /\ TypeInv /\ flashloan_admin \in FlashloanAdmin
  BY <1>1, <1>3, InstructionsTyped DEF FlashInv, TransactionInv, Finished
<1>5. \A k \in 3..Len(ixs) : ~OfFlashloan(ixs[k])
  <2>1. PICK j \in 2..Len(ixs) : \A k \in 2..Len(ixs) : OfFlashloan(ixs[k]) => k = j
    BY <1>1 DEF FlashInv, LoanInv, LoanOut, PaybackPending
  <2>2. j = 2
    BY <1>3, <1>4, <2>1 DEF OfFlashloan
  <2> QED BY <1>4, <2>1, <2>2
<1>6. /\ flashloan_admin' \in FlashloanAdmin
      /\ flashloan_admin'.flashloan_fee = flashloan_admin.flashloan_fee
  BY <1>2, <1>4 DEF FlashloanAdmin
<1>7. CalculateExchangePrices(reserve, now).borrow = price
  BY <1>1, <1>4, Unpacked, NoTimeNoInterest DEF StoredPrices
<1>8. /\ vault' = vault - Positive(-a) /\ price \in Nat \ {0}
      /\ borrowPos'[FLASHLOAN].amount = old.amount + BorrowDelta(old, -a, price)
  <2>1. -a \in Int /\ -a # 0
    BY <1>1
  <2> QED BY <1>2, <1>4, <1>7, <2>1, LoanOperated
<1>9. /\ BorrowDelta(was, a, price) \in Int /\ BorrowDelta(old, -a, price) \in Int
      /\ BorrowDelta(was, a, price) + BorrowDelta(old, -a, price) \in 0..1
  BY <1>1, <1>8, RoundTrip
<1>10. vault' = before.vault - a + ExpectedPayback(flashloan_admin, a)
  <2>1. Positive(-a) = 0 /\ vault \in Int
    BY <1>1, <1>4, Unpacked, Constants DEF Positive, Amount
  <2>2. vault' = vault
    BY <1>8, <2>1
  <2> QED BY <1>1, <2>2
<1>11. DebtGrown' \in 0..1
  <2>1. old.amount \in Int /\ was.amount \in Int
    <3>1. old \in BorrowPosition
      BY <1>4, Unpacked, FlashloanAssumption DEF FlashloanAssumption
    <3> QED BY <1>1, <3>1, Constants DEF BorrowPosition
  <2>2. DebtGrown' = borrowPos'[FLASHLOAN].amount - was.amount
    BY <1>2 DEF DebtGrown
  <2> HIDE DEF old, was, price
  <2>3. borrowPos'[FLASHLOAN].amount - was.amount
          = BorrowDelta(was, a, price) + BorrowDelta(old, -a, price)
    BY <1>1, <1>8, <1>9, <2>1
  <2> QED BY <1>9, <2>2, <2>3
<1> QED BY <1>1, <1>2, <1>3, <1>5, <1>6, <1>10, <1>11
        DEF LoanBack, OfFlashloan, ExpectedPayback

LEMMA RepayInit == FlashInit => RepayInv
BY FlashInvInit DEF FlashInit, RepayInv, LoanProgress, Idle

LEMMA RepayStep == RepayInv /\ [FlashNext]_flashVars => RepayInv'
<1> SUFFICES ASSUME RepayInv, [FlashNext]_flashVars PROVE RepayInv'
  OBVIOUS
<1>1. FlashInv /\ FlashInv'
  BY FlashInvStep DEF RepayInv
<1> SUFFICES LoanProgress'
  BY <1>1 DEF RepayInv
<1>2. ASSUME NEW tx \in Transactions, Begin(tx)
      PROVE  LoanProgress'
  <2>1. ~flashloan_admin.is_flashloan_active
    BY <1>1, <1>2 DEF FlashInv, LoanInv, Begin
  <2>2. LoanAhead'
    BY <1>2, <2>1 DEF Begin, State, LoanAhead, vars, moneyVars, positionVars
  <2> QED BY <2>2 DEF LoanProgress
<1>3. CASE Commit \/ Abort
  BY <1>3 DEF Commit, Abort, NoTransaction, LoanProgress, Idle
<1>4. CASE UNCHANGED flashVars
  BY <1>4 DEF flashVars, vars, moneyVars, positionVars, RepayInv, LoanProgress, LoanAhead, LoanOut,
              LoanBack, DebtGrown, Idle, LoanOnly, OfFlashloan, ExpectedPayback
<1>5. CASE Idle /\ LayerStep /\ UNCHANGED <<flashloan_admin, ixs, index, stage, before>>
  BY <1>5 DEF LoanProgress, Idle
<1>6. CASE ~Idle /\ ~Finished /\ Execute(ixs[index])
  <2> SUFFICES ASSUME LoanOnly' PROVE (LoanAhead \/ LoanOut \/ LoanBack)'
    BY DEF LoanProgress
  <2>1. LoanOnly /\ (LoanAhead \/ LoanOut \/ LoanBack)
    <3>1. ixs' = ixs
      BY <1>6 DEF Execute, FlashloanBorrow, PaybackRecord, PaybackTransfer, PaybackOperate,
                  SetFlashloanFee, PauseProtocol, ActivateProtocol, HandOver, ByAuthority,
                  OtherInstruction, Done
    <3> QED BY <1>6, <3>1 DEF LoanOnly, RepayInv, LoanProgress
  <2>2. /\ OfFlashloan(ixs[index]) /\ index \in 1..Len(ixs)
        /\ \/ FlashloanBorrow(ixs[index]) \/ PaybackRecord(ixs[index])
           \/ PaybackTransfer(ixs[index]) \/ PaybackOperate(ixs[index])
    BY <1>1, <1>6, <2>1, OnlyLoanSteps
  <2>3. ~LoanBack
    BY <2>2 DEF LoanBack
  <2>4. CASE LoanAhead
    <3>1. flashloan_admin.active_flashloan_amount = 0 /\ MIN_FLASHLOAN_AMOUNT \in Nat \ {0}
      BY <1>1, <2>4, FlashloanAssumption DEF FlashInv, LoanInv, LoanAhead, FlashloanAssumption
    <3>2. ~PaybackRecord(ixs[index])
      BY <3>1 DEF PaybackRecord
    <3>3. ~PaybackTransfer(ixs[index]) /\ ~PaybackOperate(ixs[index])
      BY <2>4 DEF LoanAhead, PaybackTransfer, PaybackOperate
    <3> QED BY <1>1, <1>6, <2>2, <2>4, <3>2, <3>3, LoanTaken
  <2>5. CASE LoanOut
    <3>1. ~FlashloanBorrow(ixs[index])
      BY <2>5 DEF LoanOut, FlashloanBorrow
    <3> QED BY <1>1, <1>6, <2>2, <2>5, <3>1, PaymentStarted, PaymentSent, LoanPaidBack
  <2> QED BY <2>1, <2>3, <2>4, <2>5
<1> QED BY <1>1, <1>2, <1>3, <1>4, <1>5, <1>6 DEF FlashNext

LEMMA RepaidAtEnd ==
  ASSUME RepayInv, Finished, LoanOnly, NEW i \in DOMAIN ixs, ixs[i].op = "flashloan_borrow"
  PROVE  /\ (vault - before.vault) * FOUR_DECIMALS >= ixs[i].amount * flashloan_admin.flashloan_fee
         /\ borrowPos[FLASHLOAN].amount - before.borrowPos[FLASHLOAN].amount \in 0..1
<1> DEFINE a == ixs[1].amount
           fee == flashloan_admin.flashloan_fee
           charged == DivCeil(a * fee, FOUR_DECIMALS)
<1>1. FlashInv /\ ~Idle
  BY DEF RepayInv, Finished
<1>2. /\ Len(ixs) \in Nat \ {0} /\ index \in Nat /\ index > Len(ixs) /\ index \in 1..(Len(ixs) + 1)
      /\ DOMAIN ixs = 1..Len(ixs)
  <2>1. ixs \in Seq(Instruction) /\ ixs # <<>> /\ index \in 1..(Len(ixs) + 1)
    BY <1>1, FlashloanAssumption DEF FlashInv, TransactionInv, FlashloanAssumption
  <2> QED BY <2>1 DEF Finished
<1>3. LoanBack
  <2>1. ~LoanAhead
    BY <1>2 DEF LoanAhead
  <2>2. ~LoanOut
    BY <1>1, <1>2 DEF LoanOut, FlashInv, LoanInv, PaybackPending
  <2> QED BY <1>1, <2>1, <2>2 DEF RepayInv, LoanProgress
<1>4. i = 1
  BY <1>2, <1>3 DEF LoanBack
<1>5. a \in Nat /\ fee \in Nat /\ before.vault \in Nat /\ FOUR_DECIMALS \in Nat \ {0}
  BY <1>1, <1>3, SavedUnpacked, Constants, FlashloanAssumption
     DEF LoanBack, FlashInv, FlashloanAdmin, FlashloanAssumption
<1>6. a * fee \in Nat
  BY <1>5
<1> HIDE DEF fee
<1>7. charged \in Nat /\ FOUR_DECIMALS * charged >= a * fee
  BY <1>5, <1>6, CeilQuotient
<1>8. vault = before.vault - a + (a + charged)
  BY <1>3 DEF LoanBack, ExpectedPayback, fee
<1> HIDE DEF charged, a
<1>9. vault - before.vault = charged
  BY <1>5, <1>7, <1>8
<1>10. charged * FOUR_DECIMALS = FOUR_DECIMALS * charged
  BY <1>5, <1>7
<1>11. (vault - before.vault) * FOUR_DECIMALS >= a * fee
  BY <1>7, <1>9, <1>10
<1> QED BY <1>3, <1>4, <1>11 DEF LoanBack, DebtGrown, a, fee

(* A committed loan leaves the vault richer by at least the nominal fee,   *)
(* and the program's debt where it was but for one unit of rounding, for   *)
(* every amount, fee and exchange price: the borrow rounds the debt up,    *)
(* the payback of the same second rounds it down at the same price, and    *)
(* nothing of the program can run between them or instead of them.         *)
THEOREM LoansAreRepaid == FlashSpec => []LoanRepaid
<1>1. RepayInv => LoanRepaid
  BY RepaidAtEnd DEF LoanRepaid
<1> QED BY <1>1, RepayInit, RepayStep, PTL DEF FlashSpec
=============================================================================

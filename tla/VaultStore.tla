---------------------------- MODULE VaultStore -----------------------------
(***************************************************************************)
(* The accounts of one vault and what an operation on a position does to    *)
(* them.  A store s has the fields                                          *)
(*   vault     VaultState without its exchange prices and position ids      *)
(*   bits      the TickHasDebtArray accounts (TickBitmap)                   *)
(*   ticks     the Tick accounts                                            *)
(*   tick_ids  the TickIdLiquidation accounts: past liquidations of a tick  *)
(*   branches  the Branch accounts                                          *)
(* Amounts are raw: exchange prices are fixed here (they move in            *)
(* VaultLedger).  An operator whose step can fail has a predicate beside it *)
(* that says when the code goes on.                                         *)
(***************************************************************************)
EXTENDS BigNumber, TickBitmap

CONSTANTS
  EXCHANGE_PRICES_PRECISION, THREE_DECIMALS,
  supply_ex_price, borrow_ex_price,            \* of the vault, constant here
  collateral_factor, liquidation_threshold, liquidation_max_limit,
  liquidation_penalty, borrow_fee,             \* VaultConfig
  RATE_PRECISION,                              \* 10^RATE_OUTPUT_DECIMALS
  BILLION, MIN_DEBT, MINIMUM_TICK_DEBT, MINIMUM_BRANCH_DEBT,
  U64_MAX,                                     \* what a field of Position holds
  MaxBranches, MaxTickIds                      \* bounds of the model

ASSUME StoreAssumption == MaxBranches \in Nat \ {0} /\ MaxTickIds \in Nat
ASSUME ScaleAssumption ==
  /\ {EXCHANGE_PRICES_PRECISION, THREE_DECIMALS, supply_ex_price, borrow_ex_price,
      RATE_PRECISION, BILLION, MINIMUM_TICK_DEBT} \subseteq Nat \ {0}
  /\ {collateral_factor, liquidation_threshold, liquidation_max_limit, liquidation_penalty,
      borrow_fee, MIN_DEBT, MINIMUM_BRANCH_DEBT, U64_MAX} \subseteq Nat

BranchIds == 1 .. MaxBranches
ALL == -(2 ^ 30)   \* i128::MIN: withdraw or pay back everything

Liquidation(fully, branch, factor) ==
  [fully |-> fully, branch |-> branch, factor |-> factor]
NoLiquidation == Liquidation(FALSE, 0, BigZero)

EmptyTick ==
  [is_liquidated |-> FALSE, total_ids |-> 0, raw_debt |-> 0, liquidation |-> NoLiquidation]
EmptyBranch ==
  [status |-> "not_liquidated", minima_tick |-> COLD_TICK, partials |-> 0, debt |-> 0,
   factor |-> BigZero, connected |-> 0, connected_minima_tick |-> COLD_TICK]

\* A TickIdLiquidation account holds the liquidations of three ids of a tick.
TickMap(id) == (id + 2) \div 3
Slot(id) == (id + 2) % 3
Record(tick, id) == <<tick, TickMap(id), Slot(id)>>
Records == {Record(t, id) : t \in Ticks, id \in 1 .. MaxTickIds}

EmptyStore ==
  [vault |-> [liquidated |-> FALSE, top |-> COLD_TICK, current |-> 1, total |-> 1,
              supply |-> 0, borrow |-> 0, absorbed_debt |-> 0, absorbed_col |-> 0,
              absorbed_dust |-> 0],
   bits |-> NoBits,
   ticks |-> [t \in Ticks |-> EmptyTick],
   tick_ids |-> [r \in Records |-> NoLiquidation],
   branches |-> [b \in BranchIds |-> EmptyBranch]]

\* The debts that ticks, and branches with a liquidation, hold.
RawDebts(s) == [t \in Ticks |-> s.ticks[t].raw_debt]
BranchDebts(s) ==
  [b \in BranchIds |-> IF s.branches[b].status = "liquidated" THEN s.branches[b].debt ELSE 0]

-----------------------------------------------------------------------------
(* What a position is worth                                                 *)

\* get_position_info: the debt follows from tick and collateral, rounded up.
PositionDebt(pos) ==
  IF pos.tick = COLD_TICK THEN 0
  ELSE (RatioAtTick[pos.tick] * (pos.supply + 1)) \div ZERO_TICK_SCALED_RATIO + 1

Memory(pos) == [col |-> pos.supply, debt |-> PositionDebt(pos), dust |-> pos.dust,
                tick |-> pos.tick, tick_id |-> pos.tick_id]

WasLiquidated(s, m) ==
  s.ticks[m.tick].is_liquidated \/ s.ticks[m.tick].total_ids > m.tick_id

LiquidationOf(s, m) ==
  IF s.ticks[m.tick].total_ids = m.tick_id THEN s.ticks[m.tick].liquidation
  ELSE s.tick_ids[Record(m.tick, m.tick_id)]

\* The branch a liquidated position ended in: merged branches point to the
\* branch they were merged into and leave a factor behind.  at is the branch
\* that is looked at and the factor so far; a factor of MaxMask ends the loop.
Onto(branches, at) ==
  LET b    == branches[at.branch]
      next == MulBigNumber(at.factor, b.factor)
  IN  IF at.wiped \/ b.status # "merged" THEN at
      ELSE IF next = MaxMask THEN [at EXCEPT !.factor = MaxMask, !.wiped = TRUE]
      ELSE [branch |-> b.connected, factor |-> next, wiped |-> FALSE]

\* A branch is merged into one with a lower id: MaxBranches turns reach the end.
Connect(branches, branch, factor) ==
  LET After[n \in 0 .. MaxBranches] ==
        IF n = 0 THEN [branch |-> branch, factor |-> factor, wiped |-> FALSE]
        ELSE Onto(branches, After[n - 1])
  IN  After[MaxBranches]

\* Mutant: the margin of 0.01% is not taken.
DebtWithoutMargin(initial, debt) == IF debt > initial \div 100 THEN debt ELSE 0

\* A liquidated position leaves a margin in its branch, and the last 1%.
DebtAfterMargin(initial, debt) ==
  IF debt > initial \div 100 THEN (debt * (FOUR_DECIMALS - 1)) \div FOUR_DECIMALS ELSE 0

\* fetch_latest_position: col, debt and tick of a liquidated position now.
LatestPosition(s, m) ==
  LET liquidation == LiquidationOf(s, m)
      end   == Connect(s.branches, liquidation.branch, liquidation.factor)
      base  == s.branches[end.branch]
      debt  == DebtAfterMargin(m.debt, MulDivNormal(m.debt, base.factor, end.factor))
      wiped == [m EXCEPT !.col = 0, !.debt = 0, !.tick = COLD_TICK]
  IN  IF liquidation.fully THEN [branch |-> liquidation.branch, memory |-> wiped]
      ELSE IF base.status = "closed" \/ end.factor = MaxMask \/ debt = 0
      THEN [branch |-> end.branch, memory |-> wiped]
      ELSE [branch |-> end.branch,
            memory |-> [m EXCEPT
              !.debt = debt, !.tick = base.minima_tick,
              !.col = (debt * ZERO_TICK_SCALED_RATIO)
                        \div PartialsRatio(base.minima_tick, base.partials)]]

LatestDefined(s, m) ==
  LET liquidation == LiquidationOf(s, m)
      end == Connect(s.branches, liquidation.branch, liquidation.factor)
  IN  \/ liquidation.fully
      \/ /\ liquidation.branch \in BranchIds
         /\ \/ s.branches[end.branch].status = "closed" \/ end.factor = MaxMask
            \/ /\ end.factor # BNError
               /\ MulDivNormalDefined(s.branches[end.branch].factor, end.factor)
               /\ s.branches[end.branch].minima_tick \in Ticks

-----------------------------------------------------------------------------
(* Taking the old debt of a position out of the vault                       *)

\* set_top_tick: the last debt of the top tick was removed; on top is the next
\* tick with debt, or the branch below if that ended higher.
SetTopTick(s) ==
  LET id   == s.vault.current
      cur  == s.branches[id]
      cut  == ClearBits(s.bits, s.vault.top)
      next == NextTickFrom(cut, PlaceOf(s.vault.top))
  IN  IF cur.connected_minima_tick <= next
      THEN [s EXCEPT !.bits = cut, !.vault.top = next, !.vault.liquidated = FALSE]
      ELSE [s EXCEPT !.bits = cut, !.branches[id] = EmptyBranch,
                     !.vault.liquidated = TRUE, !.vault.top = cur.connected_minima_tick,
                     !.vault.current = cur.connected, !.vault.total = id - 1]

\* update_debt_liquidity: a liquidated position leaves its branch, which keeps
\* at least the minimum branch debt.
LeaveBranch(s, branch, debt) ==
  LET left == IF debt + MINIMUM_BRANCH_DEBT > s.branches[branch].debt
              THEN MINIMUM_BRANCH_DEBT ELSE s.branches[branch].debt - debt
  IN  [s EXCEPT !.branches[branch].debt = left]

\* A position leaves a tick that was not liquidated; a rest below the minimum
\* tick debt is dropped with its bit.
LeaveTick(s, m) ==
  LET rest == SaturatingSub(s.ticks[m.tick].raw_debt, m.debt)
      top  == IF m.tick = s.vault.top THEN SetTopTick(s) ELSE s
  IN  IF rest >= MINIMUM_TICK_DEBT THEN [s EXCEPT !.ticks[m.tick].raw_debt = rest]
      ELSE [top EXCEPT !.ticks[m.tick].raw_debt = 0, !.bits = ClearBit(@, m.tick)]

\* The first part of operate: the position in memory and the store without it.
CanDetach(s, m) ==
  m.tick # COLD_TICK =>
    IF WasLiquidated(s, m) THEN LatestDefined(s, m) ELSE s.ticks[m.tick].raw_debt # 0

Detach(s, m) ==
  LET latest == LatestPosition(s, m)
      now    == latest.memory
  IN  IF m.tick = COLD_TICK THEN [store |-> s, memory |-> m]
      ELSE IF ~WasLiquidated(s, m)
      THEN [store |-> LeaveTick(s, m),
            memory |-> [m EXCEPT !.debt = m.debt - m.dust, !.dust = 0]]
      ELSE IF now.debt > m.dust
      THEN [store |-> LeaveBranch(s, latest.branch, now.debt),
            memory |-> [now EXCEPT !.debt = now.debt - m.dust, !.dust = 0]]
      ELSE [store |-> [s EXCEPT !.vault.absorbed_dust = @ + m.dust - now.debt],
            memory |-> [now EXCEPT !.debt = 0, !.col = 0, !.dust = 0]]

-----------------------------------------------------------------------------
(* The new amounts of a position (get_new_position_info)                    *)

\* new_col is clipped to what the position holds only when it is ALL.
NewCollateral(col, new_col) ==
  CASE new_col = ALL -> 0
    [] new_col >= 0 -> col + (new_col * EXCHANGE_PRICES_PRECISION) \div supply_ex_price
    [] OTHER -> col - DivCeil(-new_col * EXCHANGE_PRICES_PRECISION, supply_ex_price)

CollateralMoved(col, new_col) ==
  IF new_col = ALL THEN 1 - (col * supply_ex_price) \div EXCHANGE_PRICES_PRECISION ELSE new_col

BorrowWithFee(amount) == amount + DivCeil(amount * borrow_fee, FOUR_DECIMALS)

NewDebt(debt, new_debt) ==
  CASE new_debt = ALL -> 0
    [] new_debt = 0 -> debt
    [] new_debt > 0 ->
         debt + BorrowWithFee(DivCeil(new_debt * EXCHANGE_PRICES_PRECISION, borrow_ex_price))
    [] OTHER -> debt - ((-new_debt * EXCHANGE_PRICES_PRECISION) \div borrow_ex_price - 1)

DebtMoved(debt, new_debt) ==
  IF new_debt = ALL THEN -DivCeil(debt * borrow_ex_price, EXCHANGE_PRICES_PRECISION) ELSE new_debt

-----------------------------------------------------------------------------
(* Putting the new debt of a position into a tick                           *)

\* get_scaled_debt: one billionth more on every interaction.
ScaledDebt(debt) == (debt * (BILLION + 1)) \div BILLION + 1

\* get_new_ratio: net debt per collateral.
NetRatio(col, net) == (net * ZERO_TICK_SCALED_RATIO) \div col
TargetTick(col, net) == TickAtRatio(NetRatio(col, net)) + 1

\* The ratio one tick above, from the ratio of the tick itself.
RaisedRatio(tick) == (RatioAtTick[tick] * TICK_SPACING) \div FOUR_DECIMALS

\* The debt the position has when its ratio is rounded up to the next tick;
\* what it has too much is its dust debt.
RawDebtAt(col, net) ==
  (RaisedRatio(TickAtRatio(NetRatio(col, net))) * col) \div ZERO_TICK_SCALED_RATIO

\* A tick that was liquidated, or is used for the first time, starts a new id.
NeedsNewId(s, tick) == s.ticks[tick].total_ids = 0 \/ s.ticks[tick].is_liquidated

CanAttach(s, col, net) ==
  /\ col > 0 /\ net >= MIN_DEBT
  /\ HasTick(NetRatio(col, net)) /\ TargetTick(col, net) \in Ticks
  /\ RawDebtAt(col, net) >= Greatest(net, MIN_DEBT)
  /\ NeedsNewId(s, TargetTick(col, net)) =>
       s.ticks[TargetTick(col, net)].total_ids < MaxTickIds

\* Mutant: the liquidation of the tick is not moved to its tick id.
AttachForgetful(s, col, net) ==
  LET tick == TargetTick(col, net)
      old  == s.ticks[tick]
      debt == RawDebtAt(col, net)
      id   == IF NeedsNewId(s, tick) THEN old.total_ids + 1 ELSE old.total_ids
  IN  [store |-> [s EXCEPT
         !.ticks[tick] = [is_liquidated |-> FALSE, total_ids |-> id, liquidation |-> NoLiquidation,
                          raw_debt |-> IF NeedsNewId(s, tick) THEN debt ELSE old.raw_debt + debt],
         !.bits = SetBit(@, tick)],
       memory |-> [col |-> col, debt |-> debt, dust |-> debt - net, tick |-> tick, tick_id |-> id]]

\* Mutant: a tick that is in use gets the debt of the position alone.
AttachOverwrites(s, col, net) ==
  LET tick == TargetTick(col, net)
      old  == s.ticks[tick]
      debt == RawDebtAt(col, net)
      id   == IF NeedsNewId(s, tick) THEN old.total_ids + 1 ELSE old.total_ids
  IN  [store |-> [s EXCEPT
         !.ticks[tick] = [is_liquidated |-> FALSE, total_ids |-> id,
                          liquidation |-> NoLiquidation, raw_debt |-> debt],
         !.tick_ids = IF NeedsNewId(s, tick) /\ old.total_ids > 0
                      THEN [@ EXCEPT ![Record(tick, old.total_ids)] = old.liquidation] ELSE @,
         !.bits = SetBit(@, tick)],
       memory |-> [col |-> col, debt |-> debt, dust |-> debt - net, tick |-> tick, tick_id |-> id]]

\* add_debt_to_tick.
Attach(s, col, net) ==
  LET tick == TargetTick(col, net)
      old  == s.ticks[tick]
      debt == RawDebtAt(col, net)
      fresh == NeedsNewId(s, tick)
      id   == IF fresh THEN old.total_ids + 1 ELSE old.total_ids
  IN  [store |-> [s EXCEPT
         !.ticks[tick] = [is_liquidated |-> FALSE, total_ids |-> id, liquidation |-> NoLiquidation,
                          raw_debt |-> IF fresh THEN debt ELSE old.raw_debt + debt],
         !.tick_ids = IF fresh /\ old.total_ids > 0
                      THEN [@ EXCEPT ![Record(tick, old.total_ids)] = old.liquidation] ELSE @,
         !.bits = SetBit(@, tick)],
       memory |-> [col |-> col, debt |-> debt, dust |-> debt - net, tick |-> tick, tick_id |-> id]]

\* update_topmost_tick: over a liquidated branch a new branch is opened.
CanRaiseTop(s, tick) ==
  tick >= s.vault.top /\ s.vault.liquidated => s.vault.total < MaxBranches

\* Mutant: the new branch is not counted.
RaiseTopUncounted(s, tick) ==
  LET id == s.vault.total + 1
  IN  IF tick < s.vault.top THEN s
      ELSE IF ~s.vault.liquidated THEN [s EXCEPT !.vault.top = tick]
      ELSE [s EXCEPT
             !.branches[id] = [EmptyBranch EXCEPT !.connected = s.vault.current,
                                                  !.connected_minima_tick = s.vault.top],
             !.vault.top = tick, !.vault.liquidated = FALSE, !.vault.current = id]

RaiseTop(s, tick) ==
  LET id == s.vault.total + 1
  IN  IF tick < s.vault.top THEN s
      ELSE IF ~s.vault.liquidated THEN [s EXCEPT !.vault.top = tick]
      ELSE [s EXCEPT
             !.branches[id] = [EmptyBranch EXCEPT !.connected = s.vault.current,
                                                  !.connected_minima_tick = s.vault.top],
             !.vault.top = tick, !.vault.liquidated = FALSE,
             !.vault.current = id, !.vault.total = id]
=============================================================================

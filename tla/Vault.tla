------------------------------- MODULE Vault --------------------------------
(***************************************************************************)
(* One vault under its instructions: positions are opened, changed and      *)
(* closed, and anyone liquidates or absorbs what is above the limits at the *)
(* price of the moment (vaults/src/module/user.rs).  An instruction is one  *)
(* step: it fails as a whole or writes all its accounts.  The price is the  *)
(* oracle's and may be any of Prices at every step.  The caller's slippage  *)
(* limit and the dry run to the dead address only make an instruction fail. *)
(***************************************************************************)
EXTENDS VaultLiquidation

CONSTANTS
  MaxPositions,          \* position ids in use
  Prices,                \* prices the oracle may report
  Amounts,               \* the pairs <<new_col, new_debt>> operate is called with
  LiquidationAmounts,    \* what liquidate is called with
  MaxSteps               \* bound on operate and liquidate

ASSUME VaultAssumption ==
  /\ MaxPositions \in Nat /\ MaxSteps \in Nat
  /\ Prices \subseteq Nat \ {0} /\ Amounts \subseteq Int \X Int
  /\ LiquidationAmounts \subseteq Nat

VARIABLES vault, bits, ticks, tick_ids, branches,
          positions, next_position_id, total_positions, steps
accounts == <<vault, bits, ticks, tick_ids, branches>>
ids  == <<next_position_id, total_positions>>
vars == <<vault, bits, ticks, tick_ids, branches, positions, next_position_id,
          total_positions, steps>>

PositionIds == 1 .. MaxPositions
NoPosition == [open |-> FALSE, tick |-> COLD_TICK, tick_id |-> 0, supply |-> 0, dust |-> 0]

Store == [vault |-> vault, bits |-> bits, ticks |-> ticks, tick_ids |-> tick_ids,
          branches |-> branches]
Save(s) ==
  /\ vault' = s.vault /\ bits' = s.bits /\ ticks' = s.ticks
  /\ tick_ids' = s.tick_ids /\ branches' = s.branches

Init ==
  /\ vault = EmptyStore.vault /\ bits = EmptyStore.bits /\ ticks = EmptyStore.ticks
  /\ tick_ids = EmptyStore.tick_ids /\ branches = EmptyStore.branches
  /\ positions = [p \in PositionIds |-> NoPosition]
  /\ next_position_id = 1 /\ total_positions = 0 /\ steps = 0

InitPosition ==
  /\ next_position_id \in PositionIds
  /\ positions' = [positions EXCEPT ![next_position_id].open = TRUE]
  /\ next_position_id' = next_position_id + 1
  /\ total_positions' = total_positions + 1
  /\ UNCHANGED <<accounts, steps>>

\* verify_close_position: a position without debt and collateral.
ClosePosition(p) ==
  /\ positions[p].open
  /\ positions[p].tick = COLD_TICK /\ positions[p].supply = 0
  /\ positions' = [positions EXCEPT ![p] = NoPosition]
  /\ total_positions' = SaturatingSub(total_positions, 1)
  /\ UNCHANGED <<accounts, next_position_id, steps>>

-----------------------------------------------------------------------------
(* operate                                                                  *)

\* check_if_position_safe: the collateral factor holds for a withdrawal or a
\* borrow, the liquidation threshold for anything else.
SafeRatio(price, factor) ==
  (((DebtPerCol(price) * factor) \div THREE_DECIMALS) * ZERO_TICK_SCALED_RATIO) \div RATE_PRECISION
PositionSafe(tick, takes, price) ==
  LET ratio == SafeRatio(price, IF takes THEN collateral_factor ELSE liquidation_threshold)
  IN  HasTick(ratio) /\ tick <= TickAtRatio(ratio)

\* Paying back lowers the net debt, a deposit alone does not raise the ratio:
\* both are open to anyone.
HelpsPosition(old, col, net, col_moved, debt_moved) ==
  /\ debt_moved < 0 => net <= old.debt
  /\ col_moved > 0 /\ debt_moved = 0 =>
       old.col > 0 /\ NetRatio(col, net) <= NetRatio(old.col, old.debt)

\* The store and the position after the new amounts: in a tick, or without debt.
Outcome(store, old, col, debt) ==
  IF debt = 0
  THEN [store |-> store, memory |-> [old EXCEPT !.col = col, !.debt = 0, !.dust = 0,
                                                !.tick = COLD_TICK, !.tick_id = 0]]
  ELSE LET a == Attach(store, col, ScaledDebt(debt))
       IN  [store |-> RaiseTop(a.store, a.memory.tick), memory |-> a.memory]

\* Mutant: the totals take the debt with its dust.
UpdateTotalsGross(s, m, old) ==
  [s EXCEPT !.vault.supply = @ + m.col - old.col, !.vault.borrow = @ + m.debt - old.debt]

\* update_total_supply and update_total_borrow (net debt).
UpdateTotals(s, m, old) ==
  [s EXCEPT !.vault.supply = @ + m.col - old.col,
            !.vault.borrow = @ + (m.debt - m.dust) - old.debt]

\* A new debt stands in a tick of the table, is of a size worth liquidating, and
\* is safe; the price is only asked whether the position, m, is safe at it.
DebtAllowed(s, old, col, debt, m, col_moved, debt_moved) ==
  /\ CanAttach(s, col, ScaledDebt(debt))
  /\ CanRaiseTop(s, m.tick)
  /\ HelpsPosition(old, col, m.debt - m.dust, col_moved, debt_moved)
  /\ \E price \in Prices : PositionSafe(m.tick, col_moved < 0 \/ debt_moved > 0, price)

\* update_position_after_operate and the totals, with m in place of old.
WriteBack(p, old, s, m) ==
  LET after == UpdateTotals(s, m, old)
  IN  /\ after.vault.supply >= 0 /\ after.vault.borrow >= 0
      /\ m.col \in 0 .. U64_MAX /\ m.dust \in 0 .. U64_MAX
      /\ Save(after)
      /\ positions' = [positions EXCEPT ![p] =
           [open |-> TRUE, tick |-> m.tick, tick_id |-> m.tick_id, supply |-> m.col,
            dust |-> m.dust]]
      /\ steps' = steps + 1
      /\ UNCHANGED ids

\* The position old was taken out of the store s: the new amounts go back in.
Change(p, s, old, new_col, new_debt) ==
  LET col  == NewCollateral(old.col, new_col)
      debt == NewDebt(old.debt, new_debt)
      col_moved  == CollateralMoved(old.col, new_col)
      debt_moved == DebtMoved(old.debt, new_debt)
      out  == Outcome(s, old, col, debt)
  IN  /\ col >= 0 /\ debt >= 0
      /\ new_debt > 0 => debt <= U64_MAX
      /\ (new_debt < 0 /\ new_debt # ALL) =>
           -new_debt * EXCHANGE_PRICES_PRECISION >= borrow_ex_price   \* a payback is a unit at least
      /\ col_moved # 0 \/ debt_moved # 0
      /\ debt # 0 => DebtAllowed(s, old, col, debt, out.memory, col_moved, debt_moved)
      /\ WriteBack(p, old, out.store, out.memory)

Operate(p, new_col, new_debt) ==
  LET m == Memory(positions[p])
      detached == Detach(Store, m)
  IN  /\ positions[p].open /\ steps < MaxSteps
      /\ new_col # 0 \/ new_debt # 0
      /\ CanDetach(Store, m)
      /\ Change(p, detached.store, detached.memory, new_col, new_debt)

-----------------------------------------------------------------------------
(* liquidate                                                                *)

\* The debt above the max tick is absorbed before anything is liquidated.
Absorbed(price) == IF vault.top > MaxTick(price) THEN Absorb(Store, MaxTick(price)) ELSE Store
\* A top tick outside the table has no ratio, an empty vault no top tick.
CanAbsorb(price) ==
  /\ PriceHasTicks(price)
  /\ vault.top \in Ticks /\ steps < MaxSteps
  /\ vault.top > MaxTick(price) => AbsorbFits(Store)

\* A liquidation of 0 only absorbs.
AbsorbOnly(price) ==
  /\ CanAbsorb(price) /\ vault.top > MaxTick(price)
  /\ Save(Absorbed(price))
  /\ steps' = steps + 1
  /\ UNCHANGED <<positions, ids>>

\* The amounts fit, the totals are reduced and the vault is saved.
Conclude(l, debt_amt) ==
  /\ ~l.failed /\ AmountsFit(l, debt_amt) /\ TotalsFit(l)
  /\ Save(ReduceTotals(l))
  /\ steps' = steps + 1
  /\ UNCHANGED <<positions, ids>>

Liquidate(debt_amt, absorb, price) ==
  /\ CanAbsorb(price)
  /\ debt_amt >= MIN_DEBT
  /\ vault.borrow \div BILLION <= (debt_amt * EXCHANGE_PRICES_PRECISION) \div borrow_ex_price
  /\ Conclude(LiquidationOutcome(Absorbed(price), debt_amt, absorb, price), debt_amt)

Operates ==
  \E p \in PositionIds, amounts \in Amounts : Operate(p, amounts[1], amounts[2])
Liquidates ==
  \E price \in Prices :
     \/ AbsorbOnly(price)
     \/ \E amount \in LiquidationAmounts, absorb \in BOOLEAN : Liquidate(amount, absorb, price)

Next ==
  \/ InitPosition
  \/ \E p \in PositionIds : ClosePosition(p)
  \/ Operates
  \/ Liquidates

Spec == Init /\ [][Next]_vars

-----------------------------------------------------------------------------
(* Properties                                                               *)

\* A position as it is now in the store s, past liquidations included.
LatestIn(s, pos) ==
  LET m == Memory(pos)
  IN  IF pos.tick # COLD_TICK /\ WasLiquidated(s, m) THEN LatestPosition(s, m).memory ELSE m
Worth(s, pos) ==
  LET m == LatestIn(s, pos) IN [col |-> m.col, debt |-> m.debt, tick |-> m.tick]

HasDebt(p) == positions[p].tick # COLD_TICK
Latest(p) == LatestIn(Store, positions[p])
BranchOf(p) == LatestPosition(Store, Memory(positions[p])).branch

\* Type invariant: accounts are what the program can store.
VaultTypeOK ==
  /\ vault.top \in Ticks \union {COLD_TICK} /\ vault.current \in BranchIds
  /\ vault.total \in BranchIds /\ vault.current <= vault.total
  /\ {vault.supply, vault.borrow, vault.absorbed_debt, vault.absorbed_col,
      vault.absorbed_dust} \subseteq Nat
  /\ \A t \in Ticks : /\ ticks[t].raw_debt \in Nat /\ ticks[t].total_ids \in 0 .. MaxTickIds
                      /\ ticks[t].liquidation.factor \in BigNumbers
  /\ \A b \in BranchIds : /\ branches[b].debt \in Nat /\ branches[b].connected \in 0 .. b - 1
                          /\ branches[b].partials \in 0 .. X30 - 1
                          /\ branches[b].factor \in BigNumbers
  /\ \A p \in PositionIds : /\ positions[p].supply \in Nat /\ positions[p].dust \in Nat
                            /\ positions[p].tick \in Ticks \union {COLD_TICK}

\* The index shows exactly the ticks that hold debt, after every removal,
\* liquidation and absorption (tick_has_debt.rs:98, "clear_bits"): a missing bit
\* hides debt from liquidations, a bit too many stops them.
IndexShowsDebt ==
  SetTicks(bits) = {t \in Ticks : ticks[t].raw_debt > 0 /\ ~ticks[t].is_liquidated}

\* Where a liquidation ended on top, no whole tick stands: taking that tick's last
\* debt out would reset the liquidated branch (utils/liquidate.rs:45-51 moves an
\* end that rounding took below the reference tick to the tick above it).
TopIsBare ==
  (vault.liquidated /\ vault.top \in Ticks) =>
    ticks[vault.top].raw_debt = 0 \/ ticks[vault.top].is_liquidated

\* Rounding moves the end of a liquidation at most one tick below what it did not
\* reach, the tick or branch next below or the liquidation tick: the tick that
\* end_liquidate (utils/liquidate.rs:45-51) makes up for, in every turn of every
\* liquidation that can be next.
EndsBeside ==
  \A price \in Prices, amount \in LiquidationAmounts, absorb \in BOOLEAN :
    CanAbsorb(price) =>
      \A l \in {StartLoop(Absorbed(price),
                          (amount * EXCHANGE_PRICES_PRECISION) \div borrow_ex_price, absorb)},
         tick \in {LiquidationTick(price)}, cpd \in {ColPerDebt(price)} :
        (l.tick > tick /\ l.remaining > 0) =>
          \A after \in {Turns(l, tick, cpd)}, n \in 0 .. MaxTurns - 1 :
            EndsBesideReference(after[n], tick, cpd)

\* The top tick is the highest debt there is, in a tick or left in a branch,
\* and the branch that is current is the one that ends there (user.rs:1100):
\* debt above the top would never be liquidated.
TopIsHighest ==
  LET cur  == branches[vault.current]
      left == {branches[b].minima_tick : b \in {x \in BranchIds : branches[x].status = "liquidated"}}
  IN  /\ TopIsBare
      /\ vault.top = Max({COLD_TICK} \union SetTicks(bits) \union left)
      /\ IF vault.liquidated
         THEN cur.status = "liquidated" /\ cur.minima_tick = vault.top
         ELSE /\ cur.status = "not_liquidated" /\ vault.current = vault.total
              /\ cur.connected_minima_tick <= vault.top

\* Stated in the code: "total borrow is rounded up, when saving to storage"
\* (vault_state.rs, update_total_borrow).  Then the debt of the only borrower,
\* which get_position_info rounds up, can always be taken out of it.
OnlyDebtCanLeave ==
  \A p \in PositionIds :
    (/\ HasDebt(p) /\ ~WasLiquidated(Store, Memory(positions[p]))
     /\ \A q \in PositionIds \ {p} : ~HasDebt(q)) =>
      vault.borrow >= Latest(p).debt - Latest(p).dust

\* The liquidation of a position leads along merged branches to one that is still
\* liquidated, or closed, and never to a branch whose id was given to a later one
\* (vault_state.rs:set_top_tick, absorb: ids are reused).  Only a factor that has
\* nothing left ends the search on the way.
PositionsLead ==
  \A p \in PositionIds : HasDebt(p) /\ WasLiquidated(Store, Memory(positions[p])) =>
    LET l   == LiquidationOf(Store, Memory(positions[p]))
        end == Connect(branches, l.branch, l.factor)
    IN  \/ l.fully
        \/ /\ l.branch \in BranchIds /\ end.branch \in BranchIds
           /\ end.wiped \/ branches[end.branch].status \notin {"not_liquidated", "merged"}

\* Every liquidated position can still be operated on: what its liquidation leads
\* to says what is left of it (structs.rs, fetch_latest_position), through merged,
\* closed and reset branches and the ids its tick was given since.
PositionsResolve ==
  /\ PositionsLead
  /\ \A p \in PositionIds : HasDebt(p) /\ WasLiquidated(Store, Memory(positions[p])) =>
       LatestDefined(Store, Memory(positions[p]))

\* What the positions that stand in a tick, not liquidated, would take out of it.
Stands(p, t) ==
  positions[p].tick = t /\ HasDebt(p) /\ ~WasLiquidated(Store, Memory(positions[p]))
DebtStanding(t) ==
  SumFunction([p \in PositionIds |-> IF Stands(p, t) THEN PositionDebt(positions[p]) ELSE 0])

\* What an operation may cost a tick: get_position_info rounds the debt up that
\* add_debt_to_tick rounded down, twice, and a rest below the minimum is dropped.
RoundedUp(t) ==
  ((RatioAtTick[t] - RaisedRatio(t - 1)) * U64_MAX + RatioAtTick[t]) \div ZERO_TICK_SCALED_RATIO + 2
Erosion(t) == RoundedUp(t) + MINIMUM_TICK_DEBT - 1

\* Operations on a tick erode what its other positions count on, until it is
\* empty and they are locked out.  "Below require can fail when a user liquidity
\* is extremely low" (user.rs:182): at most for a debt of what as many operations
\* as there were can have rounded away, for all the positions of the tick together,
\* after liquidations and new ids of the tick as well.
LockedOutIsDust ==
  \A t \in Ticks \ {MIN_TICK} : DebtStanding(t) <= ticks[t].raw_debt + steps * Erosion(t)

\* A liquidated branch has the debt of all its positions: the margin taken from
\* each makes up for the rounding of the factors (branch.rs, update_debt_liquidity:
\* "Ensure branch_debt > user debt (it should be, due to margin in
\* fetchLatestPosition)").
BranchCoversPositions ==
  \A b \in BranchIds : branches[b].status = "liquidated" =>
    LET members == {p \in PositionIds : /\ HasDebt(p)
                                        /\ WasLiquidated(Store, Memory(positions[p]))
                                        /\ Latest(p).tick # COLD_TICK /\ BranchOf(p) = b}
    IN  branches[b].debt >= MapThenSumSet(LAMBDA p : Latest(p).debt, members)

\* The collateral of a branch that was left with the minimum debt.
Rounding == 2 + (MINIMUM_BRANCH_DEBT * ZERO_TICK_SCALED_RATIO) \div RatioAtTick[MIN_TICK]

\* The vault's collateral is enough for what all positions would find theirs and
\* for what was absorbed and not sold yet, but for the minimum debt that every
\* branch keeps (branch.rs, update_debt_liquidity) and rounding.
CollateralCovers ==
  vault.supply + MaxBranches * Rounding
    >= vault.absorbed_col + MapThenSumSet(LAMBDA p : Latest(p).col, PositionIds)

\* The debt that stands in ticks and branches or was absorbed, and what the vault
\* believes it lent, with the dust debt its positions carry beyond that.
DebtHeld(s) ==
  s.vault.absorbed_debt + SumFunction(RawDebts(s)) + SumFunction(BranchDebts(s))
DebtPromised ==
  vault.borrow + vault.absorbed_dust
    + SumFunction([p \in PositionIds |-> positions[p].dust])

\* All that was lent stands where a liquidation or an absorption finds it, but
\* for the rest below the minimum that an operation drops with its tick, once a
\* step (user.rs:190): the totals take net debts, ticks and branches gross ones.
LentIsHeld == DebtPromised <= DebtHeld(Store) + steps * (MINIMUM_TICK_DEBT - 1)

\* An operation on one position changes nothing of what another one has, through
\* shared ticks, tick ids that start anew, branches that are left or reset
\* (user.rs:140, utils/operate.rs, add_debt_to_tick).  The store before and after
\* the step is bound once: TLC is slow at priming.
OthersKeepTheirs ==
  [][\A old \in {Store}, new \in {Store'}, p, q \in PositionIds :
       p # q /\ positions'[p] # positions[p] =>
         Worth(new, positions'[q]) = Worth(old, positions[q])]_vars

\* A liquidation or an absorption starts with the riskiest debt: whoever loses
\* by it was at or above the tick it stopped at, and never gains debt or
\* collateral (user.rs:660 the loop; structs.rs, fetch_latest_position).
RiskiestFirst ==
  [][positions' = positions =>
       \A old \in {Store}, new \in {Store'}, p \in PositionIds :
         \A before \in {Worth(old, positions[p])}, after \in {Worth(new, positions[p])} :
           /\ after.debt <= before.debt /\ after.col <= before.col
           /\ after.debt # before.debt => new.vault.top <= before.tick]_vars
=============================================================================

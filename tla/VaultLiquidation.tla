-------------------------- MODULE VaultLiquidation ---------------------------
(***************************************************************************)
(* Liquidation and absorption of one vault (vaults/src/module/user.rs:      *)
(* liquidate and absorb; utils/liquidate.rs; CurrentLiquidity and           *)
(* BranchMemoryVars of state/structs.rs).  A liquidation runs down the      *)
(* ticks from the top: it gathers the debt of a tick or of the branch it    *)
(* stands on, sells collateral until the next reference tick, merges into a *)
(* branch it meets, and ends in a tick of which only a part is left.        *)
(*                                                                         *)
(* l is what the loop carries, with the store it has written so far; an     *)
(* instruction that fails has failed = TRUE and is never a step.            *)
(***************************************************************************)
EXTENDS VaultStore

CONSTANTS MAX_LIQUIDATION_ROUNDING_DIFF

-----------------------------------------------------------------------------
(* Prices (get_ticks_from_oracle_price): price is debt per collateral in    *)
(* units of RATE_PRECISION.                                                 *)

DebtPerCol(price) == (price * supply_ex_price) \div borrow_ex_price
LimitRatio(price, limit) ==
  (((DebtPerCol(price) * ZERO_TICK_SCALED_RATIO) \div RATE_PRECISION) * limit) \div THREE_DECIMALS
LiquidationTick(price) == TickAtRatio(LimitRatio(price, liquidation_threshold))
MaxTick(price) == TickAtRatio(LimitRatio(price, liquidation_max_limit))
PriceHasTicks(price) ==
  /\ HasTick(LimitRatio(price, liquidation_threshold))
  /\ HasTick(LimitRatio(price, liquidation_max_limit))

\* Collateral per debt with the penalty, rounded down.
ColPerDebt(price) ==
  (((RATE_PRECISION * RATE_PRECISION) \div DivCeil(price * supply_ex_price, borrow_ex_price))
     * (FOUR_DECIMALS + liquidation_penalty)) \div FOUR_DECIMALS

-----------------------------------------------------------------------------
(* absorb: what is above the max tick becomes absorbed debt and collateral  *)

FullyLiquidated(tick) ==
  [tick EXCEPT !.raw_debt = 0, !.is_liquidated = TRUE,
               !.liquidation = Liquidation(TRUE, 0, BigZero)]

\* fetch_next_tick_absorb.
AbsorbTicks(s, max) ==
  LET place == PlaceOf(s.vault.top + 1)
      above == {t \in TicksFrom(s.bits, place) : t > max}
      debts == RawDebts(s)
      cols  == [t \in Ticks |-> (debts[t] * ZERO_TICK_SCALED_RATIO) \div RatioAtTick[t]]
  IN  [store |-> [s EXCEPT
         !.ticks = [t \in Ticks |-> IF t \in above THEN FullyLiquidated(@[t]) ELSE @[t]],
         !.bits = ClearAll(@, above)],
       debt |-> SumFunctionOnSet(debts, above),
       col  |-> SumFunctionOnSet(cols, above)]

\* The branches whose minima lies above the max tick are closed, one after the
\* other along their connections; a holds the branch that is looked at.
CloseBranch(a, max) ==
  LET b == a.store.branches[a.id]
  IN  IF a.minima <= max THEN a
      ELSE [a EXCEPT !.store.branches[a.id].status = "closed",
                     !.debt = @ + b.debt,
                     !.col = @ + (b.debt * ZERO_TICK_SCALED_RATIO)
                                   \div PartialsRatio(a.minima, b.partials),
                     !.id = IF b.connected_minima_tick = COLD_TICK THEN 0 ELSE b.connected,
                     !.minima = b.connected_minima_tick]

\* Connections lead to lower ids: MaxBranches turns close all there are.
CloseBranches(a, max) ==
  LET After[n \in 0 .. MaxBranches] == IF n = 0 THEN a ELSE CloseBranch(After[n - 1], max)
  IN  After[MaxBranches]

\* The vault after the absorption: on a branch without liquidations, a new one
\* if need be, or back on the liquidated branch below, whose place on top frees
\* the id of a branch that was never liquidated.
Settle(a, next) ==
  LET s     == a.store
      fresh == s.vault.liquidated
      id    == IF fresh THEN s.vault.total + 1 ELSE s.vault.current
  IN  IF next >= a.minima
      THEN [s EXCEPT !.vault.top = next, !.vault.liquidated = FALSE, !.vault.current = id,
                     !.vault.total = IF fresh THEN @ + 1 ELSE @,
                     !.branches[id] = [EmptyBranch EXCEPT !.connected = a.id,
                                                          !.connected_minima_tick = a.minima]]
      ELSE [s EXCEPT !.vault.liquidated = TRUE, !.vault.top = a.minima, !.vault.current = a.id,
                     !.vault.total = IF fresh THEN @ ELSE id - 1,
                     !.branches = IF fresh THEN @ ELSE [@ EXCEPT ![id] = EmptyBranch]]

Absorb(s, max) ==
  LET taken == AbsorbTicks(s, max)
      cur   == s.branches[s.vault.current]
      minima == IF s.vault.liquidated THEN cur.minima_tick ELSE cur.connected_minima_tick
      a     == CloseBranches([store |-> taken.store, debt |-> taken.debt, col |-> taken.col,
                              id |-> IF s.vault.liquidated THEN s.vault.current
                                     ELSE IF minima = COLD_TICK THEN 0 ELSE cur.connected,
                              minima |-> minima], max)
      next  == NextTickFrom(a.store.bits, PlaceOf(s.vault.top + 1))
  IN  [Settle(a, next) EXCEPT !.vault.absorbed_debt = @ + a.debt,
                              !.vault.absorbed_col = @ + a.col]

AbsorbFits(s) == s.vault.liquidated => s.vault.total < MaxBranches

-----------------------------------------------------------------------------
(* The loop of liquidate                                                    *)

\* Mutant: the collateral bought stays in the vault's absorbed collateral.
BuyAbsorbedDebtOnly(l) ==
  LET v    == l.store.vault
      debt == Least(v.absorbed_debt, l.remaining)
      col  == IF v.absorbed_debt = debt THEN v.absorbed_col
              ELSE (v.absorbed_col * debt) \div v.absorbed_debt
  IN  [l EXCEPT !.debt_liq = debt, !.col_liq = col, !.remaining = @ - debt,
                !.store.vault.absorbed_debt = @ - debt]

\* absorb_dust_amount_for_liquidate: absorbed debt is bought first.
BuyAbsorbed(l) ==
  LET v    == l.store.vault
      col  == (v.absorbed_col * l.remaining) \div v.absorbed_debt
  IN  IF v.absorbed_debt > l.remaining
      THEN [l EXCEPT !.debt_liq = l.remaining, !.col_liq = col, !.remaining = 0,
                     !.store.vault.absorbed_debt = v.absorbed_debt - l.remaining,
                     !.store.vault.absorbed_col = v.absorbed_col - col]
      ELSE [l EXCEPT !.debt_liq = v.absorbed_debt, !.col_liq = v.absorbed_col,
                     !.remaining = l.remaining - v.absorbed_debt,
                     !.store.vault.absorbed_debt = 0, !.store.vault.absorbed_col = 0]

\* Mutant: the liquidated tick keeps its bit in the index.
GatherKeepingBit(l, liquidation_tick) ==
  LET branch == l.store.branches[l.branch]
      more   == IF l.perfect THEN l.store.ticks[l.tick].raw_debt ELSE branch.debt
      search == l.first \/ (l.perfect /\ l.next = l.tick)
  IN  [l EXCEPT !.debt = @ + more,
                !.col = @ + (more * ZERO_TICK_SCALED_RATIO) \div l.ratio,
                !.first = FALSE,
                !.store.ticks = IF l.perfect
                  THEN [@ EXCEPT ![l.tick].raw_debt = 0, ![l.tick].is_liquidated = TRUE,
                                 ![l.tick].liquidation.branch = l.branch,
                                 ![l.tick].liquidation.factor = l.factor]
                  ELSE @,
                !.next = IF search
                  THEN NextTickAbove(ClearBits(l.store.bits, l.tick), PlaceOf(l.tick),
                                     liquidation_tick)
                  ELSE @]

\* The debt of the tick, or of the branch, joins what is being liquidated; the
\* tick is written as liquidated in this branch and the next tick is searched.
Gather(l, liquidation_tick) ==
  LET branch == l.store.branches[l.branch]
      more   == IF l.perfect THEN l.store.ticks[l.tick].raw_debt ELSE branch.debt
      search == l.first \/ (l.perfect /\ l.next = l.tick)
      bits   == IF search /\ l.perfect THEN ClearBits(l.store.bits, l.tick) ELSE l.store.bits
  IN  [l EXCEPT !.debt = @ + more,
                !.col = @ + (more * ZERO_TICK_SCALED_RATIO) \div l.ratio,
                !.first = FALSE,
                !.store.bits = bits,
                !.store.ticks = IF l.perfect
                  THEN [@ EXCEPT ![l.tick].raw_debt = 0, ![l.tick].is_liquidated = TRUE,
                                 ![l.tick].liquidation.branch = l.branch,
                                 ![l.tick].liquidation.factor = l.factor]
                  ELSE @,
                !.next = IF search THEN NextTickAbove(bits, PlaceOf(l.tick), liquidation_tick)
                         ELSE @]

\* get_next_ref_tick: the highest of the branch below, the next tick with debt
\* and the liquidation tick, with its ratio and the partials at it.
Reference(l, liquidation_tick) ==
  LET b    == l.store.branches[l.branch]
      base == l.store.branches[b.connected]
      whole(tick, status) == [tick |-> tick, status |-> status,
                              ratio |-> RatioAtTick[tick], partials |-> X30]
  IN  IF b.connected_minima_tick > Greatest(l.next, liquidation_tick)
      THEN [tick |-> b.connected_minima_tick, status |-> "liquidated",
            ratio |-> PartialsRatio(b.connected_minima_tick, base.partials),
            partials |-> base.partials]
      ELSE IF l.next > liquidation_tick THEN whole(l.next, "perfect")
      ELSE whole(liquidation_tick, "threshold")

\* get_debt_liquidated: what has to be paid to bring the ratio to the reference.
DebtLiquidated(l, ref, col_per_debt) ==
  ((l.debt - (ref.ratio * l.debt) \div l.ratio) * RATE_PRECISION)
    \div (RATE_PRECISION - (col_per_debt * ref.ratio) \div ZERO_TICK_SCALED_RATIO)
\* There is debt, it does not rise on the way down, and the collateral that a
\* unit of it takes is worth less: the safe subtractions and divisions.
CanSell(l, ref, col_per_debt) ==
  /\ l.debt > 0 /\ (ref.ratio * l.debt) \div l.ratio <= l.debt
  /\ (col_per_debt * ref.ratio) \div ZERO_TICK_SCALED_RATIO < RATE_PRECISION
ColLiquidated(debt, col_per_debt) == (debt * col_per_debt) \div RATE_PRECISION

\* get_debt_factor and update_totals.
Sell(l, debt, col) ==
  LET factor == MulDivBigNumber(l.factor, (TwoPowerPrecision * (l.debt - debt)) \div l.debt)
  IN  [l EXCEPT !.debt = @ - debt, !.col = @ - col, !.debt_liq = @ + debt,
                !.col_liq = @ + col, !.factor = factor,
                !.failed = @ \/ debt > l.debt \/ col > l.col \/ factor = BNError]

\* Mutant: the ratio is taken before the collateral is.
RatioBeforeCollateral(l, debt, col) == ((l.debt - debt) * ZERO_TICK_SCALED_RATIO) \div l.col

\* get_final_ratio: debt per collateral of what a liquidation leaves.
RatioLeft(l, debt, col) == ((l.debt - debt) * ZERO_TICK_SCALED_RATIO) \div (l.col - col)

\* Where a liquidation that ends before the reference leaves the branch.
EndTick(l, ref, debt, col) ==
  LET ratio    == RatioLeft(l, debt, col)
      tick     == TickAtRatio(ratio)
      partials == ClampPartials(TickPartials(RatioAtTick[tick], ratio))
      existing == IF ref.status = "liquidated" /\ tick + 1 = ref.tick THEN ref.partials ELSE 0
  IN  IF col >= l.col \/ ~HasTick(ratio) THEN [tick |-> COLD_TICK, partials |-> 0, fits |-> FALSE]
      ELSE IF tick < ref.tick /\ ref.partials = X30
      THEN [tick |-> tick + 2, partials |-> 1, fits |-> TRUE]
      ELSE [tick |-> tick + 1, partials |-> partials,
            fits |-> existing > 0 => existing < partials]

\* end_liquidate, and what is written to the branch and the vault after it.
EndLiquidation(l, ref, due, col_due, col_per_debt) ==
  LET short == due >= l.remaining
      debt  == IF short THEN l.remaining ELSE due
      col   == IF short THEN ColLiquidated(debt, col_per_debt) ELSE col_due
      end   == IF short THEN EndTick(l, ref, debt, col)
               ELSE [tick |-> ref.tick + 1, partials |-> 1, fits |-> TRUE]
      sold  == Sell(l, debt, col)
  IN  [sold EXCEPT
         !.ended = TRUE,
         !.failed = @ \/ ~end.fits \/ sold.debt < MINIMUM_BRANCH_DEBT,
         !.store.branches[l.branch] = [@ EXCEPT !.status = "liquidated",
            !.minima_tick = end.tick, !.partials = end.partials, !.debt = sold.debt,
            !.factor = sold.factor],
         !.store.vault = [@ EXCEPT !.liquidated = TRUE, !.top = end.tick, !.current = l.branch]]

\* Mutant: the loop goes on with the factor of the branch it comes from.
MergeForgetful(l) ==
  LET b    == l.store.branches[l.branch]
      link == DivBigNumber(l.store.branches[b.connected].factor, l.factor)
  IN  [l EXCEPT !.branch = b.connected, !.failed = @ \/ link = BNError,
                !.store.branches[l.branch] = [@ EXCEPT !.status = "merged",
                   !.minima_tick = COLD_TICK, !.partials = 0, !.debt = 0, !.factor = link]]

\* The branch that reaches the one below merges into it and leaves the factor
\* that takes its positions there.
Merge(l) ==
  LET b      == l.store.branches[l.branch]
      factor == l.store.branches[b.connected].factor
      link   == DivBigNumber(factor, l.factor)
  IN  [l EXCEPT !.branch = b.connected, !.factor = factor, !.failed = @ \/ link = BNError,
                !.store.branches[l.branch] = [@ EXCEPT !.status = "merged",
                   !.minima_tick = COLD_TICK, !.partials = 0, !.debt = 0, !.factor = link]]

\* One turn that does not end the liquidation: on to the reference tick.
Onward(l, ref, debt, col) ==
  LET sold == [Sell(l, debt, col) EXCEPT !.remaining = @ - debt]
      at   == IF ref.status = "liquidated" THEN Merge(sold) ELSE sold
  IN  [at EXCEPT !.tick = ref.tick, !.ratio = ref.ratio, !.perfect = (ref.status = "perfect")]

\* One turn of the loop.
Turn(l, liquidation_tick, col_per_debt) ==
  LET g    == Gather(l, liquidation_tick)
      ref  == Reference(g, liquidation_tick)
      all  == DebtLiquidated(g, ref, col_per_debt)
      col  == ColLiquidated(all, col_per_debt)
      debt == IF all = g.debt THEN all - 1 ELSE all
  IN  IF l.ended \/ l.failed THEN l
      ELSE IF ~CanSell(g, ref, col_per_debt) THEN [g EXCEPT !.failed = TRUE]
      ELSE IF debt >= g.remaining \/ ref.status = "threshold"
      THEN EndLiquidation(g, ref, debt, col, col_per_debt)
      ELSE Onward(g, ref, debt, col)

\* Every turn but the last ends at a tick with debt below or merges a branch.
MaxTurns == MAX_TICK - MIN_TICK + 1 + MaxBranches

Turns(l, liquidation_tick, col_per_debt) ==
  LET After[n \in 0 .. MaxTurns] ==
        IF n = 0 THEN l ELSE Turn(After[n - 1], liquidation_tick, col_per_debt)
  IN  After

Liquidated(l, liquidation_tick, col_per_debt) ==
  LET last == Turns(l, liquidation_tick, col_per_debt)[MaxTurns]
  IN  [last EXCEPT !.failed = @ \/ ~last.ended]

\* A turn that ends with what is paid, and leaves the branch with the minimum debt,
\* leaves a ratio which rounding takes at most one tick below the reference that it
\* did not reach.
EndsBesideReference(l, liquidation_tick, col_per_debt) ==
  ~l.ended /\ ~l.failed =>
    \A g \in {Gather(l, liquidation_tick)} :
      \A ref \in {Reference(g, liquidation_tick)},
         col \in {ColLiquidated(g.remaining, col_per_debt)} :
        /\ CanSell(g, ref, col_per_debt)
        /\ DebtLiquidated(g, ref, col_per_debt) >= g.remaining
        /\ g.debt - g.remaining >= MINIMUM_BRANCH_DEBT
        /\ EndTick(g, ref, g.remaining, col).fits
        => TickAtRatio(RatioLeft(g, g.remaining, col)) >= ref.tick - 1

\* The loop starts at the top tick, whole or what is left of it.
StartLoop(s, remaining, absorb) ==
  LET b == s.branches[s.vault.current]
      l == [store |-> s, remaining |-> remaining, debt |-> 0, col |-> 0, debt_liq |-> 0,
            col_liq |-> 0, tick |-> s.vault.top, perfect |-> ~s.vault.liquidated,
            ratio |-> CASE s.vault.top = COLD_TICK -> 0
                        [] s.vault.liquidated -> PartialsRatio(s.vault.top, b.partials)
                        [] OTHER -> RatioAtTick[s.vault.top],
            next |-> IF s.vault.liquidated THEN COLD_TICK ELSE s.vault.top,
            branch |-> s.vault.current, first |-> TRUE, failed |-> FALSE, ended |-> FALSE,
            factor |-> IF b.factor = BigZero THEN InitialFactor ELSE b.factor]
  IN  IF absorb THEN BuyAbsorbed(l) ELSE l

\* Nothing is left above the liquidation tick: the instruction fails.
NothingToLiquidate(l, liquidation_tick) ==
  /\ ~l.perfect /\ liquidation_tick + 1 = l.tick
  /\ l.store.branches[l.branch].partials = 1

LiquidationOutcome(s, debt_amt, absorb, price) ==
  LET tick == LiquidationTick(price)
      l    == StartLoop(s, (debt_amt * EXCHANGE_PRICES_PRECISION) \div borrow_ex_price, absorb)
  IN  IF ~(l.tick > tick /\ l.remaining > 0) THEN l
      ELSE IF NothingToLiquidate(l, tick) THEN [l EXCEPT !.failed = TRUE]
      ELSE Liquidated(l, tick, ColPerDebt(price))

\* get_actual_amounts: what the liquidator pays, at most what was asked for.
DebtPaid(l) == DivCeil(l.debt_liq * borrow_ex_price, EXCHANGE_PRICES_PRECISION)
AmountsFit(l, debt_amt) ==
  /\ DebtPaid(l) > 0
  /\ DebtPaid(l) <= debt_amt + MAX_LIQUIDATION_ROUNDING_DIFF

\* The totals after it; a total below what was liquidated fails.
TotalsFit(l) ==
  l.col_liq <= l.store.vault.supply /\ l.debt_liq <= l.store.vault.borrow
ReduceTotals(l) ==
  [l.store EXCEPT !.vault.supply = @ - l.col_liq, !.vault.borrow = @ - l.debt_liq]
=============================================================================

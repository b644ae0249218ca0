----------------------------- MODULE TickMath ------------------------------
(***************************************************************************)
(* Ticks and ratios (crates/library/src/math/tick.rs) and the partial tick  *)
(* a liquidation may end in (programs/vaults/src/state/branch.rs).  A ratio *)
(* is debt per collateral times ZERO_TICK_SCALED_RATIO; tick t stands for   *)
(* the ratio of TICK_SPACING / FOUR_DECIMALS to the power t.  The code      *)
(* multiplies precomputed powers and inverts them by a binary search; the   *)
(* model says what the two functions return.                                *)
(***************************************************************************)
EXTENDS FixedPoint

CONSTANTS MIN_TICK, MAX_TICK,
          ZERO_TICK_SCALED_RATIO,  \* 2^48 in the code
          TICK_SPACING,            \* 10015 in the code
          FOUR_DECIMALS,           \* 10000
          X30                      \* a full tick in partials

ASSUME TickAssumption ==
  /\ MIN_TICK \in Int /\ MAX_TICK \in Int /\ MIN_TICK <= 0 /\ 0 <= MAX_TICK
  /\ ZERO_TICK_SCALED_RATIO \in Nat \ {0}
  /\ FOUR_DECIMALS \in Nat \ {0} /\ TICK_SPACING \in Nat /\ FOUR_DECIMALS < TICK_SPACING
  /\ X30 \in Nat \ {0, 1}

Ticks == MIN_TICK .. MAX_TICK
COLD_TICK == MIN_TICK - 1   \* i32::MIN in the code: below every tick

\* get_ratio_at_tick, rounded up for ticks above zero.
RatioAtTick ==
  LET Ratio[t \in Ticks] ==
        CASE t = 0 -> ZERO_TICK_SCALED_RATIO
          [] t > 0 -> DivCeil(Ratio[t - 1] * TICK_SPACING, FOUR_DECIMALS)
          [] OTHER -> (Ratio[t + 1] * FOUR_DECIMALS) \div TICK_SPACING
  IN  [t \in Ticks |-> Ratio[t]]

\* get_tick_at_ratio: the last tick not above the ratio; fails outside the table.
HasTick(ratio) == RatioAtTick[MIN_TICK] <= ratio /\ ratio <= RatioAtTick[MAX_TICK]
TickAtRatio(ratio) ==
  LET below == {t \in Ticks : RatioAtTick[t] <= ratio}
  IN  CHOOSE t \in below : \A u \in below : u <= t

OneTickLess(ratio) == (ratio * FOUR_DECIMALS) \div TICK_SPACING

\* A tick has another ratio than the one below it: the table of the code starts
\* at 6093, which is enough for a step of 1.0015.
ASSUME RatioAssumption ==
  \A t \in Ticks :
    OneTickLess(RatioAtTick[t]) * (TICK_SPACING - FOUR_DECIMALS) >= FOUR_DECIMALS

\* The ratio of a tick of which only `partials` of X30 are left.
PartialsRatio(tick, partials) ==
  LET ratio == RatioAtTick[tick]
      less  == OneTickLess(ratio)
  IN  less + ((ratio - less) * partials) \div X30

\* The partials that final_ratio leaves above the tick of ratio_one_less.
TickPartials(ratio_one_less, final_ratio) ==
  LET ratio == (ratio_one_less * TICK_SPACING) \div FOUR_DECIMALS
  IN  ((final_ratio - ratio_one_less) * X30) \div (ratio - ratio_one_less)

\* A liquidated tick is never a whole tick: set_partials keeps 1 .. X30 - 1.
ClampPartials(partials) ==
  IF partials = 0 THEN 1 ELSE IF partials >= X30 THEN X30 - 1 ELSE partials
=============================================================================

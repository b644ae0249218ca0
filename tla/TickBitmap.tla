---------------------------- MODULE TickBitmap -----------------------------
(***************************************************************************)
(* The index of ticks with debt (vaults/src/state/tick_has_debt.rs): every  *)
(* account TickHasDebtArray holds MAPS bitmaps of TICKS_PER_MAP ticks, and  *)
(* a search goes down the bits of a map, the maps of an array and then the  *)
(* arrays below it.  A bitmap is the set of its set positions; the bytes it *)
(* is packed in are left out.                                               *)
(***************************************************************************)
EXTENDS TickMath, FiniteSetsExt

CONSTANTS ARRAYS,         \* TOTAL_INDICES_NEEDED: 16
          MAPS,           \* TICK_HAS_DEBT_ARRAY_SIZE: 8
          TICKS_PER_MAP   \* 256

ASSUME BitmapAssumption ==
  /\ {ARRAYS, MAPS, TICKS_PER_MAP} \subseteq Nat \ {0}
  /\ MAX_TICK - MIN_TICK + 1 < ARRAYS * MAPS * TICKS_PER_MAP

Places == (0 .. ARRAYS - 1) \X (0 .. MAPS - 1)
NoBits == [place \in Places |-> {}]

\* get_tick_indices: the array and the map of a tick, and its bit in the map.
PlaceOf(tick) ==
  LET offset == tick - MIN_TICK
  IN  <<offset \div (MAPS * TICKS_PER_MAP), (offset \div TICKS_PER_MAP) % MAPS>>
BitOf(tick) == (tick - MIN_TICK) % TICKS_PER_MAP

\* get_first_tick_for_map_in_array.
FirstTick(array, map) == MIN_TICK + (array * MAPS + map) * TICKS_PER_MAP

SetBit(bits, tick) == [bits EXCEPT ![PlaceOf(tick)] = @ \union {BitOf(tick)}]
ClearBit(bits, tick) == [bits EXCEPT ![PlaceOf(tick)] = @ \ {BitOf(tick)}]

\* The bits of several ticks are cleared, one by one in the code.
ClearAll(bits, cleared) ==
  [place \in Places |-> bits[place] \ {BitOf(t) : t \in {c \in cleared : PlaceOf(c) = place}}]

\* clear_bits: the tick and what is above it in its map; other maps stay.
ClearBits(bits, tick) ==
  [bits EXCEPT ![PlaceOf(tick)] = {b \in @ : b < BitOf(tick)}]

\* The ticks of one array set in `map` or in a map below it.
TicksDown(bits, array, map) ==
  UNION {{FirstTick(array, m) + b : b \in bits[<<array, m>>]} : m \in 0 .. map}

\* What a search from a place meets: the set ticks at or below it.
TicksFrom(bits, place) ==
  TicksDown(bits, place[1], place[2])
    \union UNION {TicksDown(bits, a, MAPS - 1) : a \in 0 .. place[1] - 1}

\* fetch_next_top_tick from a place: the highest of them.
NextTickFrom(bits, place) == Max({COLD_TICK} \union TicksFrom(bits, place))

\* Mutant: the search stops at the array the tick is in.
NextTickInArray(bits, place, liquidation_tick) ==
  LET here == TicksDown(bits, place[1], place[2])
  IN  IF here # {} THEN Max(here) ELSE COLD_TICK

\* The search of a liquidation: before it moves on to an array below, it stops
\* if the map it searched from begins under the liquidation tick.
NextTickAbove(bits, place, liquidation_tick) ==
  LET start(a) == IF a = place[1] THEN place[2] ELSE MAPS - 1
      arrays   == {a \in 0 .. place[1] : TicksDown(bits, a, start(a)) # {}}
      stops    == \E a \in (Max(arrays) + 1) .. place[1] : FirstTick(a, start(a)) < liquidation_tick
  IN  IF arrays = {} \/ stops THEN COLD_TICK
      ELSE Max(TicksDown(bits, Max(arrays), start(Max(arrays))))

SetTicks(bits) == UNION {TicksDown(bits, a, MAPS - 1) : a \in 0 .. ARRAYS - 1}
=============================================================================

---------------------------- MODULE VaultProofs -----------------------------
(***************************************************************************)
(* Proofs about the store of a vault: how ticks, tick ids and branches are *)
(* linked, for every scale, every number of positions, ticks and branches  *)
(* and every price.  The links do not depend on what the ratios are, so    *)
(* that nothing here is about arithmetic but about ids.                    *)
(***************************************************************************)
EXTENDS Vault, FiniteSetTheorems, WellFoundedInduction, TLAPS

-----------------------------------------------------------------------------
(* Greatest elements.                                                      *)

LEMMA LeastNatural ==
  ASSUME NEW S \in SUBSET Nat, S # {}
  PROVE  \E m \in S : \A k \in S : m <= k
<1>1. PICK m \in S : \A k \in S : <<k, m>> \notin OpToRel(<, Nat)
  BY NatLessThanWellFounded, WFMin
<1>2. ASSUME NEW k \in S PROVE ~(k < m)
  BY <1>1 DEF OpToRel
<1>3. ASSUME NEW k \in S PROVE m <= k
  BY <1>2
<1> QED BY <1>3

LEMMA GreatestElement ==
  ASSUME NEW bound \in Int, NEW S \in SUBSET Int, S # {}, \A x \in S : x <= bound
  PROVE  \E m \in S : \A x \in S : x <= m
<1> DEFINE below == {bound - x : x \in S}
<1>0. ASSUME NEW x \in S PROVE bound - x \in Nat
  OBVIOUS
<1>1. below \in SUBSET Nat /\ below # {}
  BY <1>0
<1>2. PICK least \in below : \A k \in below : least <= k
  BY <1>1, LeastNatural
<1>3. PICK m \in S : least = bound - m
  BY <1>2
<1>4. ASSUME NEW x \in S PROVE x <= m
  <2>1. bound - m <= bound - x
    BY <1>2, <1>3
  <2> QED BY <2>1
<1> QED BY <1>4

\* Max of the community modules, for bounded sets.
LEMMA MaxIsGreatest ==
  ASSUME NEW bound \in Int, NEW S \in SUBSET Int, S # {}, \A x \in S : x <= bound
  PROVE  Max(S) \in S /\ \A x \in S : x <= Max(S)
<1>1. PICK m \in S : \A x \in S : x <= m
  BY GreatestElement
<1>2. \A x \in S : m >= x
  BY <1>1
<1>3. Max(S) \in S /\ \A x \in S : Max(S) >= x
  BY <1>2 DEF Max
<1> QED BY <1>3

LEMMA TickRange ==
  /\ MIN_TICK \in Int /\ MAX_TICK \in Int /\ MIN_TICK <= MAX_TICK
  /\ COLD_TICK \in Int /\ COLD_TICK = MIN_TICK - 1
  /\ Ticks \subseteq Int /\ \A t \in Ticks : COLD_TICK < t /\ t <= MAX_TICK
BY TickAssumption DEF Ticks, COLD_TICK

LEMMA TickWindow ==
  /\ \A t \in Ticks \union {COLD_TICK} : t \in COLD_TICK .. MAX_TICK + 2
  /\ \A t \in COLD_TICK .. MAX_TICK + 2 : t # COLD_TICK => t \in MIN_TICK .. MAX_TICK + 2
  /\ \A t \in Ticks : t \in Int /\ MIN_TICK <= t /\ t <= MAX_TICK + 1
BY TickAssumption DEF Ticks, COLD_TICK

LEMMA TickAtRatioInTable ==
  ASSUME NEW ratio, HasTick(ratio)
  PROVE  TickAtRatio(ratio) \in Ticks
<1> DEFINE below == {t \in Ticks : RatioAtTick[t] <= ratio}
<1>1. MIN_TICK \in below
  BY TickAssumption DEF HasTick, Ticks
<1>2. below \in SUBSET Int /\ \A x \in below : x <= MAX_TICK
  BY TickRange
<1>3. PICK m \in below : \A x \in below : x <= m
  BY <1>1, <1>2, TickRange, GreatestElement
<1>4. TickAtRatio(ratio) \in below
  BY <1>3 DEF TickAtRatio
<1> QED BY <1>4

-----------------------------------------------------------------------------
(* The index of ticks.                                                     *)

LEMMA MapConstants ==
  /\ ARRAYS \in Nat \ {0} /\ MAPS \in Nat \ {0} /\ TICKS_PER_MAP \in Nat \ {0}
  /\ MAX_TICK - MIN_TICK + 1 < ARRAYS * MAPS * TICKS_PER_MAP
BY BitmapAssumption

LEMMA QuotientAndRest ==
  ASSUME NEW a \in Nat, NEW b \in Nat \ {0}
  PROVE  /\ a \div b \in Nat /\ a % b \in 0 .. b - 1
         /\ a = b * (a \div b) + (a % b)
OBVIOUS

LEMMA QuotientUnique ==
  ASSUME NEW q \in Nat, NEW r \in Nat, NEW b \in Nat \ {0}, r < b
  PROVE  (b * q + r) \div b = q /\ ((b * q + r) % b) = r
<1> DEFINE a == b * q + r
           d == a \div b
<1>1. a \in Nat
  OBVIOUS
<1>2. d \in Nat /\ a % b \in 0 .. b - 1 /\ a = b * d + (a % b)
  BY <1>1, QuotientAndRest
<1>3. CASE d < q
  <2>1. \A x \in Nat : b * (x + 1) = b * x + b
    OBVIOUS
  <2>2. \A x \in Nat, y \in Nat : x <= y => b * x <= b * y
    OBVIOUS
  <2> QED BY <1>2, <1>3, <2>1, <2>2
<1>4. CASE q < d
  <2>1. \A x \in Nat : b * (x + 1) = b * x + b
    OBVIOUS
  <2>2. \A x \in Nat, y \in Nat : x <= y => b * x <= b * y
    OBVIOUS
  <2> QED BY <1>2, <1>4, <2>1, <2>2
<1>5. CASE d = q
  BY <1>2, <1>5
<1> QED BY <1>2, <1>3, <1>4, <1>5

(* Every tick, and the one above the table, has a place and a bit, and they *)
(* lead back to it.                                                        *)
LEMMA PlaceLeadsBack ==
  ASSUME NEW tick \in Int, MIN_TICK <= tick, tick <= MAX_TICK + 1
  PROVE  /\ PlaceOf(tick) \in Places /\ BitOf(tick) \in 0 .. TICKS_PER_MAP - 1
         /\ FirstTick(PlaceOf(tick)[1], PlaceOf(tick)[2]) + BitOf(tick) = tick
<1> DEFINE T == TICKS_PER_MAP
           M == MAPS
           off == tick - MIN_TICK
           q == off \div T
           r == off % T
           a == q \div M
           m == q % M
<1>1. off \in Nat /\ off < ARRAYS * M * T
  <2>1. off <= MAX_TICK - MIN_TICK + 1
    BY TickRange
  <2>2. ARRAYS * M * T \in Nat
    BY MapConstants
  <2> QED BY <2>1, <2>2, TickRange, MapConstants
<1>2. T \in Nat \ {0} /\ M \in Nat \ {0} /\ ARRAYS \in Nat \ {0}
  BY MapConstants
<1> HIDE DEF T, M, off
<1>3. q \in Nat /\ r \in 0 .. T - 1 /\ off = T * q + r
  BY <1>1, <1>2, QuotientAndRest
<1> HIDE DEF q, r
<1>4. a \in Nat /\ m \in 0 .. M - 1 /\ q = M * a + m
  BY <1>2, <1>3, QuotientAndRest
<1> HIDE DEF a, m
<1>5. off = (M * T) * a + (T * m + r)
  <2>1. T * (M * a + m) = (M * T) * a + T * m
    BY <1>2, <1>4
  <2> QED BY <2>1, <1>2, <1>3, <1>4
<1>6. T * m + r \in Nat /\ T * m + r < M * T /\ M * T \in Nat \ {0}
  <2>1. \A x \in Nat, y \in Nat : x <= y => T * x <= T * y
    BY <1>2
  <2>2. T * m <= T * (M - 1)
    BY <2>1, <1>2, <1>4
  <2>3. T * (M - 1) = M * T - T
    BY <1>2
  <2>4. T * m \in Nat /\ M * T \in Nat /\ M * T # 0
    BY <1>2, <1>4
  <2> QED BY <2>2, <2>3, <2>4, <1>2, <1>3
<1>7. off \div (M * T) = a
  BY <1>5, <1>6, <1>4, QuotientUnique
<1>8. a <= ARRAYS - 1
  <2>1. CASE ARRAYS <= a
    <3>1. \A x \in Nat, y \in Nat : x <= y => (M * T) * x <= (M * T) * y
      BY <1>6
    <3>2. (M * T) * ARRAYS <= (M * T) * a
      BY <3>1, <2>1, <1>2, <1>4
    <3>3. (M * T) * ARRAYS = ARRAYS * M * T
      BY <1>2
    <3>4. (M * T) * a \in Nat /\ (M * T) * ARRAYS \in Nat
      BY <1>2, <1>4, <1>6
    <3> QED BY <3>2, <3>3, <3>4, <1>1, <1>5, <1>6
  <2> QED BY <2>1, <1>2, <1>4
<1>9. PlaceOf(tick) = <<a, m>> /\ BitOf(tick) = r
  BY <1>7 DEF PlaceOf, BitOf, T, M, off, q, r, a, m
<1>10. <<a, m>> \in Places
  <2>1. a \in 0 .. ARRAYS - 1 /\ m \in 0 .. MAPS - 1
    BY <1>2, <1>4, <1>8 DEF M
  <2> QED BY <2>1 DEF Places
<1>11. FirstTick(a, m) + r = tick
  <2>1. FirstTick(a, m) = MIN_TICK + (a * M + m) * T
    BY DEF FirstTick, M, T
  <2>2. (a * M + m) * T = T * q
    BY <1>2, <1>3, <1>4
  <2>3. off + MIN_TICK = tick
    BY TickRange DEF off
  <2>4. T * q \in Nat
    BY <1>2, <1>3
  <2> QED BY <2>1, <2>2, <2>3, <2>4, <1>3, TickRange
<1> QED BY <1>9, <1>10, <1>11, <1>3 DEF T

(* The index holds bits of maps, and only those of ticks.                   *)
IndexOK(b) == b \in [Places -> SUBSET (0 .. TICKS_PER_MAP - 1)] /\ SetTicks(b) \subseteq Ticks

LEMMA PlaceParts ==
  ASSUME NEW place \in Places
  PROVE  /\ place[1] \in 0 .. ARRAYS - 1 /\ place[2] \in 0 .. MAPS - 1
         /\ place = <<place[1], place[2]>>
BY DEF Places

LEMMA InTicksDown ==
  ASSUME NEW b, NEW array, NEW map, NEW t
  PROVE  t \in TicksDown(b, array, map) <=>
           \E m \in 0 .. map : \E bit \in b[<<array, m>>] : t = FirstTick(array, m) + bit
<1> DEFINE InMap(m) == {FirstTick(array, m) + bit : bit \in b[<<array, m>>]}
<1>1. TicksDown(b, array, map) = UNION {InMap(m) : m \in 0 .. map}
  BY DEF TicksDown
<1>2. \A m : t \in InMap(m) <=> \E bit \in b[<<array, m>>] : t = FirstTick(array, m) + bit
  OBVIOUS
<1> HIDE DEF InMap
<1>3. t \in UNION {InMap(m) : m \in 0 .. map} <=> \E m \in 0 .. map : t \in InMap(m)
  OBVIOUS
<1> QED BY <1>1, <1>2, <1>3

LEMMA InSetTicks ==
  ASSUME NEW b, NEW t
  PROVE  t \in SetTicks(b) <=>
           \E place \in Places : \E bit \in b[place] : t = FirstTick(place[1], place[2]) + bit
<1>1. t \in SetTicks(b) <=> \E a \in 0 .. ARRAYS - 1 : t \in TicksDown(b, a, MAPS - 1)
  BY DEF SetTicks
<1>2. t \in SetTicks(b) <=>
        \E a \in 0 .. ARRAYS - 1 : \E m \in 0 .. MAPS - 1 : \E bit \in b[<<a, m>>] :
          t = FirstTick(a, m) + bit
  BY <1>1, InTicksDown
<1>3. ASSUME NEW a \in 0 .. ARRAYS - 1, NEW m \in 0 .. MAPS - 1
      PROVE  <<a, m>> \in Places /\ <<a, m>>[1] = a /\ <<a, m>>[2] = m
  BY DEF Places
<1>4. ASSUME t \in SetTicks(b)
      PROVE  \E place \in Places : \E bit \in b[place] : t = FirstTick(place[1], place[2]) + bit
  <2>1. PICK a \in 0 .. ARRAYS - 1, m \in 0 .. MAPS - 1 :
          \E bit \in b[<<a, m>>] : t = FirstTick(a, m) + bit
    BY <1>2, <1>4
  <2>2. PICK bit \in b[<<a, m>>] : t = FirstTick(a, m) + bit
    BY <2>1
  <2> QED BY <2>2, <1>3
<1>5. ASSUME NEW place \in Places, NEW bit \in b[place], t = FirstTick(place[1], place[2]) + bit
      PROVE  t \in SetTicks(b)
  BY <1>2, <1>5, PlaceParts
<1> QED BY <1>4, <1>5

LEMMA SearchesMeetSetTicks ==
  ASSUME NEW b, NEW place \in Places, NEW a \in 0 .. ARRAYS - 1, NEW m \in 0 .. MAPS - 1
  PROVE  TicksFrom(b, place) \subseteq SetTicks(b) /\ TicksDown(b, a, m) \subseteq SetTicks(b)
<1>1. ASSUME NEW c \in 0 .. ARRAYS - 1, NEW k \in 0 .. MAPS - 1, NEW t \in TicksDown(b, c, k)
      PROVE  t \in SetTicks(b)
  <2>0. t \in TicksDown(b, c, k)
          <=> \E j \in 0 .. k : \E bit \in b[<<c, j>>] : t = FirstTick(c, j) + bit
    BY ONLY InTicksDown
  <2>1. PICK j \in 0 .. k : \E bit \in b[<<c, j>>] : t = FirstTick(c, j) + bit
    BY ONLY <1>1, <2>0
  <2>2. <<c, j>> \in Places /\ <<c, j>>[1] = c /\ <<c, j>>[2] = j
    <3>1. j \in 0 .. MAPS - 1
      BY MapConstants
    <3> QED BY <3>1 DEF Places
  <2> QED BY <2>1, <2>2, InSetTicks
<1>2. ASSUME NEW t \in TicksFrom(b, place) PROVE t \in SetTicks(b)
  <2>1. PICK c \in 0 .. ARRAYS - 1, k \in 0 .. MAPS - 1 : t \in TicksDown(b, c, k)
    <3>1. CASE t \in TicksDown(b, place[1], place[2])
      BY <3>1, PlaceParts
    <3>2. CASE \E c \in 0 .. place[1] - 1 : t \in TicksDown(b, c, MAPS - 1)
      <4>1. MAPS - 1 \in 0 .. MAPS - 1 /\ \A c \in 0 .. place[1] - 1 : c \in 0 .. ARRAYS - 1
        BY MapConstants, PlaceParts
      <4> QED BY <3>2, <4>1
    <3> QED BY <3>1, <3>2, <1>2 DEF TicksFrom
  <2> QED BY <2>1, <1>1
<1> QED BY <1>1, <1>2

LEMMA NextTickFromTyped ==
  ASSUME NEW b, IndexOK(b), NEW place \in Places
  PROVE  NextTickFrom(b, place) \in Ticks \union {COLD_TICK}
<1> DEFINE S == {COLD_TICK} \union TicksFrom(b, place)
<1>1. 0 \in 0 .. ARRAYS - 1 /\ 0 \in 0 .. MAPS - 1
  BY MapConstants
<1>2. TicksFrom(b, place) \subseteq Ticks
  BY <1>1, SearchesMeetSetTicks DEF IndexOK
<1>3. S \in SUBSET Int /\ S # {} /\ \A x \in S : x <= MAX_TICK
  <2>1. \A x \in Ticks \union {COLD_TICK} : x \in Int /\ x <= MAX_TICK
    BY TickRange
  <2>2. S \subseteq Ticks \union {COLD_TICK} /\ S # {}
    BY <1>2
  <2> HIDE DEF S
  <2> QED BY <2>1, <2>2
<1>4. Max(S) \in S
  <2> HIDE DEF S
  <2> QED BY <1>3, TickRange, MaxIsGreatest
<1> QED BY <1>2, <1>4 DEF NextTickFrom

LEMMA FewerBits ==
  ASSUME NEW b, IndexOK(b), NEW c \in [Places -> SUBSET (0 .. TICKS_PER_MAP - 1)],
         \A place \in Places : c[place] \subseteq b[place]
  PROVE  IndexOK(c)
<1>1. ASSUME NEW t \in SetTicks(c) PROVE t \in SetTicks(b)
  BY InSetTicks
<1> QED BY <1>1 DEF IndexOK

LEMMA ClearedIndex ==
  ASSUME NEW b, IndexOK(b), NEW tick, NEW S
  PROVE  IndexOK(ClearBit(b, tick)) /\ IndexOK(ClearBits(b, tick)) /\ IndexOK(ClearAll(b, S))
<1>1. b \in [Places -> SUBSET (0 .. TICKS_PER_MAP - 1)]
  BY DEF IndexOK
<1>2. IndexOK(ClearBit(b, tick))
  BY <1>1, FewerBits DEF ClearBit
<1>3. IndexOK(ClearBits(b, tick))
  BY <1>1, FewerBits DEF ClearBits
<1>4. IndexOK(ClearAll(b, S))
  <2> DEFINE c == ClearAll(b, S)
  <2>1. \A place \in Places : c[place] \subseteq b[place]
    BY DEF ClearAll
  <2>2. c \in [Places -> SUBSET (0 .. TICKS_PER_MAP - 1)]
    BY <1>1, <2>1 DEF ClearAll
  <2> QED BY <2>1, <2>2, FewerBits
<1> QED BY <1>2, <1>3, <1>4

LEMMA ExtendedIndex ==
  ASSUME NEW b, IndexOK(b), NEW tick \in Ticks
  PROVE  IndexOK(SetBit(b, tick))
<1> DEFINE c == SetBit(b, tick)
           place == PlaceOf(tick)
           bit == BitOf(tick)
<1>1. place \in Places /\ bit \in 0 .. TICKS_PER_MAP - 1
      /\ FirstTick(place[1], place[2]) + bit = tick
  <2>1. tick \in Int /\ MIN_TICK <= tick /\ tick <= MAX_TICK + 1
    BY TickRange DEF Ticks
  <2> QED BY <2>1, PlaceLeadsBack
<1>2. b \in [Places -> SUBSET (0 .. TICKS_PER_MAP - 1)]
  BY DEF IndexOK
<1>3. c = [b EXCEPT ![place] = @ \union {bit}]
  BY DEF SetBit
<1> HIDE DEF c, place, bit
<1>4. c \in [Places -> SUBSET (0 .. TICKS_PER_MAP - 1)]
  BY <1>1, <1>2, <1>3
<1>5. ASSUME NEW t \in SetTicks(c) PROVE t \in Ticks
  <2>0. PICK p \in Places : \E k \in c[p] : t = FirstTick(p[1], p[2]) + k
    BY InSetTicks
  <2>1. PICK k \in c[p] : t = FirstTick(p[1], p[2]) + k
    BY <2>0
  <2>2. CASE k \in b[p]
    <3>1. t \in SetTicks(b)
      BY <2>1, <2>2, InSetTicks
    <3> QED BY <3>1 DEF IndexOK
  <2>3. CASE k \notin b[p]
    <3>1. p = place /\ k = bit
      BY <1>2, <1>3, <2>1, <2>3
    <3> QED BY <3>1, <2>1, <1>1
  <2> QED BY <2>2, <2>3
<1> QED BY <1>4, <1>5 DEF IndexOK, c

-----------------------------------------------------------------------------
(* The links of a store.                                                   *)

(* The records of the program have their fields.                            *)
HasFields(r, fields) == r = [f \in fields |-> r[f]]
StoreFields == {"vault", "bits", "ticks", "tick_ids", "branches"}
VaultFields == {"liquidated", "top", "current", "total", "supply", "borrow", "absorbed_debt",
                "absorbed_col", "absorbed_dust"}
LiquidationFields == {"fully", "branch", "factor"}
TickFields == {"is_liquidated", "total_ids", "raw_debt", "liquidation"}
BranchFields == {"status", "minima_tick", "partials", "debt", "factor", "connected",
                 "connected_minima_tick"}

TicksShaped(ts) ==
  /\ ts = [t \in Ticks |-> ts[t]]
  /\ \A t \in Ticks : /\ HasFields(ts[t], TickFields)
                      /\ HasFields(ts[t].liquidation, LiquidationFields)
                      /\ ts[t].total_ids \in 0 .. MaxTickIds
BranchesShaped(br) ==
  /\ br = [b \in BranchIds |-> br[b]]
  /\ \A b \in BranchIds : HasFields(br[b], BranchFields)
Shape(s) ==
  /\ HasFields(s, StoreFields) /\ HasFields(s.vault, VaultFields)
  /\ IndexOK(s.bits)
  /\ TicksShaped(s.ticks) /\ BranchesShaped(s.branches)
  /\ s.tick_ids = [r \in Records |-> s.tick_ids[r]]

(* The branch b stands on the liquidated one next below it, or on none.      *)
Chained(br, b) ==
  /\ br[b].connected \in 0 .. b - 1
  /\ br[b].connected_minima_tick \in Ticks \union {COLD_TICK}
  /\ br[b].connected_minima_tick = COLD_TICK <=> br[b].connected = 0
  /\ br[b].connected # 0 => br[br[b].connected].status = "liquidated"
  /\ \A d \in BranchIds : br[b].connected < d /\ d < b => br[d].status # "liquidated"

(* Ids up to total are given out; a merged branch leads to one that was      *)
(* liquidated, and liquidated branches stand on each other.                 *)
Woods(br, total) ==
  /\ total \in BranchIds
  /\ \A b \in BranchIds :
       /\ b > total => br[b].status = "not_liquidated"
       /\ br[b].status = "merged" =>
            /\ br[b].connected \in 1 .. b - 1
            /\ br[br[b].connected].status # "not_liquidated"
       /\ br[b].status = "liquidated" =>
            Chained(br, b) /\ br[b].minima_tick \in MIN_TICK .. MAX_TICK + 2

(* k is the highest branch with a liquidation that is not over, or 0.       *)
Tip(br, k) ==
  /\ k # 0 => k \in BranchIds /\ br[k].status = "liquidated"
  /\ \A b \in BranchIds : b > k => br[b].status # "liquidated"

(* c is the branch on top, the only one that may be without a liquidation.  *)
Forest(br, total, c) ==
  /\ Woods(br, total)
  /\ c \in BranchIds /\ c <= total /\ Chained(br, c)
  /\ br[c].status \in {"liquidated", "not_liquidated"}
  /\ \A b \in BranchIds :
       /\ b <= total /\ br[b].status = "not_liquidated" => b = c /\ b = total
       /\ b > c => br[b].status # "liquidated"

(* A liquidation leads to a branch that was liquidated, or to x.            *)
Rooted(q, br, x) ==
  \/ q.fully
  \/ q.branch \in BranchIds /\ (br[q.branch].status # "not_liquidated" \/ q.branch = x)
AllRooted(s, x) ==
  \A t \in Ticks :
    /\ s.ticks[t].is_liquidated => Rooted(s.ticks[t].liquidation, s.branches, x)
    /\ \A i \in 1 .. MaxTickIds : i < s.ticks[t].total_ids =>
         Rooted(s.tick_ids[Record(t, i)], s.branches, x)

TopLinked(v, br) ==
  /\ v.top \in COLD_TICK .. MAX_TICK + 2
  /\ IF v.liquidated THEN br[v.current].status = "liquidated" /\ v.top # COLD_TICK
                      ELSE br[v.current].status = "not_liquidated"

Linked(s) ==
  /\ Shape(s)
  /\ Forest(s.branches, s.vault.total, s.vault.current)
  /\ TopLinked(s.vault, s.branches)
  /\ AllRooted(s, 0)

PositionsLinked(ts, ps) ==
  /\ ps = [p \in PositionIds |-> ps[p]]
  /\ \A p \in PositionIds :
       /\ HasFields(ps[p], {"open", "tick", "tick_id", "supply", "dust"})
       /\ ps[p].tick # COLD_TICK =>
            ps[p].tick \in Ticks /\ ps[p].tick_id \in 1 .. ts[ps[p].tick].total_ids

VaultLinked == Linked(Store) /\ PositionsLinked(ticks, positions)

-----------------------------------------------------------------------------
(* Following the merged branches.                                          *)

LEMMA ConnectWalks ==
  ASSUME NEW br, NEW branch, NEW factor
  PROVE  \E A : /\ A = [n \in 0 .. MaxBranches |->
                         IF n = 0 THEN [branch |-> branch, factor |-> factor, wiped |-> FALSE]
                         ELSE Onto(br, A[n - 1])]
               /\ Connect(br, branch, factor) = A[MaxBranches]
<1> DEFINE start == [branch |-> branch, factor |-> factor, wiped |-> FALSE]
           Walks(A, m) == A = [n \in 0 .. m |-> IF n = 0 THEN start ELSE Onto(br, A[n - 1])]
           bad == {m \in Nat : ~ \E A : Walks(A, m)}
<1>1. \E A : Walks(A, 0)
  <2> DEFINE A == [n \in 0 .. 0 |-> start]
  <2>1. \A n \in 0 .. 0 : n = 0
    OBVIOUS
  <2>2. A = [n \in 0 .. 0 |-> IF n = 0 THEN start ELSE Onto(br, A[n - 1])]
    BY <2>1
  <2> QED BY <2>2
<1>2. ASSUME NEW m \in Nat, NEW A, Walks(A, m)
      PROVE  \E B : Walks(B, m + 1)
  <2> DEFINE B == [n \in 0 .. m + 1 |-> IF n = 0 THEN start ELSE Onto(br, A[n - 1])]
           R == [n \in 0 .. m |-> IF n = 0 THEN start ELSE Onto(br, A[n - 1])]
  <2>1. ASSUME NEW n \in 0 .. m PROVE B[n] = A[n]
    <3>1. A = R
      BY <1>2
    <3>2. R[n] = IF n = 0 THEN start ELSE Onto(br, A[n - 1])
      OBVIOUS
    <3>3. B[n] = IF n = 0 THEN start ELSE Onto(br, A[n - 1])
      OBVIOUS
    <3> HIDE DEF R, B
    <3> QED BY <3>1, <3>2, <3>3
  <2>2. \A n \in 0 .. m + 1 : n # 0 => B[n - 1] = A[n - 1]
    <3>1. \A n \in 0 .. m + 1 : n # 0 => n - 1 \in 0 .. m
      OBVIOUS
    <3> HIDE DEF B
    <3> QED BY <2>1, <3>1
  <2>3. B = [n \in 0 .. m + 1 |-> IF n = 0 THEN start ELSE Onto(br, B[n - 1])]
    BY <2>2
  <2> QED BY <2>3
<1> HIDE DEF Walks
<1>3. bad = {}
  <2>1. SUFFICES ASSUME bad # {} PROVE FALSE
    OBVIOUS
  <2>2. PICK m \in bad : \A k \in bad : m <= k
    BY <2>1, LeastNatural
  <2>3. m # 0
    BY <2>2, <1>1
  <2>4. m - 1 \in Nat /\ m - 1 \notin bad
    BY <2>2, <2>3
  <2>5. m - 1 + 1 = m
    BY <2>2
  <2> QED BY <2>2, <2>4, <2>5, <1>2
<1>4. PICK A : Walks(A, MaxBranches)
  BY <1>3, StoreAssumption
<1>5. Connect(br, branch, factor) = (CHOOSE B : Walks(B, MaxBranches))[MaxBranches]
  BY DEF Connect, Walks
<1>6. Walks((CHOOSE B : Walks(B, MaxBranches)), MaxBranches)
  BY <1>4
<1> QED BY <1>5, <1>6 DEF Walks

(* Merged branches lead to branches that were liquidated.                   *)
Leads(br) ==
  \A b \in BranchIds : br[b].status = "merged" =>
    br[b].connected \in BranchIds /\ br[br[b].connected].status # "not_liquidated"

SameLinks(b1, b2) ==
  /\ b2.status = b1.status /\ b2.minima_tick = b1.minima_tick /\ b2.partials = b1.partials
  /\ b2.factor = b1.factor /\ b2.connected = b1.connected
KeepsBranches(br1, br2) ==
  \A b \in BranchIds : br1[b].status # "not_liquidated" => SameLinks(br1[b], br2[b])

LEMMA OneStepOn ==
  ASSUME NEW br1, NEW br2, Leads(br1), KeepsBranches(br1, br2),
         NEW at, at.branch \in BranchIds, br1[at.branch].status # "not_liquidated"
  PROVE  /\ Onto(br2, at) = Onto(br1, at)
         /\ (at = [branch |-> at.branch, factor |-> at.factor, wiped |-> at.wiped] =>
              /\ Onto(br1, at).branch \in BranchIds
              /\ br1[Onto(br1, at).branch].status # "not_liquidated"
              /\ Onto(br1, at) = [branch |-> Onto(br1, at).branch, factor |-> Onto(br1, at).factor,
                                  wiped |-> Onto(br1, at).wiped])
<1> DEFINE b == br1[at.branch]
           next == MulBigNumber(at.factor, b.factor)
<1>1. SameLinks(b, br2[at.branch])
  BY DEF KeepsBranches
<1>2. Onto(br2, at) = Onto(br1, at)
  BY <1>1 DEF Onto, SameLinks
<1>3. ASSUME at = [branch |-> at.branch, factor |-> at.factor, wiped |-> at.wiped]
      PROVE  /\ Onto(br1, at).branch \in BranchIds
             /\ br1[Onto(br1, at).branch].status # "not_liquidated"
             /\ Onto(br1, at) = [branch |-> Onto(br1, at).branch, factor |-> Onto(br1, at).factor,
                                 wiped |-> Onto(br1, at).wiped]
  <2>1. CASE at.wiped \/ b.status # "merged"
    <3>1. Onto(br1, at) = at
      BY <2>1 DEF Onto
    <3> QED BY <3>1, <1>3
  <2>2. CASE ~(at.wiped \/ b.status # "merged") /\ next = MaxMask
    <3>1. Onto(br1, at) = [at EXCEPT !.factor = MaxMask, !.wiped = TRUE]
      BY <2>2 DEF Onto
    <3>2. Onto(br1, at) = [branch |-> at.branch, factor |-> MaxMask, wiped |-> TRUE]
      BY <3>1, <1>3
    <3> QED BY <3>2
  <2>3. CASE ~(at.wiped \/ b.status # "merged") /\ next # MaxMask
    <3>1. Onto(br1, at) = [branch |-> b.connected, factor |-> next, wiped |-> FALSE]
      BY <2>3 DEF Onto
    <3>2. b.connected \in BranchIds /\ br1[b.connected].status # "not_liquidated"
      BY <2>3 DEF Leads
    <3> QED BY <3>1, <3>2
  <2> QED BY <2>1, <2>2, <2>3
<1> QED BY <1>2, <1>3

LEMMA ConnectAgrees ==
  ASSUME NEW br1, NEW br2, Leads(br1), KeepsBranches(br1, br2), NEW factor,
         NEW branch \in BranchIds, br1[branch].status # "not_liquidated"
  PROVE  /\ Connect(br2, branch, factor) = Connect(br1, branch, factor)
         /\ Connect(br1, branch, factor).branch \in BranchIds
         /\ br1[Connect(br1, branch, factor).branch].status # "not_liquidated"
<1> DEFINE start == [branch |-> branch, factor |-> factor, wiped |-> FALSE]
           Step(br, A, n) == IF n = 0 THEN start ELSE Onto(br, A[n - 1])
           Fine(at) == /\ at.branch \in BranchIds /\ br1[at.branch].status # "not_liquidated"
                       /\ at = [branch |-> at.branch, factor |-> at.factor, wiped |-> at.wiped]
<1>1. PICK A : /\ A = [n \in 0 .. MaxBranches |-> Step(br1, A, n)]
               /\ Connect(br1, branch, factor) = A[MaxBranches]
  BY ConnectWalks
<1>2. PICK B : /\ B = [n \in 0 .. MaxBranches |-> Step(br2, B, n)]
               /\ Connect(br2, branch, factor) = B[MaxBranches]
  BY ConnectWalks
<1>3. ASSUME NEW n \in 0 .. MaxBranches PROVE A[n] = Step(br1, A, n) /\ B[n] = Step(br2, B, n)
  <2> DEFINE F == [k \in 0 .. MaxBranches |-> Step(br1, A, k)]
             G == [k \in 0 .. MaxBranches |-> Step(br2, B, k)]
  <2>1. F[n] = Step(br1, A, n) /\ G[n] = Step(br2, B, n)
    OBVIOUS
  <2>2. A = F /\ B = G
    BY <1>1, <1>2
  <2> HIDE DEF F, G, Step
  <2> QED BY <2>1, <2>2
<1> DEFINE bad == {n \in Nat : n <= MaxBranches /\ ~(A[n] = B[n] /\ Fine(A[n]))}
<1>4. Fine(start)
  OBVIOUS
<1>5. ASSUME NEW at, Fine(at) PROVE Onto(br1, at) = Onto(br2, at) /\ Fine(Onto(br1, at))
  BY <1>5, OneStepOn
<1> HIDE DEF Fine, start
<1>6. bad = {}
  <2>1. SUFFICES ASSUME bad # {} PROVE FALSE
    OBVIOUS
  <2>2. PICK m \in bad : \A k \in bad : m <= k
    BY <2>1, LeastNatural
  <2>3. m \in 0 .. MaxBranches
    BY <2>2, StoreAssumption
  <2>4. CASE m = 0
    <3>1. A[0] = start /\ B[0] = start
      BY <2>3, <2>4, <1>3
    <3> QED BY <3>1, <2>2, <2>4, <1>4
  <2>5. CASE m # 0
    <3>1. m - 1 \in Nat /\ m - 1 <= MaxBranches /\ m - 1 \notin bad
      BY <2>2, <2>3, <2>5, StoreAssumption
    <3>2. A[m - 1] = B[m - 1] /\ Fine(A[m - 1])
      BY <3>1
    <3>3. A[m] = Onto(br1, A[m - 1]) /\ B[m] = Onto(br2, B[m - 1])
      BY <2>3, <2>5, <1>3
    <3> QED BY <3>2, <3>3, <2>2, <1>5
  <2> QED BY <2>4, <2>5
<1>7. A[MaxBranches] = B[MaxBranches] /\ Fine(A[MaxBranches])
  BY <1>6, StoreAssumption
<1> QED BY <1>1, <1>2, <1>7 DEF Fine

-----------------------------------------------------------------------------
(* What a position is worth depends on the links alone.                     *)

WasOut(s, t, i) == s.ticks[t].is_liquidated \/ s.ticks[t].total_ids > i
Standing(s, t, i) ==
  IF s.ticks[t].total_ids = i THEN s.ticks[t].liquidation ELSE s.tick_ids[Record(t, i)]

(* Every id given out so far keeps its liquidation.                          *)
KeepsIds(s1, s2) ==
  \A t \in Ticks :
    /\ s1.ticks[t].total_ids <= s2.ticks[t].total_ids
    /\ \A i \in 1 .. s1.ticks[t].total_ids :
         /\ WasOut(s2, t, i) <=> WasOut(s1, t, i)
         /\ WasOut(s1, t, i) => Standing(s2, t, i) = Standing(s1, t, i)
Keeps(s1, s2) == KeepsBranches(s1.branches, s2.branches) /\ KeepsIds(s1, s2)

InTick(s, pos) == pos.tick \in Ticks /\ pos.tick_id \in 1 .. s.ticks[pos.tick].total_ids

LEMMA ForestLeads ==
  ASSUME NEW br, NEW total, NEW c, Forest(br, total, c)
  PROVE  Leads(br)
<1>1. \A b \in BranchIds : b \in Nat /\ 1 .. b - 1 \subseteq BranchIds
  BY StoreAssumption DEF BranchIds
<1> QED BY <1>1 DEF Forest, Woods, Leads

LEMMA StandingRooted ==
  ASSUME NEW s, TicksShaped(s.ticks), AllRooted(s, 0), NEW t \in Ticks,
         NEW i \in 1 .. s.ticks[t].total_ids, WasOut(s, t, i)
  PROVE  Rooted(Standing(s, t, i), s.branches, 0)
<1>1. s.ticks[t].total_ids \in 0 .. MaxTickIds
  BY DEF TicksShaped
<1>2. CASE s.ticks[t].total_ids = i
  BY <1>1, <1>2 DEF WasOut, Standing, AllRooted
<1>3. CASE s.ticks[t].total_ids # i
  <2>1. i \in 1 .. MaxTickIds /\ i < s.ticks[t].total_ids
    BY <1>1, <1>3, StoreAssumption
  <2> QED BY <2>1, <1>3 DEF Standing, AllRooted
<1> QED BY <1>2, <1>3

LEMMA WorthKept ==
  ASSUME NEW s1, NEW s2, Keeps(s1, s2), TicksShaped(s1.ticks), Leads(s1.branches),
         AllRooted(s1, 0), NEW pos, pos.tick = COLD_TICK \/ InTick(s1, pos)
  PROVE  Worth(s2, pos) = Worth(s1, pos)
<1> DEFINE m == Memory(pos)
           t == pos.tick
           i == pos.tick_id
<1>1. m.tick = t /\ m.tick_id = i
  BY DEF Memory
<1>2. CASE t = COLD_TICK
  BY <1>2 DEF Worth, LatestIn
<1>3. CASE t # COLD_TICK /\ ~WasOut(s1, t, i)
  <2>1. InTick(s1, pos) /\ ~WasOut(s2, t, i)
    BY <1>3 DEF Keeps, KeepsIds, InTick
  <2>2. ~WasLiquidated(s1, m) /\ ~WasLiquidated(s2, m)
    BY <2>1, <1>3, <1>1 DEF WasLiquidated, WasOut
  <2>3. LatestIn(s1, pos) = m /\ LatestIn(s2, pos) = m
    BY <2>2 DEF LatestIn
  <2> QED BY <2>3 DEF Worth
<1>4. CASE t # COLD_TICK /\ WasOut(s1, t, i)
  <2> DEFINE q == LiquidationOf(s1, m)
  <2>1. InTick(s1, pos) /\ WasOut(s2, t, i) /\ Standing(s2, t, i) = Standing(s1, t, i)
    BY <1>4 DEF Keeps, KeepsIds, InTick
  <2>2. WasLiquidated(s1, m) /\ WasLiquidated(s2, m)
    BY <2>1, <1>4, <1>1 DEF WasLiquidated, WasOut
  <2>3. q = Standing(s1, t, i) /\ LiquidationOf(s2, m) = q
    BY <2>1, <1>1 DEF LiquidationOf, Standing
  <2>4. Rooted(q, s1.branches, 0)
    BY <2>1, <2>3, <1>4, StandingRooted DEF InTick
  <2>7. /\ LatestIn(s1, pos) = LatestPosition(s1, m).memory
        /\ LatestIn(s2, pos) = LatestPosition(s2, m).memory
    BY <2>2, <1>4 DEF LatestIn
  <2> HIDE DEF q, m
  <2>5. CASE q.fully
    BY <2>5, <2>3, <2>7 DEF q, LatestPosition, Worth
  <2>6. CASE ~q.fully
    <3>1. q.branch \in BranchIds /\ s1.branches[q.branch].status # "not_liquidated"
      BY <2>4, <2>6, StoreAssumption DEF Rooted, BranchIds
    <3> DEFINE end == Connect(s1.branches, q.branch, q.factor)
    <3>2. /\ Connect(s2.branches, q.branch, q.factor) = end
          /\ end.branch \in BranchIds /\ s1.branches[end.branch].status # "not_liquidated"
      BY <3>1, ConnectAgrees DEF Keeps
    <3>3. SameLinks(s1.branches[end.branch], s2.branches[end.branch])
      BY <3>2 DEF Keeps, KeepsBranches
    <3>4. LatestPosition(s2, m) = LatestPosition(s1, m)
      <4> HIDE DEF end
      <4> QED BY <2>3, <3>2, <3>3 DEF end, q, LatestPosition, SameLinks
    <3> QED BY <3>4, <2>7 DEF Worth
  <2> QED BY <2>5, <2>6
<1> QED BY <1>2, <1>3, <1>4

LEMMA KeepsTransitive ==
  ASSUME NEW s1, NEW s2, NEW s3, TicksShaped(s1.ticks), TicksShaped(s2.ticks),
         TicksShaped(s3.ticks), Keeps(s1, s2), Keeps(s2, s3)
  PROVE  Keeps(s1, s3)
<1>1. KeepsBranches(s1.branches, s3.branches)
  BY DEF Keeps, KeepsBranches, SameLinks
<1>2. ASSUME NEW t \in Ticks, NEW i \in 1 .. s1.ticks[t].total_ids
      PROVE  /\ WasOut(s3, t, i) <=> WasOut(s1, t, i)
             /\ WasOut(s1, t, i) => Standing(s3, t, i) = Standing(s1, t, i)
  <2>1. s1.ticks[t].total_ids \in Nat /\ s2.ticks[t].total_ids \in Nat
    BY DEF TicksShaped
  <2>2. i \in 1 .. s2.ticks[t].total_ids
    BY <2>1 DEF Keeps, KeepsIds
  <2> QED BY <2>2 DEF Keeps, KeepsIds
<1>3. \A t \in Ticks : s1.ticks[t].total_ids <= s3.ticks[t].total_ids
  <2>1. ASSUME NEW t \in Ticks
        PROVE  s1.ticks[t].total_ids \in Nat /\ s2.ticks[t].total_ids \in Nat
               /\ s3.ticks[t].total_ids \in Nat
    BY DEF TicksShaped
  <2> QED BY <2>1 DEF Keeps, KeepsIds
<1> QED BY <1>1, <1>2, <1>3 DEF Keeps, KeepsIds

-----------------------------------------------------------------------------
(* Steps that leave the links alone.                                        *)

SameFields(b1, b2) ==
  SameLinks(b1, b2) /\ b2.connected_minima_tick = b1.connected_minima_tick
SameTicks(ts1, ts2) ==
  \A t \in Ticks : /\ ts2[t].is_liquidated = ts1[t].is_liquidated
                   /\ ts2[t].total_ids = ts1[t].total_ids
                   /\ ts2[t].liquidation = ts1[t].liquidation
Same(s1, s2) ==
  /\ s2.vault.liquidated = s1.vault.liquidated /\ s2.vault.top = s1.vault.top
  /\ s2.vault.current = s1.vault.current /\ s2.vault.total = s1.vault.total
  /\ SameTicks(s1.ticks, s2.ticks) /\ s2.tick_ids = s1.tick_ids
  /\ \A b \in BranchIds : SameFields(s1.branches[b], s2.branches[b])

LEMMA BranchIdsClosed ==
  /\ BranchIds \subseteq Nat
  /\ \A b \in BranchIds : 1 .. b - 1 \subseteq BranchIds /\ 1 .. b \subseteq BranchIds
  /\ 1 \in BranchIds /\ 0 \notin BranchIds /\ MaxBranches \in BranchIds
BY StoreAssumption DEF BranchIds

LEMMA SameForest ==
  ASSUME NEW br1, NEW br2, NEW total, NEW c, Forest(br1, total, c),
         \A b \in BranchIds : SameFields(br1[b], br2[b])
  PROVE  Forest(br2, total, c)
<1>1. ASSUME NEW b \in BranchIds, Chained(br1, b) PROVE Chained(br2, b)
  <2>1. SameFields(br1[b], br2[b])
    OBVIOUS
  <2>2. br1[b].connected # 0 => br1[b].connected \in BranchIds
    BY <1>1, BranchIdsClosed DEF Chained
  <2>3. br1[b].connected # 0 => br2[br1[b].connected].status = "liquidated"
    BY <1>1, <2>2 DEF Chained, SameFields, SameLinks
  <2>4. \A d \in BranchIds : br2[d].status = br1[d].status
    BY DEF SameFields, SameLinks
  <2> QED BY <1>1, <2>1, <2>3, <2>4 DEF Chained, SameFields, SameLinks
<1>2. \A b \in BranchIds : SameFields(br1[b], br2[b])
  OBVIOUS
<1>3. ASSUME NEW b \in BranchIds, br1[b].status = "merged"
      PROVE  br2[br1[b].connected].status # "not_liquidated"
  <2>1. br1[b].connected \in BranchIds
    BY <1>3, BranchIdsClosed DEF Forest, Woods
  <2> QED BY <1>3, <2>1 DEF Forest, Woods, SameFields, SameLinks
<1> QED BY <1>1, <1>2, <1>3 DEF Forest, Woods, SameFields, SameLinks

LEMMA SameRooted ==
  ASSUME NEW s1, NEW s2, AllRooted(s1, 0), SameTicks(s1.ticks, s2.ticks),
         s2.tick_ids = s1.tick_ids, KeepsBranches(s1.branches, s2.branches)
  PROVE  AllRooted(s2, 0)
<1>1. ASSUME NEW q, Rooted(q, s1.branches, 0) PROVE Rooted(q, s2.branches, 0)
  <2>1. q.branch \in BranchIds => q.branch # 0
    BY BranchIdsClosed
  <2> QED BY <1>1, <2>1 DEF Rooted, KeepsBranches, SameLinks
<1> QED BY <1>1 DEF AllRooted, SameTicks

LEMMA SameTicksKept ==
  ASSUME NEW s1, NEW s2, TicksShaped(s1.ticks), SameTicks(s1.ticks, s2.ticks),
         s2.tick_ids = s1.tick_ids
  PROVE  KeepsIds(s1, s2)
<1>1. ASSUME NEW t \in Ticks, NEW i
      PROVE  /\ WasOut(s2, t, i) <=> WasOut(s1, t, i)
             /\ Standing(s2, t, i) = Standing(s1, t, i)
  BY DEF SameTicks, WasOut, Standing
<1>2. \A t \in Ticks : s1.ticks[t].total_ids <= s2.ticks[t].total_ids
  <2>1. \A t \in Ticks : s1.ticks[t].total_ids \in Nat
    BY DEF TicksShaped
  <2> QED BY <2>1 DEF SameTicks
<1> QED BY <1>1, <1>2 DEF KeepsIds

LEMMA SameLinked ==
  ASSUME NEW s1, NEW s2, Linked(s1), Shape(s2), Same(s1, s2)
  PROVE  Linked(s2) /\ Keeps(s1, s2)
<1>1. KeepsBranches(s1.branches, s2.branches)
  BY DEF Same, SameFields, KeepsBranches
<1>2. KeepsIds(s1, s2) /\ AllRooted(s2, 0)
  BY <1>1, SameTicksKept, SameRooted DEF Linked, Shape, Same
<1>3. Forest(s2.branches, s2.vault.total, s2.vault.current)
  BY SameForest DEF Linked, Same
<1>4. TopLinked(s2.vault, s2.branches)
  BY DEF Linked, TopLinked, Same, SameFields, SameLinks, Forest, Woods
<1> QED BY <1>1, <1>2, <1>3, <1>4 DEF Linked, Keeps

LEMMA RebuiltLinked ==
  ASSUME NEW s, Linked(s), NEW r, HasFields(r, StoreFields), HasFields(r.vault, VaultFields),
         r.vault.liquidated = s.vault.liquidated, r.vault.top = s.vault.top,
         r.vault.current = s.vault.current, r.vault.total = s.vault.total,
         IndexOK(r.bits), TicksShaped(r.ticks), SameTicks(s.ticks, r.ticks),
         r.tick_ids = s.tick_ids, r.branches = s.branches
  PROVE  Linked(r) /\ Keeps(s, r)
<1>1. Shape(r)
  BY DEF Linked, Shape
<1>2. Same(s, r)
  BY DEF Same, SameFields, SameLinks
<1> QED BY <1>1, <1>2, SameLinked

LEMMA LeaveBranchLinked ==
  ASSUME NEW s, Linked(s), NEW branch, NEW debt
  PROVE  /\ Linked(LeaveBranch(s, branch, debt)) /\ Keeps(s, LeaveBranch(s, branch, debt))
         /\ LeaveBranch(s, branch, debt).ticks = s.ticks
<1> DEFINE r == LeaveBranch(s, branch, debt)
<1>1. PICK left : r = [s EXCEPT !.branches[branch].debt = left]
  BY DEF LeaveBranch
<1>2. HasFields(s, StoreFields) /\ BranchesShaped(s.branches)
  BY DEF Linked, Shape
<1> HIDE DEF r
<1>3. /\ HasFields(r, StoreFields) /\ r.branches = [s.branches EXCEPT ![branch].debt = left]
      /\ r.vault = s.vault /\ r.bits = s.bits /\ r.ticks = s.ticks /\ r.tick_ids = s.tick_ids
  BY <1>1, <1>2 DEF HasFields, StoreFields
<1>4. ASSUME NEW b \in BranchIds
      PROVE  HasFields(r.branches[b], BranchFields) /\ SameFields(s.branches[b], r.branches[b])
  <2>1. HasFields(s.branches[b], BranchFields)
    BY <1>2 DEF BranchesShaped
  <2>2. \/ r.branches[b] = s.branches[b]
        \/ r.branches[b] = [s.branches[b] EXCEPT !.debt = left]
    BY <1>2, <1>3 DEF BranchesShaped
  <2> QED BY <2>1, <2>2 DEF HasFields, BranchFields, SameFields, SameLinks
<1>5. BranchesShaped(r.branches)
  BY <1>2, <1>3, <1>4 DEF BranchesShaped
<1>6. Shape(r)
  BY <1>3, <1>5 DEF Linked, Shape
<1>7. Same(s, r)
  BY <1>3, <1>4 DEF Same, SameTicks
<1> QED BY <1>3, <1>6, <1>7, SameLinked DEF r

(* A tick has another debt, and the index perhaps other bits.                *)
LEMMA RawDebtLinked ==
  ASSUME NEW s, Linked(s), NEW t, NEW x, NEW b, IndexOK(b), NEW r,
         \/ r = [s EXCEPT !.ticks[t].raw_debt = x]
         \/ r = [s EXCEPT !.ticks[t].raw_debt = x, !.bits = b]
  PROVE  Linked(r) /\ Keeps(s, r) /\ SameTicks(s.ticks, r.ticks)
<1> DEFINE ts == [s.ticks EXCEPT ![t].raw_debt = x]
<1>1. /\ HasFields(s, StoreFields) /\ TicksShaped(s.ticks) /\ HasFields(s.vault, VaultFields)
      /\ IndexOK(s.bits)
  BY DEF Linked, Shape
<1>2. /\ HasFields(r, StoreFields) /\ r.vault = s.vault /\ r.bits \in {b, s.bits}
      /\ r.ticks = ts /\ r.tick_ids = s.tick_ids /\ r.branches = s.branches
  BY <1>1 DEF HasFields, StoreFields
<1>3. ASSUME NEW u \in Ticks
      PROVE  /\ HasFields(ts[u], TickFields) /\ ts[u].is_liquidated = s.ticks[u].is_liquidated
             /\ ts[u].total_ids = s.ticks[u].total_ids
             /\ ts[u].liquidation = s.ticks[u].liquidation
  <2>1. \/ ts[u] = s.ticks[u]
        \/ ts[u] = [s.ticks[u] EXCEPT !.raw_debt = x]
    BY <1>1 DEF TicksShaped
  <2>2. HasFields(s.ticks[u], TickFields)
    BY <1>1 DEF TicksShaped
  <2> HIDE DEF ts
  <2> QED BY <2>1, <2>2 DEF HasFields, TickFields
<1>4. TicksShaped(ts) /\ SameTicks(s.ticks, ts)
  <2>1. ts = [u \in Ticks |-> ts[u]]
    BY <1>1 DEF TicksShaped
  <2> HIDE DEF ts
  <2> QED BY <2>1, <1>1, <1>3 DEF TicksShaped, SameTicks
<1> HIDE DEF ts
<1>5. IndexOK(r.bits)
  BY <1>1, <1>2
<1>6. Linked(r) /\ Keeps(s, r)
  BY <1>1, <1>2, <1>4, <1>5, RebuiltLinked
<1> QED BY <1>2, <1>4, <1>6

-----------------------------------------------------------------------------
(* Branches are opened and given back.                                     *)

(* The branch that was never liquidated goes, and k is on top.              *)
LEMMA ResetForest ==
  ASSUME NEW br, NEW c, NEW k, Woods(br, c), Tip(br, k), k # 0,
         br = [b \in BranchIds |-> br[b]], br[c].status = "not_liquidated",
         \A b \in BranchIds : b < c => br[b].status # "not_liquidated"
  PROVE  /\ Forest([br EXCEPT ![c] = EmptyBranch], c - 1, k)
         /\ KeepsBranches(br, [br EXCEPT ![c] = EmptyBranch])
         /\ [br EXCEPT ![c] = EmptyBranch][k].status = "liquidated"
<1> DEFINE br2 == [br EXCEPT ![c] = EmptyBranch]
<1>1. c \in BranchIds /\ k \in BranchIds /\ br[k].status = "liquidated"
  BY DEF Woods, Tip
<1>2. \A b \in BranchIds : br2[b] = IF b = c THEN EmptyBranch ELSE br[b]
  OBVIOUS
<1>3. EmptyBranch.status = "not_liquidated"
  BY DEF EmptyBranch
<1> HIDE DEF br2
<1>4. k < c
  <2>1. k # c /\ ~(k > c)
    BY <1>1 DEF Woods
  <2> QED BY <2>1, <1>1, BranchIdsClosed
<1>5. c - 1 \in BranchIds /\ k <= c - 1
  BY <1>1, <1>4, BranchIdsClosed, StoreAssumption DEF BranchIds
<1>6. ASSUME NEW b \in BranchIds, b # c, Chained(br, b) PROVE Chained(br2, b)
  <2>1. br[b].connected # 0 => br[b].connected \in BranchIds /\ br[b].connected # c
    BY <1>6, BranchIdsClosed DEF Chained
  <2> QED BY <1>2, <1>3, <1>6, <2>1 DEF Chained
<1>7. Woods(br2, c - 1)
  <2>1. ASSUME NEW b \in BranchIds, b > c - 1 PROVE br2[b].status = "not_liquidated"
    <3>1. b = c \/ b > c
      BY <1>1, <2>1, BranchIdsClosed
    <3> QED BY <3>1, <1>2, <1>3 DEF Woods
  <2>2. ASSUME NEW b \in BranchIds, br2[b].status = "merged"
        PROVE  /\ br2[b].connected \in 1 .. b - 1
               /\ br2[br2[b].connected].status # "not_liquidated"
    <3>1. b # c /\ br2[b] = br[b]
      BY <2>2, <1>2, <1>3
    <3>2. br[b].connected \in 1 .. b - 1 /\ br[br[b].connected].status # "not_liquidated"
      BY <2>2, <3>1 DEF Woods
    <3>3. br[b].connected \in BranchIds /\ br[b].connected # c
      BY <3>2, BranchIdsClosed
    <3> QED BY <3>1, <3>2, <3>3, <1>2
  <2>3. ASSUME NEW b \in BranchIds, br2[b].status = "liquidated"
        PROVE  Chained(br2, b) /\ br2[b].minima_tick \in MIN_TICK .. MAX_TICK + 2
    <3>1. b # c /\ br2[b] = br[b]
      BY <2>3, <1>2, <1>3
    <3> QED BY <3>1, <2>3, <1>6 DEF Woods
  <2> QED BY <1>5, <2>1, <2>2, <2>3 DEF Woods
<1>8. Chained(br2, k) /\ br2[k].status = "liquidated"
  BY <1>1, <1>2, <1>4, <1>6, BranchIdsClosed DEF Woods
<1>9. ASSUME NEW b \in BranchIds
      PROVE  /\ b <= c - 1 => br2[b].status # "not_liquidated"
             /\ b > k => br2[b].status # "liquidated"
  BY <1>1, <1>2, <1>3, BranchIdsClosed DEF Tip
<1>10. Forest(br2, c - 1, k)
  BY <1>1, <1>5, <1>7, <1>8, <1>9 DEF Forest
<1>11. KeepsBranches(br, br2)
  BY <1>2 DEF KeepsBranches, SameLinks
<1> QED BY <1>8, <1>10, <1>11 DEF br2

(* The new branch that is opened over k, which ended at m.                  *)
Opened(k, m) == [EmptyBranch EXCEPT !.connected = k, !.connected_minima_tick = m]

LEMMA OpenForest ==
  ASSUME NEW br, NEW total, NEW c, NEW k, NEW m, Woods(br, total), Tip(br, k),
         br = [b \in BranchIds |-> br[b]], c \in BranchIds, total <= c, k < c, k \in Nat,
         br[c].status = "not_liquidated", c <= total + 1,
         \A b \in BranchIds : b < c => br[b].status # "not_liquidated",
         m \in Ticks \union {COLD_TICK}, m = COLD_TICK <=> k = 0
  PROVE  /\ Forest([br EXCEPT ![c] = Opened(k, m)], c, c)
         /\ KeepsBranches(br, [br EXCEPT ![c] = Opened(k, m)])
         /\ [br EXCEPT ![c] = Opened(k, m)][c].status = "not_liquidated"
<1> DEFINE e == Opened(k, m)
           br2 == [br EXCEPT ![c] = e]
<1>1. \A b \in BranchIds : br2[b] = IF b = c THEN e ELSE br[b]
  OBVIOUS
<1>2. e.status = "not_liquidated" /\ e.connected = k /\ e.connected_minima_tick = m
  BY DEF EmptyBranch, Opened
<1> HIDE DEF br2, e
<1>3. ASSUME NEW b \in BranchIds, b # c, Chained(br, b) PROVE Chained(br2, b)
  <2>1. br[b].connected # 0 => br[b].connected \in BranchIds /\ br[b].connected # c
    BY <1>3, BranchIdsClosed DEF Chained
  <2> QED BY <1>1, <1>2, <1>3, <2>1 DEF Chained
<1>4. Chained(br2, c)
  <2>1. k \in 0 .. c - 1
    BY BranchIdsClosed
  <2>2. k # 0 => br2[k].status = "liquidated"
    BY <1>1 DEF Tip
  <2>3. \A d \in BranchIds : k < d /\ d < c => br2[d].status # "liquidated"
    BY <1>1, BranchIdsClosed DEF Tip
  <2>4. br2[c] = e
    BY <1>1
  <2> QED BY <1>2, <2>1, <2>2, <2>3, <2>4 DEF Chained
<1>5. Woods(br2, c)
  <2>1. ASSUME NEW b \in BranchIds, b > c PROVE br2[b].status = "not_liquidated"
    <3>1. b # c /\ b > total
      BY <2>1, BranchIdsClosed DEF Woods
    <3> QED BY <3>1, <1>1 DEF Woods
  <2>2. ASSUME NEW b \in BranchIds, br2[b].status = "merged"
        PROVE  /\ br2[b].connected \in 1 .. b - 1
               /\ br2[br2[b].connected].status # "not_liquidated"
    <3>1. b # c /\ br2[b] = br[b]
      BY <2>2, <1>1, <1>2
    <3>2. br[b].connected \in 1 .. b - 1 /\ br[br[b].connected].status # "not_liquidated"
      BY <2>2, <3>1 DEF Woods
    <3>3. br[b].connected \in BranchIds /\ br[b].connected # c
      BY <3>2, BranchIdsClosed
    <3> QED BY <3>1, <3>2, <3>3, <1>1
  <2>3. ASSUME NEW b \in BranchIds, br2[b].status = "liquidated"
        PROVE  Chained(br2, b) /\ br2[b].minima_tick \in MIN_TICK .. MAX_TICK + 2
    <3>1. b # c /\ br2[b] = br[b]
      BY <2>3, <1>1, <1>2
    <3> QED BY <3>1, <2>3, <1>3 DEF Woods
  <2> QED BY <2>1, <2>2, <2>3 DEF Woods
<1>6. ASSUME NEW b \in BranchIds
      PROVE  /\ b <= c /\ br2[b].status = "not_liquidated" => b = c
             /\ b > c => br2[b].status # "liquidated"
  <2>1. CASE b < c
    BY <2>1, <1>1, BranchIdsClosed
  <2>2. CASE b = c
    BY <2>2, BranchIdsClosed
  <2>3. CASE b > c
    BY <2>3, <1>5, BranchIdsClosed DEF Woods
  <2> QED BY <2>1, <2>2, <2>3, BranchIdsClosed
<1>7. br2[c].status = "not_liquidated"
  BY <1>1, <1>2
<1>8. Forest(br2, c, c)
  BY <1>4, <1>5, <1>6, <1>7, BranchIdsClosed DEF Forest
<1>9. KeepsBranches(br, br2)
  BY <1>1 DEF KeepsBranches, SameLinks
<1> QED BY <1>7, <1>8, <1>9 DEF br2, e

LEMMA NewBranchShaped ==
  ASSUME NEW br, BranchesShaped(br), NEW c, NEW e, HasFields(e, BranchFields)
  PROVE  BranchesShaped([br EXCEPT ![c] = e])
BY DEF BranchesShaped

LEMMA EmptyShaped == HasFields(EmptyBranch, BranchFields)
BY DEF EmptyBranch, HasFields, BranchFields

LEMMA OpenedShaped ==
  ASSUME NEW k, NEW m
  PROVE  HasFields(Opened(k, m), BranchFields)
BY DEF Opened, EmptyBranch, HasFields, BranchFields

-----------------------------------------------------------------------------
(* operate: a position leaves its tick or its branch.                      *)

LEMMA ForestTip ==
  ASSUME NEW br, NEW total, NEW c, Forest(br, total, c)
  PROVE  /\ br[c].status = "not_liquidated" =>
              /\ c = total /\ Tip(br, br[c].connected) /\ br[c].connected \in 0 .. c - 1
              /\ \A b \in BranchIds : b < c => br[b].status # "not_liquidated"
         /\ br[c].status = "liquidated" =>
              /\ Tip(br, c)
              /\ \A b \in BranchIds : b <= total => br[b].status # "not_liquidated"
<1>1. c \in BranchIds /\ total \in BranchIds /\ c <= total
  BY DEF Forest, Woods
<1>2. ASSUME br[c].status = "not_liquidated"
      PROVE  /\ c = total /\ Tip(br, br[c].connected)
             /\ br[c].connected \in 0 .. c - 1
             /\ \A b \in BranchIds : b < c => br[b].status # "not_liquidated"
  <2>1. c = total
    BY <1>1, <1>2 DEF Forest
  <2> DEFINE k == br[c].connected
  <2>2. k \in 0 .. c - 1 /\ (k # 0 => k \in BranchIds /\ br[k].status = "liquidated")
    BY <1>1, BranchIdsClosed DEF Forest, Chained
  <2>3. ASSUME NEW b \in BranchIds, b > k PROVE br[b].status # "liquidated"
    <3>1. CASE b < c
      BY <3>1, <2>3 DEF Forest, Chained
    <3>2. CASE b = c
      BY <3>2, <1>2
    <3>3. CASE b > c
      BY <3>3 DEF Forest
    <3> QED BY <3>1, <3>2, <3>3, <1>1, BranchIdsClosed
  <2>4. \A b \in BranchIds : b < c => br[b].status # "not_liquidated"
    BY <1>1, BranchIdsClosed DEF Forest
  <2> QED BY <2>1, <2>2, <2>3, <2>4 DEF Tip
<1>3. ASSUME br[c].status = "liquidated"
      PROVE  /\ Tip(br, c)
             /\ \A b \in BranchIds : b <= total => br[b].status # "not_liquidated"
  BY <1>1, <1>3 DEF Forest, Tip
<1> QED BY <1>2, <1>3

LEMMA SetTopTickLinked ==
  ASSUME NEW s, Linked(s), ~s.vault.liquidated, s.vault.top \in Ticks
  PROVE  /\ Linked(SetTopTick(s)) /\ Keeps(s, SetTopTick(s)) /\ SetTopTick(s).ticks = s.ticks
<1> DEFINE r    == SetTopTick(s)
           id   == s.vault.current
           cur  == s.branches[id]
           cut  == ClearBits(s.bits, s.vault.top)
           next == NextTickFrom(cut, PlaceOf(s.vault.top))
<1>1. /\ HasFields(s, StoreFields) /\ HasFields(s.vault, VaultFields) /\ IndexOK(s.bits)
      /\ TicksShaped(s.ticks) /\ BranchesShaped(s.branches)
      /\ s.tick_ids = [q \in Records |-> s.tick_ids[q]]
      /\ Forest(s.branches, s.vault.total, id) /\ cur.status = "not_liquidated"
      /\ AllRooted(s, 0)
  BY DEF Linked, Shape, TopLinked
<1>2. IndexOK(cut)
  BY <1>1, ClearedIndex
<1>3. next \in Ticks \union {COLD_TICK} /\ next \in COLD_TICK .. MAX_TICK + 2
  <2>1. s.vault.top \in Int /\ MIN_TICK <= s.vault.top /\ s.vault.top <= MAX_TICK + 1
    BY TickRange DEF Ticks
  <2>2. next \in Ticks \union {COLD_TICK}
    BY <1>2, <2>1, PlaceLeadsBack, NextTickFromTyped
  <2> HIDE DEF next
  <2> QED BY <2>2, TickRange
<1> HIDE DEF cut, next
<1>4. CASE cur.connected_minima_tick <= next
  <2>1. r = [s EXCEPT !.bits = cut, !.vault.top = next, !.vault.liquidated = FALSE]
    BY <1>4 DEF SetTopTick, cut, next
  <2> HIDE DEF r
  <2>2. /\ HasFields(r, StoreFields) /\ r.bits = cut /\ r.ticks = s.ticks
        /\ r.tick_ids = s.tick_ids /\ r.branches = s.branches
        /\ r.vault = [s.vault EXCEPT !.top = next, !.liquidated = FALSE]
    BY <1>1, <2>1 DEF HasFields, StoreFields
  <2>3. /\ HasFields(r.vault, VaultFields) /\ r.vault.top = next /\ ~r.vault.liquidated
        /\ r.vault.current = id /\ r.vault.total = s.vault.total
    BY <1>1, <2>2 DEF HasFields, VaultFields
  <2>4. Shape(r)
    BY <1>1, <1>2, <2>2, <2>3 DEF Shape
  <2>5. TopLinked(r.vault, r.branches)
    BY <1>1, <1>3, <2>2, <2>3 DEF TopLinked
  <2>6. Linked(r)
    BY <1>1, <2>2, <2>3, <2>4, <2>5 DEF Linked, AllRooted
  <2>7. Keeps(s, r)
    BY <1>1, <2>2, SameTicksKept DEF Keeps, KeepsBranches, SameLinks, SameTicks
  <2> QED BY <2>2, <2>6, <2>7 DEF r
<1>5. CASE ~(cur.connected_minima_tick <= next)
  <2> DEFINE k == cur.connected
  <2>1. r = [s EXCEPT !.bits = cut, !.branches[id] = EmptyBranch,
                      !.vault.liquidated = TRUE, !.vault.top = cur.connected_minima_tick,
                      !.vault.current = cur.connected, !.vault.total = id - 1]
    BY <1>5 DEF SetTopTick, cut, next
  <2> HIDE DEF r
  <2>2. /\ HasFields(r, StoreFields) /\ r.bits = cut /\ r.ticks = s.ticks
        /\ r.tick_ids = s.tick_ids /\ r.branches = [s.branches EXCEPT ![id] = EmptyBranch]
        /\ r.vault = [s.vault EXCEPT !.liquidated = TRUE, !.top = cur.connected_minima_tick,
                                     !.current = cur.connected, !.total = id - 1]
    BY <1>1, <2>1 DEF HasFields, StoreFields
  <2>3. /\ HasFields(r.vault, VaultFields) /\ r.vault.top = cur.connected_minima_tick
        /\ r.vault.liquidated /\ r.vault.current = k /\ r.vault.total = id - 1
    BY <1>1, <2>2 DEF HasFields, VaultFields
  <2>4. cur.connected_minima_tick # COLD_TICK
    <3>1. COLD_TICK <= next
      BY <1>3, TickRange
    <3> QED BY <3>1, <1>5
  <2>5. Chained(s.branches, id)
    BY <1>1 DEF Forest
  <2>6. k # 0 /\ cur.connected_minima_tick \in COLD_TICK .. MAX_TICK + 2
    BY <2>4, <2>5, TickWindow DEF Chained
  <2>7. /\ id = s.vault.total /\ Woods(s.branches, id) /\ Tip(s.branches, k)
        /\ \A b \in BranchIds : b < id => s.branches[b].status # "not_liquidated"
    <3>1. id = s.vault.total /\ Tip(s.branches, k)
          /\ \A b \in BranchIds : b < id => s.branches[b].status # "not_liquidated"
      BY <1>1, ForestTip
    <3> QED BY <3>1, <1>1 DEF Forest
  <2>8. /\ Forest(r.branches, id - 1, k) /\ KeepsBranches(s.branches, r.branches)
        /\ r.branches[k].status = "liquidated"
    <3>1. s.branches = [b \in BranchIds |-> s.branches[b]]
      BY <1>1 DEF BranchesShaped
    <3> HIDE DEF k
    <3> QED BY <3>1, <2>2, <2>6, <2>7, <1>1, ResetForest
  <2>9. Shape(r)
    <3>1. BranchesShaped(r.branches)
      BY <1>1, <2>2, NewBranchShaped, EmptyShaped
    <3> QED BY <3>1, <1>1, <1>2, <2>2, <2>3 DEF Shape
  <2>10. AllRooted(r, 0)
    BY <1>1, <2>2, <2>8, SameRooted DEF SameTicks
  <2>11. TopLinked(r.vault, r.branches)
    BY <2>3, <2>4, <2>6, <2>8 DEF TopLinked
  <2>12. Linked(r)
    BY <2>3, <2>8, <2>9, <2>10, <2>11 DEF Linked
  <2>13. Keeps(s, r)
    BY <1>1, <2>2, <2>8, SameTicksKept DEF Keeps, SameTicks
  <2> QED BY <2>2, <2>12, <2>13 DEF r
<1> QED BY <1>4, <1>5

(* On top of the vault stands no whole tick where a liquidation ended.      *)
Bare(s) ==
  (s.vault.liquidated /\ s.vault.top \in Ticks) =>
    s.ticks[s.vault.top].raw_debt = 0 \/ s.ticks[s.vault.top].is_liquidated

LEMMA LeaveTickLinked ==
  ASSUME NEW s, Linked(s), Bare(s), NEW m, m.tick \in Ticks, s.ticks[m.tick].raw_debt # 0,
         ~s.ticks[m.tick].is_liquidated
  PROVE  /\ Linked(LeaveTick(s, m)) /\ Keeps(s, LeaveTick(s, m))
         /\ SameTicks(s.ticks, LeaveTick(s, m).ticks)
<1> DEFINE rest == SaturatingSub(s.ticks[m.tick].raw_debt, m.debt)
           top  == IF m.tick = s.vault.top THEN SetTopTick(s) ELSE s
           r    == LeaveTick(s, m)
           b    == ClearBit(top.bits, m.tick)
<1>1. \/ r = [s EXCEPT !.ticks[m.tick].raw_debt = rest]
      \/ r = [top EXCEPT !.ticks[m.tick].raw_debt = 0, !.bits = ClearBit(@, m.tick)]
  BY DEF LeaveTick
<1>2. Linked(top) /\ Keeps(s, top) /\ top.ticks = s.ticks
  <2>1. CASE m.tick = s.vault.top
    BY <2>1, SetTopTickLinked DEF Bare
  <2>2. CASE m.tick # s.vault.top
    <3>1. Same(s, s) /\ Shape(s)
      BY DEF Same, SameTicks, SameFields, SameLinks, Linked
    <3> QED BY <2>2, <3>1, SameLinked
  <2> QED BY <2>1, <2>2
<1> HIDE DEF top, rest
<1>3. IndexOK(b) /\ IndexOK(s.bits) /\ TicksShaped(s.ticks) /\ HasFields(top, StoreFields)
  BY <1>2, ClearedIndex DEF Linked, Shape
<1>4. \/ r = [s EXCEPT !.ticks[m.tick].raw_debt = rest]
      \/ r = [top EXCEPT !.ticks[m.tick].raw_debt = 0, !.bits = b]
  BY <1>1, <1>3 DEF HasFields, StoreFields
<1> HIDE DEF b, r
<1>5. CASE r = [s EXCEPT !.ticks[m.tick].raw_debt = rest]
  <2>1. Linked(r) /\ Keeps(s, r) /\ SameTicks(s.ticks, r.ticks)
    BY <1>3, <1>5, RawDebtLinked
  <2> QED BY <2>1 DEF r
<1>6. CASE r = [top EXCEPT !.ticks[m.tick].raw_debt = 0, !.bits = b]
  <2>1. Linked(r) /\ Keeps(top, r) /\ SameTicks(top.ticks, r.ticks)
    BY <1>2, <1>3, <1>6, RawDebtLinked
  <2>2. Keeps(s, r)
    BY <1>2, <2>1, KeepsTransitive DEF Linked, Shape
  <2> QED BY <1>2, <2>1, <2>2 DEF r
<1> QED BY <1>4, <1>5, <1>6

LEMMA DustLinked ==
  ASSUME NEW s, Linked(s), NEW x
  PROVE  /\ Linked([s EXCEPT !.vault.absorbed_dust = x])
         /\ Keeps(s, [s EXCEPT !.vault.absorbed_dust = x])
         /\ [s EXCEPT !.vault.absorbed_dust = x].ticks = s.ticks
<1> DEFINE r == [s EXCEPT !.vault.absorbed_dust = x]
<1>1. /\ HasFields(s, StoreFields) /\ HasFields(s.vault, VaultFields) /\ IndexOK(s.bits)
      /\ TicksShaped(s.ticks)
  BY DEF Linked, Shape
<1>2. /\ HasFields(r, StoreFields) /\ r.bits = s.bits /\ r.ticks = s.ticks
      /\ r.tick_ids = s.tick_ids /\ r.branches = s.branches
      /\ r.vault = [s.vault EXCEPT !.absorbed_dust = x]
  BY <1>1 DEF HasFields, StoreFields
<1> HIDE DEF r
<1>3. /\ HasFields(r.vault, VaultFields) /\ r.vault.liquidated = s.vault.liquidated
      /\ r.vault.top = s.vault.top /\ r.vault.current = s.vault.current
      /\ r.vault.total = s.vault.total
  BY <1>1, <1>2 DEF HasFields, VaultFields
<1>4. SameTicks(s.ticks, r.ticks)
  BY <1>2 DEF SameTicks
<1>5. Linked(r) /\ Keeps(s, r)
  BY <1>1, <1>2, <1>3, <1>4, RebuiltLinked
<1> QED BY <1>2, <1>5 DEF r

LEMMA DetachLinked ==
  ASSUME NEW s, Linked(s), Bare(s), NEW m, m.tick \in Ticks \union {COLD_TICK}, CanDetach(s, m)
  PROVE  /\ Linked(Detach(s, m).store) /\ Keeps(s, Detach(s, m).store)
         /\ SameTicks(s.ticks, Detach(s, m).store.ticks)
<1> DEFINE latest == LatestPosition(s, m)
           now    == latest.memory
<1>0. Shape(s) /\ Same(s, s)
  BY DEF Same, SameTicks, SameFields, SameLinks, Linked
<1>1. CASE m.tick = COLD_TICK
  <2>1. Detach(s, m).store = s
    BY <1>1 DEF Detach
  <2> QED BY <2>1, <1>0, SameLinked DEF Same
<1>2. CASE m.tick # COLD_TICK /\ ~WasLiquidated(s, m)
  <2>1. Detach(s, m).store = LeaveTick(s, m)
    BY <1>2 DEF Detach
  <2>2. m.tick \in Ticks /\ s.ticks[m.tick].raw_debt # 0 /\ ~s.ticks[m.tick].is_liquidated
    BY <1>2 DEF CanDetach, WasLiquidated
  <2> QED BY <2>1, <2>2, LeaveTickLinked
<1>3. CASE m.tick # COLD_TICK /\ WasLiquidated(s, m)
  <2>1. \/ Detach(s, m).store = LeaveBranch(s, latest.branch, now.debt)
        \/ Detach(s, m).store = [s EXCEPT !.vault.absorbed_dust = @ + m.dust - now.debt]
    BY <1>3 DEF Detach
  <2> HIDE DEF latest, now
  <2>2. \/ Detach(s, m).store = LeaveBranch(s, latest.branch, now.debt)
        \/ \E x : Detach(s, m).store = [s EXCEPT !.vault.absorbed_dust = x]
    BY <2>1
  <2>3. CASE Detach(s, m).store = LeaveBranch(s, latest.branch, now.debt)
    BY <2>3, LeaveBranchLinked DEF SameTicks
  <2>4. CASE \E x : Detach(s, m).store = [s EXCEPT !.vault.absorbed_dust = x]
    BY <2>4, DustLinked DEF SameTicks
  <2> QED BY <2>2, <2>3, <2>4
<1> QED BY <1>1, <1>2, <1>3

-----------------------------------------------------------------------------
(* operate: a position joins a tick, which may become the top.             *)

LEMMA RecordsDiffer ==
  ASSUME NEW t, NEW u, NEW i \in Nat, NEW j \in Nat, Record(t, i) = Record(u, j)
  PROVE  t = u /\ i = j
<1>1. t = u /\ (i + 2) \div 3 = (j + 2) \div 3 /\ ((i + 2) % 3) = ((j + 2) % 3)
  BY DEF Record, TickMap, Slot
<1>2. i + 2 = j + 2
  <2>1. i + 2 \in Nat /\ j + 2 \in Nat /\ 3 \in Nat \ {0}
    OBVIOUS
  <2>2. /\ i + 2 = 3 * ((i + 2) \div 3) + ((i + 2) % 3)
        /\ j + 2 = 3 * ((j + 2) \div 3) + ((j + 2) % 3)
    BY <2>1, QuotientAndRest
  <2> QED BY <1>1, <2>2
<1> QED BY <1>1, <1>2

LEMMA AttachLinked ==
  ASSUME NEW s, Linked(s), NEW col, NEW net, CanAttach(s, col, net)
  PROVE  LET a == Attach(s, col, net)
         IN  /\ Linked(a.store) /\ Keeps(s, a.store)
             /\ a.memory.tick \in Ticks
             /\ a.memory.tick_id \in 1 .. a.store.ticks[a.memory.tick].total_ids
<1> DEFINE a     == Attach(s, col, net)
           r     == a.store
           tick  == TargetTick(col, net)
           old   == s.ticks[tick]
           fresh == NeedsNewId(s, tick)
           id    == IF fresh THEN old.total_ids + 1 ELSE old.total_ids
           debt  == RawDebtAt(col, net)
           new   == [is_liquidated |-> FALSE, total_ids |-> id, liquidation |-> NoLiquidation,
                     raw_debt |-> IF fresh THEN debt ELSE old.raw_debt + debt]
           moved == fresh /\ old.total_ids > 0
           ids_  == IF moved THEN [s.tick_ids EXCEPT ![Record(tick, old.total_ids)] = old.liquidation]
                    ELSE s.tick_ids
<1>1. /\ HasFields(s, StoreFields) /\ HasFields(s.vault, VaultFields) /\ IndexOK(s.bits)
      /\ TicksShaped(s.ticks) /\ BranchesShaped(s.branches) /\ AllRooted(s, 0)
      /\ s.tick_ids = [q \in Records |-> s.tick_ids[q]]
  BY DEF Linked, Shape
<1>2. tick \in Ticks /\ (fresh => old.total_ids < MaxTickIds)
  BY DEF CanAttach
<1>3. /\ r = [s EXCEPT !.ticks[tick] = new,
                       !.tick_ids = IF moved THEN [@ EXCEPT ![Record(tick, old.total_ids)] = old.liquidation]
                                    ELSE @,
                       !.bits = SetBit(@, tick)]
      /\ a.memory.tick = tick /\ a.memory.tick_id = id
  BY DEF Attach
<1> HIDE DEF tick, debt
<1>4. /\ old.total_ids \in 0 .. MaxTickIds /\ (fresh <=> old.total_ids = 0 \/ old.is_liquidated)
      /\ id \in 1 .. MaxTickIds
  <2>1. old.total_ids \in 0 .. MaxTickIds
    BY <1>1, <1>2 DEF TicksShaped
  <2>2. fresh <=> old.total_ids = 0 \/ old.is_liquidated
    BY DEF NeedsNewId
  <2> QED BY <2>1, <2>2, <1>2, StoreAssumption
<1> HIDE DEF a, fresh
<1>5. /\ HasFields(r, StoreFields) /\ r.vault = s.vault /\ r.bits = SetBit(s.bits, tick)
      /\ r.branches = s.branches
      /\ r.ticks = [s.ticks EXCEPT ![tick] = new] /\ r.tick_ids = ids_
  BY <1>1, <1>3 DEF HasFields, StoreFields
<1> HIDE DEF r
<1>6. \A t \in Ticks : r.ticks[t] = IF t = tick THEN new ELSE s.ticks[t]
  BY <1>1, <1>5 DEF TicksShaped
<1>7. /\ new.is_liquidated = FALSE /\ new.total_ids = id /\ HasFields(new, TickFields)
      /\ HasFields(new.liquidation, LiquidationFields)
  BY DEF NoLiquidation, Liquidation, HasFields, TickFields, LiquidationFields
<1> HIDE DEF new
<1>8. TicksShaped(r.ticks)
  <2>1. r.ticks = [t \in Ticks |-> r.ticks[t]]
    BY <1>1, <1>5 DEF TicksShaped
  <2>2. id \in 0 .. MaxTickIds
    BY <1>4
  <2> HIDE DEF id
  <2> QED BY <2>1, <2>2, <1>1, <1>6, <1>7 DEF TicksShaped
<1>9. r.tick_ids = [q \in Records |-> r.tick_ids[q]]
  BY <1>1, <1>5
<1>10. Shape(r)
  BY <1>1, <1>2, <1>5, <1>8, <1>9, ExtendedIndex DEF Shape
<1>11. ASSUME NEW t \in Ticks, NEW i \in 1 .. MaxTickIds
       PROVE  r.tick_ids[Record(t, i)] = IF moved /\ t = tick /\ i = old.total_ids
                                         THEN old.liquidation ELSE s.tick_ids[Record(t, i)]
  <2>1. CASE ~moved
    BY <1>5, <2>1
  <2>2. CASE moved
    <3>1. Record(t, i) \in Records
      BY DEF Records
    <3>2. Record(t, i) = Record(tick, old.total_ids) <=> t = tick /\ i = old.total_ids
      <4>1. i \in Nat /\ old.total_ids \in Nat
        BY <1>4
      <4> QED BY <4>1, RecordsDiffer
    <3>3. r.tick_ids = [s.tick_ids EXCEPT ![Record(tick, old.total_ids)] = old.liquidation]
      BY <1>5, <2>2
    <3>4. Record(t, i) \in DOMAIN s.tick_ids
      BY <3>1, <1>1
    <3> HIDE DEF moved
    <3> QED BY <2>2, <3>2, <3>3, <3>4
  <2> QED BY <2>1, <2>2
<1>12. ASSUME NEW t \in Ticks, NEW i \in 1 .. s.ticks[t].total_ids
       PROVE  /\ WasOut(r, t, i) <=> WasOut(s, t, i)
              /\ WasOut(s, t, i) => Standing(r, t, i) = Standing(s, t, i)
  <2>0. s.ticks[t].total_ids \in 0 .. MaxTickIds /\ i \in 1 .. MaxTickIds
    <3>1. s.ticks[t].total_ids \in 0 .. MaxTickIds
      BY <1>1 DEF TicksShaped
    <3> QED BY <3>1, StoreAssumption
  <2>1. CASE t # tick
    <3>1. r.ticks[t] = s.ticks[t] /\ r.tick_ids[Record(t, i)] = s.tick_ids[Record(t, i)]
      BY <2>0, <2>1, <1>6, <1>11
    <3> QED BY <3>1 DEF WasOut, Standing
  <2>2. CASE t = tick /\ ~fresh
    <3>1. /\ r.ticks[t].total_ids = old.total_ids /\ ~r.ticks[t].is_liquidated
          /\ ~old.is_liquidated /\ r.tick_ids[Record(t, i)] = s.tick_ids[Record(t, i)]
      BY <2>0, <2>2, <1>4, <1>6, <1>7, <1>11
    <3> QED BY <3>1, <2>0, <2>2, <1>4 DEF WasOut, Standing
  <2>3. CASE t = tick /\ fresh
    <3>1. /\ r.ticks[t].total_ids = old.total_ids + 1 /\ old.total_ids > 0 /\ moved
          /\ old.is_liquidated
      BY <2>0, <2>3, <1>4, <1>6, <1>7
    <3>2. r.tick_ids[Record(t, i)] = Standing(s, t, i)
      BY <3>1, <2>0, <2>3, <1>11 DEF Standing
    <3> QED BY <3>1, <3>2, <2>0, <2>3, <1>4 DEF WasOut, Standing
  <2> QED BY <2>1, <2>2, <2>3
<1>13. KeepsIds(s, r)
  <2>1. ASSUME NEW t \in Ticks PROVE s.ticks[t].total_ids <= r.ticks[t].total_ids
    <3>1. s.ticks[t].total_ids \in Nat
      BY <1>1 DEF TicksShaped
    <3> QED BY <3>1, <1>4, <1>6, <1>7
  <2> QED BY <2>1, <1>12 DEF KeepsIds
<1>14. Keeps(s, r)
  BY <1>5, <1>13 DEF Keeps, KeepsBranches, SameLinks
<1>15. AllRooted(r, 0)
  <2>1. ASSUME NEW t \in Ticks, r.ticks[t].is_liquidated
        PROVE  Rooted(r.ticks[t].liquidation, r.branches, 0)
    BY <2>1, <1>1, <1>5, <1>6, <1>7 DEF AllRooted
  <2>2. ASSUME NEW t \in Ticks, NEW i \in 1 .. MaxTickIds, i < r.ticks[t].total_ids
        PROVE  Rooted(r.tick_ids[Record(t, i)], r.branches, 0)
    <3>1. CASE moved /\ t = tick /\ i = old.total_ids
      <4>1. old.is_liquidated
        BY <3>1, <1>4
      <4> QED BY <4>1, <3>1, <1>1, <1>5, <1>11 DEF AllRooted
    <3>2. CASE ~(moved /\ t = tick /\ i = old.total_ids)
      <4>1. i < s.ticks[t].total_ids
        BY <2>2, <3>2, <1>4, <1>6, <1>7
      <4>2. r.tick_ids[Record(t, i)] = s.tick_ids[Record(t, i)]
        BY <3>2, <1>11
      <4> QED BY <4>1, <4>2, <1>1, <1>5 DEF AllRooted
    <3> QED BY <3>1, <3>2
  <2> QED BY <2>1, <2>2 DEF AllRooted
<1>16. Linked(r)
  BY <1>5, <1>10, <1>15 DEF Linked
<1>17. a.memory.tick \in Ticks /\ a.memory.tick_id \in 1 .. r.ticks[a.memory.tick].total_ids
  BY <1>2, <1>3, <1>4, <1>6, <1>7
<1> QED BY <1>14, <1>16, <1>17 DEF a, r

LEMMA LinkedToItself ==
  ASSUME NEW s, Linked(s)
  PROVE  Keeps(s, s) /\ SameTicks(s.ticks, s.ticks)
<1>1. Same(s, s) /\ Shape(s) /\ SameTicks(s.ticks, s.ticks)
  BY DEF Same, SameTicks, SameFields, SameLinks, Linked
<1> QED BY <1>1, SameLinked

LEMMA RaiseTopLinked ==
  ASSUME NEW s, Linked(s), NEW tick \in Ticks, CanRaiseTop(s, tick)
  PROVE  /\ Linked(RaiseTop(s, tick)) /\ Keeps(s, RaiseTop(s, tick))
         /\ RaiseTop(s, tick).ticks = s.ticks
<1> DEFINE r  == RaiseTop(s, tick)
           id == s.vault.total + 1
           e  == Opened(s.vault.current, s.vault.top)
<1>1. /\ HasFields(s, StoreFields) /\ HasFields(s.vault, VaultFields) /\ IndexOK(s.bits)
      /\ TicksShaped(s.ticks) /\ BranchesShaped(s.branches) /\ AllRooted(s, 0)
      /\ s.tick_ids = [q \in Records |-> s.tick_ids[q]]
      /\ Forest(s.branches, s.vault.total, s.vault.current) /\ TopLinked(s.vault, s.branches)
  BY DEF Linked, Shape
<1>2. tick \in COLD_TICK .. MAX_TICK + 2 /\ tick <= MAX_TICK /\ tick \in Int
  BY TickWindow, TickRange
<1>3. CASE tick < s.vault.top
  <2>1. r = s
    BY <1>3 DEF RaiseTop
  <2> QED BY <2>1, LinkedToItself
<1>4. CASE ~(tick < s.vault.top) /\ ~s.vault.liquidated
  <2>1. r = [s EXCEPT !.vault.top = tick]
    BY <1>4 DEF RaiseTop
  <2> HIDE DEF r
  <2>2. /\ HasFields(r, StoreFields) /\ r.bits = s.bits /\ r.ticks = s.ticks
        /\ r.tick_ids = s.tick_ids /\ r.branches = s.branches
        /\ r.vault = [s.vault EXCEPT !.top = tick]
    BY <1>1, <2>1 DEF HasFields, StoreFields
  <2>3. /\ HasFields(r.vault, VaultFields) /\ r.vault.top = tick
        /\ r.vault.liquidated = s.vault.liquidated
        /\ r.vault.current = s.vault.current /\ r.vault.total = s.vault.total
    BY <1>1, <2>2 DEF HasFields, VaultFields
  <2>4. Shape(r)
    BY <1>1, <2>2, <2>3 DEF Shape
  <2>5. TopLinked(r.vault, r.branches)
    BY <1>1, <1>2, <1>4, <2>2, <2>3 DEF TopLinked
  <2>6. Linked(r)
    BY <1>1, <2>2, <2>3, <2>4, <2>5 DEF Linked, AllRooted
  <2>7. Keeps(s, r)
    BY <1>1, <2>2, SameTicksKept DEF Keeps, KeepsBranches, SameLinks, SameTicks
  <2> QED BY <2>2, <2>6, <2>7 DEF r
<1>5. CASE ~(tick < s.vault.top) /\ s.vault.liquidated
  <2>1. r = [s EXCEPT !.branches[id] = e, !.vault.top = tick, !.vault.liquidated = FALSE,
                      !.vault.current = id, !.vault.total = id]
    BY <1>5 DEF RaiseTop, Opened
  <2> HIDE DEF r
  <2>2. /\ HasFields(r, StoreFields) /\ r.bits = s.bits /\ r.ticks = s.ticks
        /\ r.tick_ids = s.tick_ids /\ r.branches = [s.branches EXCEPT ![id] = e]
        /\ r.vault = [s.vault EXCEPT !.top = tick, !.liquidated = FALSE, !.current = id,
                                     !.total = id]
    BY <1>1, <2>1 DEF HasFields, StoreFields
  <2>3. /\ HasFields(r.vault, VaultFields) /\ r.vault.top = tick /\ ~r.vault.liquidated
        /\ r.vault.current = id /\ r.vault.total = id
    BY <1>1, <2>2 DEF HasFields, VaultFields
  <2>4. s.vault.top \in Ticks \union {COLD_TICK} /\ s.vault.top # COLD_TICK
    <3>1. s.vault.top \in COLD_TICK .. MAX_TICK + 2 /\ s.vault.top # COLD_TICK
      BY <1>1, <1>5 DEF TopLinked
    <3> QED BY <3>1, <1>2, <1>5, TickRange DEF Ticks
  <2>5. s.vault.total < MaxBranches
    <3>1. s.vault.top \in Int
      BY <2>4, TickRange
    <3>2. tick >= s.vault.top
      BY <3>1, <1>2, <1>5
    <3> QED BY <3>2, <1>5 DEF CanRaiseTop
  <2>6. /\ s.vault.current \in BranchIds /\ s.vault.total \in BranchIds
        /\ s.vault.current <= s.vault.total /\ id \in BranchIds
    <3>1. /\ s.vault.current \in BranchIds /\ s.vault.total \in BranchIds
          /\ s.vault.current <= s.vault.total
      BY <1>1 DEF Forest, Woods
    <3> QED BY <3>1, <2>5, StoreAssumption DEF BranchIds
  <2>7. /\ Tip(s.branches, s.vault.current) /\ Woods(s.branches, s.vault.total)
        /\ \A b \in BranchIds : b < id => s.branches[b].status # "not_liquidated"
    <3>1. s.branches[s.vault.current].status = "liquidated"
      BY <1>1, <1>5 DEF TopLinked
    <3>2. /\ Tip(s.branches, s.vault.current)
          /\ \A b \in BranchIds : b <= s.vault.total => s.branches[b].status # "not_liquidated"
      BY <3>1, <1>1, ForestTip
    <3> QED BY <3>2, <2>6, <1>1, BranchIdsClosed DEF Forest
  <2>14. /\ s.vault.current \in Nat /\ s.vault.current # 0 /\ s.vault.total \in Nat
         /\ id > s.vault.total /\ s.vault.total <= id /\ s.vault.current < id
         /\ id <= s.vault.total + 1
    <3>1. \A b \in BranchIds : b \in Nat /\ b # 0
      BY StoreAssumption DEF BranchIds
    <3>2. s.vault.current \in Nat /\ s.vault.current # 0 /\ s.vault.total \in Nat
      BY <3>1, <2>6
    <3> QED BY <3>2, <2>6
  <2>8. s.branches[id].status = "not_liquidated"
    <3> HIDE DEF id
    <3> QED BY <2>6, <2>7, <2>14 DEF Woods
  <2>9. /\ Forest(r.branches, id, id) /\ KeepsBranches(s.branches, r.branches)
        /\ r.branches[id].status = "not_liquidated"
    <3>1. s.branches = [b \in BranchIds |-> s.branches[b]]
      BY <1>1 DEF BranchesShaped
    <3>3. s.vault.top = COLD_TICK <=> s.vault.current = 0
      BY <2>4, <2>14
    <3> DEFINE br == s.branches
               tot == s.vault.total
               k == s.vault.current
               m == s.vault.top
    <3>4. /\ Woods(br, tot) /\ Tip(br, k) /\ br = [b \in BranchIds |-> br[b]]
          /\ br[id].status = "not_liquidated"
          /\ \A b \in BranchIds : b < id => br[b].status # "not_liquidated"
      BY <3>1, <2>7, <2>8
    <3>5. /\ id \in BranchIds /\ tot <= id /\ k < id /\ k \in Nat /\ id <= tot + 1
          /\ m \in Ticks \union {COLD_TICK} /\ (m = COLD_TICK <=> k = 0)
      BY <3>3, <2>4, <2>6, <2>14
    <3>6. e = Opened(k, m)
      OBVIOUS
    <3> HIDE DEF id, br, tot, k, m, e
    <3>7. /\ Forest([br EXCEPT ![id] = Opened(k, m)], id, id)
          /\ KeepsBranches(br, [br EXCEPT ![id] = Opened(k, m)])
          /\ [br EXCEPT ![id] = Opened(k, m)][id].status = "not_liquidated"
      BY <3>4, <3>5, OpenForest
    <3> QED BY <3>6, <3>7, <2>2 DEF br
  <2>10. Shape(r)
    <3>1. BranchesShaped(r.branches)
      <4>1. HasFields(e, BranchFields)
        BY OpenedShaped
      <4> HIDE DEF e, id
      <4>2. BranchesShaped([s.branches EXCEPT ![id] = e])
        BY <4>1, <1>1, NewBranchShaped
      <4> QED BY <4>2, <2>2
    <3> QED BY <3>1, <1>1, <2>2, <2>3 DEF Shape
  <2>11. AllRooted(r, 0)
    BY <1>1, <2>2, <2>9, SameRooted DEF SameTicks
  <2>12. TopLinked(r.vault, r.branches)
    BY <1>2, <2>3, <2>9 DEF TopLinked
  <2>13. Linked(r)
    BY <2>3, <2>9, <2>10, <2>11, <2>12 DEF Linked
  <2>15. Keeps(s, r)
    BY <1>1, <2>2, <2>9, SameTicksKept DEF Keeps, SameTicks
  <2> QED BY <2>2, <2>13, <2>15 DEF r
<1> QED BY <1>3, <1>4, <1>5

LEMMA TotalsLinked ==
  ASSUME NEW s, Linked(s), NEW x, NEW y
  PROVE  /\ Linked([s EXCEPT !.vault.supply = x, !.vault.borrow = y])
         /\ Keeps(s, [s EXCEPT !.vault.supply = x, !.vault.borrow = y])
         /\ [s EXCEPT !.vault.supply = x, !.vault.borrow = y].ticks = s.ticks
<1> DEFINE r == [s EXCEPT !.vault.supply = x, !.vault.borrow = y]
<1>1. /\ HasFields(s, StoreFields) /\ HasFields(s.vault, VaultFields) /\ IndexOK(s.bits)
      /\ TicksShaped(s.ticks)
  BY DEF Linked, Shape
<1>2. /\ HasFields(r, StoreFields) /\ r.bits = s.bits /\ r.ticks = s.ticks
      /\ r.tick_ids = s.tick_ids /\ r.branches = s.branches
      /\ r.vault = [s.vault EXCEPT !.supply = x, !.borrow = y]
  BY <1>1 DEF HasFields, StoreFields
<1> HIDE DEF r
<1>3. /\ HasFields(r.vault, VaultFields) /\ r.vault.liquidated = s.vault.liquidated
      /\ r.vault.top = s.vault.top /\ r.vault.current = s.vault.current
      /\ r.vault.total = s.vault.total
  BY <1>1, <1>2 DEF HasFields, VaultFields
<1>4. SameTicks(s.ticks, r.ticks)
  BY <1>2 DEF SameTicks
<1>5. Linked(r) /\ Keeps(s, r)
  BY <1>1, <1>2, <1>3, <1>4, RebuiltLinked
<1> QED BY <1>2, <1>5 DEF r

-----------------------------------------------------------------------------
(* operate as a whole.                                                     *)

LEMMA StoreFieldsOfStore ==
  /\ Store.vault = vault /\ Store.bits = bits /\ Store.ticks = ticks
  /\ Store.tick_ids = tick_ids /\ Store.branches = branches
  /\ HasFields(Store, StoreFields)
BY DEF Store, HasFields, StoreFields

LEMMA SavedStore ==
  ASSUME NEW s, HasFields(s, StoreFields), Save(s)
  PROVE  Store' = s
BY DEF Save, Store, HasFields, StoreFields

MemoryFields == {"col", "debt", "dust", "tick", "tick_id"}
PositionFields == {"open", "tick", "tick_id", "supply", "dust"}

LEMMA MemoryShaped ==
  ASSUME NEW pos
  PROVE  /\ HasFields(Memory(pos), MemoryFields) /\ Memory(pos).tick = pos.tick
         /\ Memory(pos).tick_id = pos.tick_id
BY DEF Memory, HasFields, MemoryFields

LEMMA DetachedShaped ==
  ASSUME NEW s, NEW m, HasFields(m, MemoryFields)
  PROVE  HasFields(Detach(s, m).memory, MemoryFields)
<1> DEFINE now == LatestPosition(s, m).memory
<1>1. HasFields(now, MemoryFields)
  BY DEF LatestPosition, HasFields, MemoryFields
<1>2. \/ Detach(s, m).memory = m
      \/ Detach(s, m).memory = [m EXCEPT !.debt = m.debt - m.dust, !.dust = 0]
      \/ Detach(s, m).memory = [now EXCEPT !.debt = now.debt - m.dust, !.dust = 0]
      \/ Detach(s, m).memory = [now EXCEPT !.debt = 0, !.col = 0, !.dust = 0]
  BY DEF Detach
<1> HIDE DEF now
<1> QED BY <1>1, <1>2 DEF HasFields, MemoryFields

(* The position is written back to a tick that counts its id, or to none.   *)
LEMMA WriteBackLinked ==
  ASSUME NEW p \in PositionIds, NEW old, NEW s, Linked(s), NEW m,
         m.tick = COLD_TICK \/ InTick(s, m),
         WriteBack(p, old, s, m), VaultLinked, Keeps(Store, s)
  PROVE  /\ VaultLinked' /\ Keeps(Store, Store')
         /\ \A q \in PositionIds : q # p => positions'[q] = positions[q]
<1> DEFINE x == s.vault.supply + m.col - old.col
           y == s.vault.borrow + (m.debt - m.dust) - old.debt
           after == UpdateTotals(s, m, old)
           written == [open |-> TRUE, tick |-> m.tick, tick_id |-> m.tick_id, supply |-> m.col,
                       dust |-> m.dust]
<1>1. Save(after) /\ positions' = [positions EXCEPT ![p] = written]
  BY DEF WriteBack
<1>2. HasFields(s, StoreFields) /\ HasFields(s.vault, VaultFields)
  BY DEF Linked, Shape
<1>3. after = [s EXCEPT !.vault.supply = x, !.vault.borrow = y]
  BY <1>2 DEF UpdateTotals, HasFields, StoreFields, VaultFields
<1> HIDE DEF x, y, after
<1>4. Linked(after) /\ Keeps(s, after) /\ after.ticks = s.ticks
  BY <1>3, TotalsLinked
<1>5. Store' = after
  BY <1>1, <1>4, SavedStore DEF Linked, Shape
<1>6. Linked(Store) /\ PositionsLinked(ticks, positions)
  BY DEF VaultLinked
<1>7. Keeps(Store, Store')
  BY <1>4, <1>5, <1>6, KeepsTransitive DEF Linked, Shape
<1>8. ticks' = s.ticks
  <2>1. ticks' = after.ticks
    BY <1>1 DEF Save
  <2> QED BY <2>1, <1>4
<1>9. \A q \in PositionIds : positions'[q] = IF q = p THEN written ELSE positions[q]
  BY <1>1, <1>6 DEF PositionsLinked
<1>10. \A t \in Ticks : /\ ticks[t].total_ids \in Nat /\ s.ticks[t].total_ids \in Nat
                        /\ ticks[t].total_ids <= s.ticks[t].total_ids
  <2>1. Store.ticks = ticks
    BY StoreFieldsOfStore
  <2>2. TicksShaped(ticks) /\ TicksShaped(s.ticks)
    BY <2>1, <1>6 DEF Linked, Shape
  <2> QED BY <2>1, <2>2 DEF Keeps, KeepsIds, TicksShaped
<1>11. ASSUME NEW q \in PositionIds
       PROVE  /\ HasFields(positions'[q], PositionFields)
              /\ positions'[q].tick # COLD_TICK =>
                   /\ positions'[q].tick \in Ticks
                   /\ positions'[q].tick_id \in 1 .. s.ticks[positions'[q].tick].total_ids
  <2>1. CASE q = p
    <3>1. /\ HasFields(written, PositionFields) /\ written.tick = m.tick
          /\ written.tick_id = m.tick_id
      BY DEF HasFields, PositionFields
    <3> HIDE DEF written
    <3> QED BY <2>1, <3>1, <1>9 DEF InTick
  <2>2. CASE q # p
    <3>1. positions'[q] = positions[q]
      BY <2>2, <1>9
    <3> QED BY <3>1, <1>6, <1>10 DEF PositionsLinked, PositionFields
  <2> QED BY <2>1, <2>2
<1>12. PositionsLinked(ticks', positions')
  <2>1. positions' = [q \in PositionIds |-> positions'[q]]
    BY <1>1, <1>6 DEF PositionsLinked
  <2> QED BY <2>1, <1>8, <1>11 DEF PositionsLinked, PositionFields
<1>13. VaultLinked'
  BY <1>4, <1>5, <1>12 DEF VaultLinked
<1> QED BY <1>7, <1>9, <1>13

LEMMA OperateLinked ==
  ASSUME VaultLinked, Bare(Store), NEW p \in PositionIds, NEW new_col, NEW new_debt,
         Operate(p, new_col, new_debt)
  PROVE  /\ VaultLinked' /\ Keeps(Store, Store')
         /\ \A q \in PositionIds : q # p => positions'[q] = positions[q]
<1> DEFINE m   == Memory(positions[p])
           d   == Detach(Store, m)
           s   == d.store
           old == d.memory
           col  == NewCollateral(old.col, new_col)
           debt == NewDebt(old.debt, new_debt)
           out  == Outcome(s, old, col, debt)
<1>1. CanDetach(Store, m) /\ Change(p, s, old, new_col, new_debt)
  BY DEF Operate
<1>2. Linked(Store) /\ PositionsLinked(ticks, positions)
  BY DEF VaultLinked
<1>3. m.tick \in Ticks \union {COLD_TICK} /\ HasFields(m, MemoryFields)
  BY <1>2, MemoryShaped DEF PositionsLinked
<1> HIDE DEF m
<1>4. Linked(s) /\ Keeps(Store, s) /\ HasFields(old, MemoryFields)
  BY <1>1, <1>2, <1>3, DetachLinked, DetachedShaped
<1> HIDE DEF d
<1>5. /\ (debt # 0 => DebtAllowed(s, old, col, debt, out.memory, CollateralMoved(old.col, new_col),
                                  DebtMoved(old.debt, new_debt)))
      /\ WriteBack(p, old, out.store, out.memory)
  BY <1>1 DEF Change
<1> HIDE DEF s, old, col, debt
<1>6. /\ Linked(out.store) /\ Keeps(Store, out.store)
      /\ \/ out.memory.tick = COLD_TICK
         \/ /\ out.memory.tick \in Ticks
            /\ out.memory.tick_id \in 1 .. out.store.ticks[out.memory.tick].total_ids
  <2>1. CASE debt = 0
    <3>1. /\ out.store = s
          /\ out.memory = [old EXCEPT !.col = col, !.debt = 0, !.dust = 0, !.tick = COLD_TICK,
                                      !.tick_id = 0]
      BY <2>1 DEF Outcome
    <3>2. out.memory.tick = COLD_TICK
      BY <3>1, <1>4 DEF HasFields, MemoryFields
    <3> QED BY <3>1, <3>2, <1>4
  <2>2. CASE debt # 0
    <3> DEFINE a == Attach(s, col, ScaledDebt(debt))
    <3>1. out.store = RaiseTop(a.store, a.memory.tick) /\ out.memory = a.memory
      BY <2>2 DEF Outcome
    <3>3. CanAttach(s, col, ScaledDebt(debt)) /\ CanRaiseTop(s, out.memory.tick)
      BY <2>2, <1>5 DEF DebtAllowed
    <3>4. /\ Linked(a.store) /\ Keeps(s, a.store) /\ a.memory.tick \in Ticks
          /\ a.memory.tick_id \in 1 .. a.store.ticks[a.memory.tick].total_ids
      BY <3>3, <1>4, AttachLinked
    <3>5. a.store.vault = s.vault
      BY <1>4 DEF Attach, Linked, Shape, HasFields, StoreFields
    <3> HIDE DEF a
    <3>6. CanRaiseTop(a.store, a.memory.tick)
      BY <3>1, <3>3, <3>5 DEF CanRaiseTop
    <3>7. /\ Linked(out.store) /\ Keeps(a.store, out.store)
          /\ out.store.ticks = a.store.ticks
      BY <3>1, <3>4, <3>6, RaiseTopLinked
    <3>8. Keeps(Store, out.store)
      <4>1. Keeps(s, out.store)
        BY <3>4, <3>7, <1>4, KeepsTransitive DEF Linked, Shape
      <4> QED BY <4>1, <3>7, <1>2, <1>4, KeepsTransitive DEF Linked, Shape
    <3> QED BY <3>1, <3>4, <3>7, <3>8
  <2> QED BY <2>1, <2>2
<1> DEFINE w == out.store
           mem == out.memory
<1>7. Linked(w) /\ Keeps(Store, w) /\ WriteBack(p, old, w, mem)
  BY <1>5, <1>6
<1>8. mem.tick = COLD_TICK \/ InTick(w, mem)
  BY <1>6 DEF InTick
<1> HIDE DEF w, mem
<1> QED BY <1>7, <1>8, WriteBackLinked

-----------------------------------------------------------------------------
(* absorb.                                                                 *)

LEMMA StaysRooted ==
  ASSUME NEW s, AllRooted(s, 0), NEW r, r.tick_ids = s.tick_ids,
         \A t \in Ticks :
           /\ r.ticks[t].total_ids = s.ticks[t].total_ids
           /\ r.ticks[t].is_liquidated =>
                \/ r.ticks[t].liquidation.fully
                \/ s.ticks[t].is_liquidated /\ r.ticks[t].liquidation = s.ticks[t].liquidation,
         \A b \in BranchIds : s.branches[b].status # "not_liquidated" =>
                              r.branches[b].status # "not_liquidated"
  PROVE  AllRooted(r, 0)
<1>1. ASSUME NEW q, Rooted(q, s.branches, 0) PROVE Rooted(q, r.branches, 0)
  <2>1. q.branch \in BranchIds => q.branch # 0
    BY BranchIdsClosed
  <2> QED BY <1>1, <2>1 DEF Rooted
<1>2. ASSUME NEW t \in Ticks, r.ticks[t].is_liquidated
      PROVE  Rooted(r.ticks[t].liquidation, r.branches, 0)
  BY <1>1, <1>2 DEF AllRooted, Rooted
<1>3. ASSUME NEW t \in Ticks, NEW i \in 1 .. MaxTickIds, i < r.ticks[t].total_ids
      PROVE  Rooted(r.tick_ids[Record(t, i)], r.branches, 0)
  BY <1>1, <1>3 DEF AllRooted
<1> QED BY <1>2, <1>3 DEF AllRooted

LEMMA AbsorbTicksLinked ==
  ASSUME NEW s, Linked(s), NEW max
  PROVE  LET r == AbsorbTicks(s, max).store
         IN  /\ Linked(r) /\ r.vault = s.vault
             /\ \A t \in Ticks : r.ticks[t].total_ids = s.ticks[t].total_ids
<1> DEFINE r == AbsorbTicks(s, max).store
           above == {t \in TicksFrom(s.bits, PlaceOf(s.vault.top + 1)) : t > max}
           ts == [t \in Ticks |-> IF t \in above THEN FullyLiquidated(s.ticks[t]) ELSE s.ticks[t]]
<1>1. /\ HasFields(s, StoreFields) /\ HasFields(s.vault, VaultFields) /\ IndexOK(s.bits)
      /\ TicksShaped(s.ticks) /\ BranchesShaped(s.branches) /\ AllRooted(s, 0)
      /\ s.tick_ids = [q \in Records |-> s.tick_ids[q]]
  BY DEF Linked, Shape
<1>2. r = [s EXCEPT !.ticks = [t \in Ticks |-> IF t \in above THEN FullyLiquidated(@[t]) ELSE @[t]],
                    !.bits = ClearAll(@, above)]
  BY DEF AbsorbTicks
<1> HIDE DEF r, above
<1>3. /\ HasFields(r, StoreFields) /\ r.vault = s.vault /\ r.bits = ClearAll(s.bits, above)
      /\ r.branches = s.branches /\ r.ticks = ts /\ r.tick_ids = s.tick_ids
  BY <1>1, <1>2 DEF HasFields, StoreFields
<1>4. ASSUME NEW t \in Ticks
      PROVE  /\ HasFields(ts[t], TickFields) /\ HasFields(ts[t].liquidation, LiquidationFields)
             /\ ts[t].total_ids = s.ticks[t].total_ids
             /\ ts[t].liquidation.fully \/ ts[t] = s.ticks[t]
  <2>1. HasFields(s.ticks[t], TickFields) /\ HasFields(s.ticks[t].liquidation, LiquidationFields)
    BY <1>1 DEF TicksShaped
  <2>2. CASE t \in above
    <3>1. ts[t] = FullyLiquidated(s.ticks[t])
      BY <2>2
    <3> DEFINE old == s.ticks[t]
               q   == Liquidation(TRUE, 0, BigZero)
    <3>2. q.fully /\ HasFields(q, LiquidationFields)
      BY DEF Liquidation, HasFields, LiquidationFields
    <3>3. ts[t] = [old EXCEPT !.raw_debt = 0, !.is_liquidated = TRUE, !.liquidation = q]
      BY <3>1 DEF FullyLiquidated
    <3>4. HasFields(old, TickFields)
      BY <2>1
    <3> HIDE DEF ts, old, q
    <3>5. /\ HasFields(ts[t], TickFields) /\ ts[t].liquidation = q
          /\ ts[t].total_ids = old.total_ids
      BY <3>3, <3>4 DEF HasFields, TickFields
    <3> QED BY <3>2, <3>5 DEF old
  <2>3. CASE t \notin above
    <3>1. ts[t] = s.ticks[t]
      BY <2>3
    <3> QED BY <3>1, <2>1
  <2> QED BY <2>2, <2>3
<1>5. TicksShaped(ts)
  <2>1. ts = [t \in Ticks |-> ts[t]]
    OBVIOUS
  <2> HIDE DEF ts
  <2> QED BY <2>1, <1>1, <1>4 DEF TicksShaped
<1> HIDE DEF ts
<1>6. Shape(r)
  BY <1>1, <1>3, <1>5, ClearedIndex DEF Shape
<1>7. AllRooted(r, 0)
  BY <1>1, <1>3, <1>4, StaysRooted
<1>8. Linked(r)
  BY <1>3, <1>6, <1>7 DEF Linked
<1> QED BY <1>3, <1>4, <1>8 DEF r

(* The closing of branches from the store s on: a.id is the branch it has    *)
(* come to, or 0.                                                           *)
ClosingFields == {"store", "debt", "col", "id", "minima"}
Closing(a, s) ==
  /\ HasFields(a, ClosingFields) /\ HasFields(a.store, StoreFields)
  /\ a.store.vault = s.vault /\ a.store.ticks = s.ticks /\ a.store.tick_ids = s.tick_ids
  /\ a.store.bits = s.bits /\ BranchesShaped(a.store.branches)
  /\ Woods(a.store.branches, s.vault.total) /\ Tip(a.store.branches, a.id)
  /\ a.id \in Nat /\ (a.minima = COLD_TICK <=> a.id = 0)
  /\ a.minima \in COLD_TICK .. MAX_TICK + 2
  /\ \A b \in BranchIds : a.store.branches[b].status = "not_liquidated"
                            <=> s.branches[b].status = "not_liquidated"

LEMMA CloseBranchCloses ==
  ASSUME NEW s, NEW a, Closing(a, s), NEW max \in Ticks
  PROVE  Closing(CloseBranch(a, max), s)
<1> DEFINE br == a.store.branches
           id == a.id
           b  == br[id]
           br2 == [br EXCEPT ![id].status = "closed"]
           r  == CloseBranch(a, max)
           k  == IF b.connected_minima_tick = COLD_TICK THEN 0 ELSE b.connected
<1>1. CASE a.minima <= max
  BY <1>1 DEF CloseBranch
<1>2. CASE ~(a.minima <= max)
  <2>1. a.minima # COLD_TICK
    <3>1. COLD_TICK <= max
      BY TickRange
    <3> QED BY <3>1, <1>2
  <2>2. /\ id \in BranchIds /\ b.status = "liquidated" /\ Woods(br, s.vault.total)
        /\ BranchesShaped(br)
        /\ \A d \in BranchIds : d > id => br[d].status # "liquidated"
        /\ \A d \in BranchIds : br[d].status = "not_liquidated"
                                <=> s.branches[d].status = "not_liquidated"
    BY <2>1 DEF Closing, Tip
  <2>3. Chained(br, id)
    BY <2>2 DEF Woods
  <2>4. PICK debt, col :
          r = [a EXCEPT !.store.branches[a.id].status = "closed", !.debt = debt, !.col = col,
                        !.id = k, !.minima = b.connected_minima_tick]
    BY <1>2 DEF CloseBranch, Closing, HasFields, ClosingFields
  <2>5. /\ HasFields(a, ClosingFields) /\ HasFields(a.store, StoreFields)
        /\ a.store.vault = s.vault /\ a.store.ticks = s.ticks /\ a.store.tick_ids = s.tick_ids
        /\ a.store.bits = s.bits
    BY DEF Closing
  <2> HIDE DEF r, b, k
  <2>6. /\ HasFields(r, ClosingFields) /\ r.id = k /\ r.minima = b.connected_minima_tick
        /\ r.store = [a.store EXCEPT !.branches[a.id].status = "closed"]
    BY <2>4, <2>5 DEF HasFields, ClosingFields
  <2>7. /\ HasFields(r.store, StoreFields) /\ r.store.vault = s.vault
        /\ r.store.ticks = s.ticks /\ r.store.tick_ids = s.tick_ids /\ r.store.bits = s.bits
        /\ r.store.branches = br2
    BY <2>5, <2>6 DEF HasFields, StoreFields
  <2>8. /\ \A d \in BranchIds : d # id => br2[d] = br[d]
        /\ br2[id] = [br[id] EXCEPT !.status = "closed"]
    BY <2>2 DEF BranchesShaped
  <2>9. BranchesShaped(br2) /\ br2[id].status = "closed"
    <3>1. HasFields(br[id], BranchFields)
      BY <2>2 DEF BranchesShaped
    <3>2. HasFields(br2[id], BranchFields) /\ br2[id].status = "closed"
      <4> HIDE DEF br2, br
      <4> QED BY <3>1, <2>8 DEF HasFields, BranchFields
    <3>3. br2 = [d \in BranchIds |-> br2[d]]
      BY <2>2 DEF BranchesShaped
    <3> HIDE DEF br2
    <3> QED BY <3>2, <3>3, <2>2, <2>8 DEF BranchesShaped
  <2> HIDE DEF br2, br, id
  <2>10. ASSUME NEW d \in BranchIds, d # id, d < id, Chained(br, d) PROVE Chained(br2, d)
    <3>1. \A e \in BranchIds : e \in Nat
      BY BranchIdsClosed
    <3>2. br[d].connected # 0 => br[d].connected \in BranchIds /\ br[d].connected # id
      BY <2>10, <2>2, <3>1, BranchIdsClosed DEF Chained
    <3> QED BY <2>2, <2>8, <2>10, <3>1, <3>2 DEF Chained
  <2>11. Woods(br2, s.vault.total)
    <3>1. ASSUME NEW d \in BranchIds, d > s.vault.total PROVE br2[d].status = "not_liquidated"
      <4>1. br[d].status = "not_liquidated"
        BY <3>1, <2>2 DEF Woods
      <4>2. d # id
        BY <4>1, <2>2 DEF b
      <4> QED BY <4>1, <4>2, <2>8
    <3>2. ASSUME NEW d \in BranchIds, br2[d].status = "merged"
          PROVE  /\ br2[d].connected \in 1 .. d - 1
                 /\ br2[br2[d].connected].status # "not_liquidated"
      <4>1. d # id /\ br2[d] = br[d]
        BY <3>2, <2>8, <2>9
      <4>2. br[d].connected \in 1 .. d - 1 /\ br[br[d].connected].status # "not_liquidated"
        BY <3>2, <4>1, <2>2 DEF Woods
      <4>3. br[d].connected \in BranchIds
        BY <4>2, BranchIdsClosed
      <4> QED BY <4>1, <4>2, <4>3, <2>8, <2>9
    <3>3. ASSUME NEW d \in BranchIds, br2[d].status = "liquidated"
          PROVE  Chained(br2, d) /\ br2[d].minima_tick \in MIN_TICK .. MAX_TICK + 2
      <4>1. d # id /\ br2[d] = br[d]
        BY <3>3, <2>8, <2>9
      <4>2. d < id
        BY <3>3, <4>1, <2>2, BranchIdsClosed
      <4> QED BY <3>3, <4>1, <4>2, <2>2, <2>10 DEF Woods
    <3> QED BY <3>1, <3>2, <3>3, <2>2 DEF Woods
  <2>12. /\ k \in Nat /\ b.connected_minima_tick \in COLD_TICK .. MAX_TICK + 2
         /\ (b.connected_minima_tick = COLD_TICK <=> k = 0) /\ k = b.connected /\ k < id
    <3>1. id \in Nat
      BY <2>2, BranchIdsClosed
    <3> QED BY <3>1, <2>3, TickWindow DEF Chained, b, k
  <2>13. Tip(br2, k)
    <3>1. k # 0 => k \in BranchIds /\ k # id /\ br[k].status = "liquidated"
      BY <2>2, <2>3, <2>12, BranchIdsClosed DEF Chained, b
    <3>2. ASSUME NEW d \in BranchIds, d > k PROVE br2[d].status # "liquidated"
      <4>1. d \in Nat /\ id \in Nat
        BY <2>2, BranchIdsClosed
      <4>2. CASE d < id
        BY <4>1, <4>2, <3>2, <2>3, <2>8, <2>12 DEF Chained, b
      <4>3. CASE d = id
        BY <4>3, <2>9
      <4>4. CASE d > id
        BY <4>1, <4>4, <2>2, <2>8
      <4> QED BY <4>1, <4>2, <4>3, <4>4
    <3> QED BY <3>1, <3>2, <2>8 DEF Tip
  <2>14. ASSUME NEW d \in BranchIds
         PROVE  br2[d].status = "not_liquidated" <=> s.branches[d].status = "not_liquidated"
    BY <2>2, <2>8, <2>9 DEF b
  <2> QED BY <2>6, <2>7, <2>9, <2>11, <2>12, <2>13, <2>14 DEF Closing, r
<1> QED BY <1>1, <1>2

LEMMA ClosedInTable ==
  ASSUME NEW s, NEW a, Closing(a, s), NEW max \in Ticks
  PROVE  CloseBranch(a, max).minima \in Ticks \union {COLD_TICK}
<1> DEFINE b == a.store.branches[a.id]
           r == CloseBranch(a, max)
<1>1. /\ HasFields(a, ClosingFields) /\ Woods(a.store.branches, s.vault.total)
      /\ Tip(a.store.branches, a.id) /\ (a.minima = COLD_TICK <=> a.id = 0)
      /\ a.minima \in COLD_TICK .. MAX_TICK + 2
  BY DEF Closing
<1>2. CASE a.minima <= max
  <2>1. r = a
    BY <1>2 DEF CloseBranch
  <2>2. a.minima \in Ticks \union {COLD_TICK}
    <3> DEFINE m == a.minima
    <3>1. m \in COLD_TICK .. MAX_TICK + 2 /\ m <= max
      BY <1>1, <1>2
    <3> HIDE DEF m
    <3>2. m \in Int /\ COLD_TICK <= m /\ m <= MAX_TICK
      BY <3>1, TickRange
    <3>3. m \in Ticks \union {COLD_TICK}
      BY <3>2, TickRange DEF Ticks
    <3> QED BY <3>3 DEF m
  <2> QED BY <2>1, <2>2
<1>3. CASE ~(a.minima <= max)
  <2>1. r.minima = b.connected_minima_tick
    BY <1>1, <1>3 DEF CloseBranch, HasFields, ClosingFields
  <2>2. a.minima # COLD_TICK
    BY <1>3, TickRange
  <2>3. Chained(a.store.branches, a.id)
    BY <2>2, <1>1 DEF Tip, Woods
  <2> QED BY <2>1, <2>3 DEF Chained
<1> QED BY <1>2, <1>3

(* A is what CloseBranches goes through from a on.                         *)
ClosingWalk(A, a, max) ==
  /\ A[0] = a
  /\ \A n \in 1 .. MaxBranches : A[n] = CloseBranch(A[n - 1], max)
  /\ CloseBranches(a, max) = A[MaxBranches]

LEMMA CloseBranchesWalks ==
  ASSUME NEW a, NEW max
  PROVE  \E A : ClosingWalk(A, a, max)
<1> DEFINE Walks(A, m) ==
             A = [n \in 0 .. m |-> IF n = 0 THEN a ELSE CloseBranch(A[n - 1], max)]
           bad == {m \in Nat : ~ \E A : Walks(A, m)}
<1>1. \E A : Walks(A, 0)
  <2> DEFINE A == [n \in 0 .. 0 |-> a]
  <2>1. \A n \in 0 .. 0 : n = 0
    OBVIOUS
  <2>2. A = [n \in 0 .. 0 |-> IF n = 0 THEN a ELSE CloseBranch(A[n - 1], max)]
    BY <2>1
  <2> QED BY <2>2
<1>2. ASSUME NEW m \in Nat, NEW A, Walks(A, m)
      PROVE  /\ \A n \in 0 .. m : A[n] = IF n = 0 THEN a ELSE CloseBranch(A[n - 1], max)
             /\ \E B : Walks(B, m + 1)
  <2> DEFINE B == [n \in 0 .. m + 1 |-> IF n = 0 THEN a ELSE CloseBranch(A[n - 1], max)]
             R == [n \in 0 .. m |-> IF n = 0 THEN a ELSE CloseBranch(A[n - 1], max)]
  <2>1. ASSUME NEW n \in 0 .. m
        PROVE  A[n] = (IF n = 0 THEN a ELSE CloseBranch(A[n - 1], max)) /\ B[n] = A[n]
    <3>1. A = R
      BY <1>2
    <3>2. R[n] = IF n = 0 THEN a ELSE CloseBranch(A[n - 1], max)
      OBVIOUS
    <3>3. B[n] = IF n = 0 THEN a ELSE CloseBranch(A[n - 1], max)
      OBVIOUS
    <3> HIDE DEF R, B
    <3> QED BY <3>1, <3>2, <3>3
  <2>2. \A n \in 0 .. m + 1 : n # 0 => B[n - 1] = A[n - 1]
    <3>1. \A n \in 0 .. m + 1 : n # 0 => n - 1 \in 0 .. m
      OBVIOUS
    <3> HIDE DEF B
    <3> QED BY <2>1, <3>1
  <2>3. B = [n \in 0 .. m + 1 |-> IF n = 0 THEN a ELSE CloseBranch(B[n - 1], max)]
    BY <2>2
  <2> QED BY <2>1, <2>3
<1> HIDE DEF Walks
<1>3. bad = {}
  <2>1. SUFFICES ASSUME bad # {} PROVE FALSE
    OBVIOUS
  <2>2. PICK m \in bad : \A k \in bad : m <= k
    BY <2>1, LeastNatural
  <2>3. m # 0
    BY <2>2, <1>1
  <2>4. m - 1 \in Nat /\ m - 1 \notin bad
    BY <2>2, <2>3
  <2>5. m - 1 + 1 = m
    BY <2>2
  <2> QED BY <2>2, <2>4, <2>5, <1>2
<1>4. \E C : Walks(C, MaxBranches)
  BY <1>3, StoreAssumption
<1> DEFINE B == CHOOSE C : Walks(C, MaxBranches)
<1>5. CloseBranches(a, max) = B[MaxBranches]
  BY DEF CloseBranches, Walks
<1>6. Walks(B, MaxBranches)
  BY <1>4
<1> HIDE DEF B
<1>7. \A n \in 0 .. MaxBranches : B[n] = IF n = 0 THEN a ELSE CloseBranch(B[n - 1], max)
  BY <1>2, <1>6, StoreAssumption
<1>8. B[0] = a
  BY <1>7, StoreAssumption
<1>9. \A n \in 1 .. MaxBranches : B[n] = CloseBranch(B[n - 1], max)
  <2>1. \A n \in 1 .. MaxBranches : n \in 0 .. MaxBranches /\ n # 0
    BY StoreAssumption
  <2> QED BY <2>1, <1>7
<1>10. ClosingWalk(B, a, max)
  BY <1>5, <1>8, <1>9 DEF ClosingWalk
<1> QED BY <1>10

LEMMA CloseBranchesCloses ==
  ASSUME NEW s, NEW a, Closing(a, s), NEW max \in Ticks
  PROVE  /\ Closing(CloseBranches(a, max), s)
         /\ CloseBranches(a, max).minima \in Ticks \union {COLD_TICK}
<1>1. PICK A : /\ A[0] = a
               /\ \A n \in 1 .. MaxBranches : A[n] = CloseBranch(A[n - 1], max)
               /\ CloseBranches(a, max) = A[MaxBranches]
  BY CloseBranchesWalks DEF ClosingWalk
<1> DEFINE bad == {n \in Nat : n <= MaxBranches /\ ~Closing(A[n], s)}
<1>2. bad = {}
  <2>1. SUFFICES ASSUME bad # {} PROVE FALSE
    OBVIOUS
  <2>2. PICK m \in bad : \A k \in bad : m <= k
    BY <2>1, LeastNatural
  <2>3. m # 0
    BY <2>2, <1>1
  <2>4. m \in 1 .. MaxBranches /\ m - 1 \in Nat /\ m - 1 <= MaxBranches /\ m - 1 \notin bad
    BY <2>2, <2>3, StoreAssumption
  <2>5. Closing(A[m - 1], s)
    BY <2>4
  <2>6. Closing(A[m], s)
    BY <2>4, <2>5, <1>1, CloseBranchCloses
  <2> QED BY <2>2, <2>6
<1>3. \A n \in 0 .. MaxBranches : Closing(A[n], s)
  BY <1>2, StoreAssumption
<1>4. CloseBranch(A[MaxBranches - 1], max).minima \in Ticks \union {COLD_TICK}
  BY <1>3, StoreAssumption, ClosedInTable
<1> QED BY <1>1, <1>3, <1>4, StoreAssumption

LEMMA SettleLinked ==
  ASSUME NEW s, Linked(s), NEW a, Closing(a, s), AbsorbFits(s), NEW next \in Ticks \union {COLD_TICK}
  PROVE  /\ Linked(Settle(a, next)) /\ Settle(a, next).ticks = s.ticks
         /\ Settle(a, next).vault.top \in {next, a.minima}
<1> DEFINE r   == Settle(a, next)
           st  == a.store
           br  == st.branches
           liq == s.vault.liquidated
           id  == IF liq THEN s.vault.total + 1 ELSE s.vault.current
           k   == a.id
           m   == a.minima
<1>1. /\ HasFields(s.vault, VaultFields) /\ IndexOK(s.bits)
      /\ TicksShaped(s.ticks) /\ AllRooted(s, 0)
      /\ s.tick_ids = [q \in Records |-> s.tick_ids[q]]
      /\ Forest(s.branches, s.vault.total, s.vault.current) /\ TopLinked(s.vault, s.branches)
  BY DEF Linked, Shape
<1>2. /\ HasFields(st, StoreFields) /\ st.vault = s.vault /\ st.ticks = s.ticks
      /\ st.tick_ids = s.tick_ids /\ st.bits = s.bits /\ BranchesShaped(br)
      /\ Woods(br, s.vault.total) /\ Tip(br, k) /\ k \in Nat /\ (m = COLD_TICK <=> k = 0)
      /\ m \in COLD_TICK .. MAX_TICK + 2
      /\ \A b \in BranchIds : br[b].status = "not_liquidated"
                              <=> s.branches[b].status = "not_liquidated"
  BY DEF Closing
<1>3. /\ s.vault.current \in BranchIds /\ s.vault.total \in BranchIds
      /\ \A b \in BranchIds : b \in Nat /\ b # 0 /\ b <= MaxBranches
  BY <1>1, StoreAssumption DEF Forest, Woods, BranchIds
<1>4. /\ id \in BranchIds /\ s.vault.total <= id /\ id <= s.vault.total + 1
      /\ br[id].status = "not_liquidated"
      /\ \A b \in BranchIds : b < id => br[b].status # "not_liquidated"
      /\ liq => id > s.vault.total
      /\ ~liq => id = s.vault.total /\ id = s.vault.current
  <2>1. CASE liq
    <3>1. s.vault.total < MaxBranches
      BY <2>1 DEF AbsorbFits
    <3>2. id = s.vault.total + 1 /\ id \in BranchIds
      <4>1. s.vault.total \in Nat /\ s.vault.total + 1 \in BranchIds
        BY <3>1, <1>3, StoreAssumption DEF BranchIds
      <4> QED BY <2>1, <4>1
    <3>3. \A b \in BranchIds : b <= s.vault.total => s.branches[b].status # "not_liquidated"
      BY <2>1, <1>1, ForestTip DEF TopLinked
    <3>4. id > s.vault.total
      BY <3>2, <1>3
    <3>5. br[id].status = "not_liquidated"
      <4> HIDE DEF id, br
      <4> QED BY <3>2, <3>4, <1>2 DEF Woods
    <3>6. \A b \in BranchIds : b < id => b <= s.vault.total
      BY <3>2, <1>3
    <3> HIDE DEF id, br
    <3> QED BY <2>1, <3>2, <3>3, <3>4, <3>5, <3>6, <1>2, <1>3
  <2>2. CASE ~liq
    <3>1. id = s.vault.current /\ s.branches[s.vault.current].status = "not_liquidated"
      BY <2>2, <1>1 DEF TopLinked
    <3>2. /\ id = s.vault.total
          /\ \A b \in BranchIds : b < id => s.branches[b].status # "not_liquidated"
      BY <3>1, <1>1, ForestTip
    <3> HIDE DEF id, br
    <3> QED BY <2>2, <3>1, <3>2, <1>2, <1>3
  <2> QED BY <2>1, <2>2
<1>5. k < id
  <2>1. CASE k = 0
    BY <2>1, <1>3, <1>4
  <2>2. CASE k # 0
    <3>1. k \in BranchIds /\ br[k].status = "liquidated"
      BY <2>2, <1>2 DEF Tip
    <3>2. ~(k > s.vault.total) /\ k # id
      BY <3>1, <1>2, <1>4 DEF Woods
    <3> HIDE DEF id
    <3> QED BY <3>1, <3>2, <1>3, <1>4
  <2> QED BY <2>1, <2>2
<1>6. next \in COLD_TICK .. MAX_TICK + 2 /\ next <= MAX_TICK /\ COLD_TICK <= next
  BY TickWindow, TickRange
<1>7. r.ticks = s.ticks /\ r.tick_ids = s.tick_ids /\ r.bits = s.bits /\ HasFields(r, StoreFields)
  BY <1>2 DEF Settle, HasFields, StoreFields
<1>8. ASSUME BranchesShaped(r.branches), HasFields(r.vault, VaultFields),
             Forest(r.branches, r.vault.total, r.vault.current), TopLinked(r.vault, r.branches),
             KeepsBranches(br, r.branches)
      PROVE  Linked(r)
  <2>1. Shape(r)
    BY <1>1, <1>7, <1>8 DEF Shape
  <2>2. \A b \in BranchIds : s.branches[b].status # "not_liquidated" =>
                             r.branches[b].status # "not_liquidated"
    BY <1>2, <1>8 DEF KeepsBranches, SameLinks
  <2>3. AllRooted(r, 0)
    <3> HIDE DEF r
    <3> QED BY <2>2, <1>1, <1>7, StaysRooted
  <2> QED BY <1>8, <2>1, <2>3 DEF Linked
<1>9. CASE next >= m
  <2>1. /\ r.branches = [br EXCEPT ![id] = Opened(k, m)]
        /\ r.vault = [s.vault EXCEPT !.top = next, !.liquidated = FALSE, !.current = id,
                                     !.total = IF liq THEN @ + 1 ELSE @]
    BY <1>2, <1>9 DEF Settle, Opened, HasFields, StoreFields
  <2> HIDE DEF r
  <2>2. /\ HasFields(r.vault, VaultFields) /\ r.vault.top = next /\ ~r.vault.liquidated
        /\ r.vault.current = id /\ r.vault.total = IF liq THEN s.vault.total + 1 ELSE s.vault.total
    BY <1>1, <2>1 DEF HasFields, VaultFields
  <2>3. r.vault.total = id
    BY <2>2, <1>4
  <2>4. m \in Ticks \union {COLD_TICK}
    <3>1. next \in Int /\ m \in Int
      BY <1>2, <1>6, TickRange
    <3> QED BY <3>1, <1>2, <1>6, <1>9, TickRange DEF Ticks
  <2> DEFINE tot == s.vault.total
  <2>5. br = [b \in BranchIds |-> br[b]] /\ Woods(br, tot) /\ Tip(br, k) /\ tot <= id /\ id <= tot + 1
    BY <1>2, <1>4 DEF BranchesShaped
  <2> HIDE DEF br, tot, k, m, id
  <2>6. /\ Forest([br EXCEPT ![id] = Opened(k, m)], id, id)
        /\ KeepsBranches(br, [br EXCEPT ![id] = Opened(k, m)])
        /\ [br EXCEPT ![id] = Opened(k, m)][id].status = "not_liquidated"
    BY <1>2, <1>4, <1>5, <2>4, <2>5, OpenForest
  <2>7. BranchesShaped(r.branches)
    <3>1. HasFields(Opened(k, m), BranchFields)
      BY OpenedShaped
    <3>2. BranchesShaped([br EXCEPT ![id] = Opened(k, m)])
      BY <3>1, <1>2, NewBranchShaped
    <3> QED BY <3>2, <2>1
  <2>8. TopLinked(r.vault, r.branches)
    BY <1>6, <2>1, <2>2, <2>6 DEF TopLinked
  <2>9. Forest(r.branches, r.vault.total, r.vault.current) /\ KeepsBranches(br, r.branches)
    BY <2>1, <2>2, <2>3, <2>6
  <2> QED BY <1>7, <1>8, <2>2, <2>7, <2>8, <2>9 DEF r
<1>10. CASE ~(next >= m)
  <2>1. m # COLD_TICK /\ k # 0
    BY <1>2, <1>6, <1>10
  <2>2. /\ r.branches = (IF liq THEN br ELSE [br EXCEPT ![id] = EmptyBranch])
        /\ r.vault = [s.vault EXCEPT !.liquidated = TRUE, !.top = m, !.current = k,
                                     !.total = IF liq THEN @ ELSE id - 1]
    BY <1>2, <1>10 DEF Settle, HasFields, StoreFields
  <2> HIDE DEF r
  <2>3. /\ HasFields(r.vault, VaultFields) /\ r.vault.top = m /\ r.vault.liquidated
        /\ r.vault.current = k
        /\ r.vault.total = (IF liq THEN s.vault.total ELSE id - 1)
    BY <1>1, <2>2 DEF HasFields, VaultFields
  <2>4. k \in BranchIds /\ br[k].status = "liquidated"
    BY <2>1, <1>2 DEF Tip
  <2>5. CASE liq
    <3>1. r.branches = br /\ r.vault.total = s.vault.total
      BY <2>2, <2>3, <2>5
    <3>2. k <= s.vault.total
      BY <2>4, <2>5, <1>3, <1>4, <1>5
    <3>3. \A b \in BranchIds : b <= s.vault.total => br[b].status # "not_liquidated"
      BY <2>5, <1>3, <1>4
    <3>4. Chained(br, k)
      BY <2>4, <1>2 DEF Woods
    <3>5. Forest(br, s.vault.total, k)
      <4> HIDE DEF br, k
      <4> QED BY <2>4, <3>2, <3>3, <3>4, <1>2 DEF Forest, Tip
    <3>6. KeepsBranches(br, br)
      BY DEF KeepsBranches, SameLinks
    <3>7. TopLinked(r.vault, r.branches)
      BY <2>1, <2>3, <2>4, <3>1, <1>2 DEF TopLinked
    <3>8. BranchesShaped(r.branches)
      BY <3>1, <1>2
    <3>9. Forest(r.branches, r.vault.total, r.vault.current) /\ KeepsBranches(br, r.branches)
      BY <3>1, <3>5, <3>6, <2>3
    <3> QED BY <1>7, <1>8, <2>3, <3>7, <3>8, <3>9 DEF r
  <2>6. CASE ~liq
    <3>1. r.branches = [br EXCEPT ![id] = EmptyBranch] /\ r.vault.total = id - 1
      BY <2>2, <2>3, <2>6
    <3>2. Woods(br, id) /\ br = [b \in BranchIds |-> br[b]]
      BY <2>6, <1>2, <1>4 DEF BranchesShaped
    <3> HIDE DEF br, k, id
    <3>3. /\ Forest([br EXCEPT ![id] = EmptyBranch], id - 1, k)
          /\ KeepsBranches(br, [br EXCEPT ![id] = EmptyBranch])
          /\ [br EXCEPT ![id] = EmptyBranch][k].status = "liquidated"
      BY <3>2, <2>1, <1>2, <1>4, ResetForest
    <3>4. BranchesShaped(r.branches)
      <4>1. BranchesShaped([br EXCEPT ![id] = EmptyBranch])
        BY <1>2, EmptyShaped, NewBranchShaped
      <4> QED BY <4>1, <3>1
    <3>5. TopLinked(r.vault, r.branches)
      BY <2>1, <2>3, <3>1, <3>3, <1>2 DEF TopLinked
    <3>6. Forest(r.branches, r.vault.total, r.vault.current) /\ KeepsBranches(br, r.branches)
      BY <3>1, <3>3, <2>3
    <3> QED BY <1>7, <1>8, <2>3, <3>4, <3>5, <3>6 DEF r, br
  <2> QED BY <2>5, <2>6
<1>11. r.vault.top \in {next, m}
  <2>1. HasFields(st, StoreFields) /\ HasFields(st.vault, VaultFields)
    BY <1>1, <1>2
  <2>2. r.vault.top = IF next >= m THEN next ELSE m
    BY <2>1 DEF Settle, HasFields, StoreFields, VaultFields
  <2> QED BY <2>2
<1> QED BY <1>7, <1>9, <1>10, <1>11

(* The closing that absorb starts from, where it ends, and the next tick.    *)
AbsorbStart(s, max) ==
  LET taken  == AbsorbTicks(s, max)
      cur    == s.branches[s.vault.current]
      minima == IF s.vault.liquidated THEN cur.minima_tick ELSE cur.connected_minima_tick
  IN  [store |-> taken.store, debt |-> taken.debt, col |-> taken.col,
       id |-> IF s.vault.liquidated THEN s.vault.current
              ELSE IF minima = COLD_TICK THEN 0 ELSE cur.connected,
       minima |-> minima]
AbsorbClosed(s, max) == CloseBranches(AbsorbStart(s, max), max)
AbsorbNext(s, max) ==
  NextTickFrom(AbsorbClosed(s, max).store.bits, PlaceOf(s.vault.top + 1))

LEMMA AbsorbCloses ==
  ASSUME NEW s, Linked(s), s.vault.top \in Ticks, NEW max \in Ticks
  PROVE  LET t == AbsorbTicks(s, max).store
         IN  /\ Linked(t) /\ t.vault = s.vault
             /\ \A k \in Ticks : t.ticks[k].total_ids = s.ticks[k].total_ids
             /\ Closing(AbsorbStart(s, max), t) /\ Closing(AbsorbClosed(s, max), t)
             /\ AbsorbClosed(s, max).minima \in Ticks \union {COLD_TICK}
             /\ AbsorbNext(s, max) \in Ticks \union {COLD_TICK}
<1> DEFINE taken  == AbsorbTicks(s, max)
           t      == taken.store
           cur    == s.branches[s.vault.current]
           minima == IF s.vault.liquidated THEN cur.minima_tick ELSE cur.connected_minima_tick
           id     == IF s.vault.liquidated THEN s.vault.current
                     ELSE IF minima = COLD_TICK THEN 0 ELSE cur.connected
           a0     == AbsorbStart(s, max)
           a      == CloseBranches(a0, max)
           next   == NextTickFrom(a.store.bits, PlaceOf(s.vault.top + 1))
<1>1. /\ Linked(t) /\ t.vault = s.vault
      /\ \A k \in Ticks : t.ticks[k].total_ids = s.ticks[k].total_ids
  BY AbsorbTicksLinked
<1>2. t.branches = s.branches
  BY DEF AbsorbTicks, Linked, Shape, HasFields, StoreFields
<1>3. HasFields(a0, ClosingFields)
  BY DEF AbsorbStart, HasFields, ClosingFields
<1> HIDE DEF taken, t
<1>4. /\ HasFields(t, StoreFields) /\ IndexOK(t.bits) /\ BranchesShaped(t.branches)
      /\ Forest(t.branches, s.vault.total, s.vault.current) /\ TopLinked(s.vault, t.branches)
  BY <1>1 DEF Linked, Shape
<1>5. /\ Tip(t.branches, id) /\ id \in Nat /\ (minima = COLD_TICK <=> id = 0)
      /\ minima \in COLD_TICK .. MAX_TICK + 2
  <2>1. s.vault.current \in BranchIds /\ Chained(t.branches, s.vault.current)
        /\ Woods(t.branches, s.vault.total)
    BY <1>4 DEF Forest
  <2>2. CASE s.vault.liquidated
    <3>1. cur.status = "liquidated" /\ minima = cur.minima_tick /\ id = s.vault.current
      BY <2>2, <1>2, <1>4 DEF TopLinked
    <3>2. Tip(t.branches, id)
      BY <3>1, <1>2, <1>4, ForestTip
    <3>3. minima \in MIN_TICK .. MAX_TICK + 2
      BY <2>1, <3>1, <1>2 DEF Woods
    <3>4. minima # COLD_TICK /\ minima \in COLD_TICK .. MAX_TICK + 2
      <4> HIDE DEF minima
      <4> QED BY <3>3, TickRange
    <3> QED BY <2>1, <3>1, <3>2, <3>4, BranchIdsClosed
  <2>3. CASE ~s.vault.liquidated
    <3>1. cur.status = "not_liquidated" /\ minima = cur.connected_minima_tick
      BY <2>3, <1>2, <1>4 DEF TopLinked
    <3>2. /\ cur.connected \in 0 .. s.vault.current - 1
          /\ minima \in Ticks \union {COLD_TICK} /\ (minima = COLD_TICK <=> cur.connected = 0)
      BY <2>1, <3>1, <1>2 DEF Chained
    <3>3. id = cur.connected
      BY <2>3, <3>2
    <3>4. Tip(t.branches, id)
      BY <3>1, <3>3, <1>2, <1>4, ForestTip
    <3>5. id \in Nat
      BY <2>1, <3>2, <3>3, BranchIdsClosed
    <3>6. minima \in COLD_TICK .. MAX_TICK + 2
      <4> HIDE DEF minima
      <4> QED BY <3>2, TickWindow
    <3> HIDE DEF minima, id
    <3> QED BY <3>2, <3>3, <3>4, <3>5, <3>6
  <2> QED BY <2>2, <2>3
<1>6. Closing(a0, t)
  <2>1. a0.store = t /\ a0.id = id /\ a0.minima = minima
    BY DEF AbsorbStart, t, taken
  <2>2. Woods(t.branches, s.vault.total)
    BY <1>4 DEF Forest
  <2> HIDE DEF a0, id, minima
  <2> QED BY <2>1, <2>2, <1>1, <1>3, <1>4, <1>5 DEF Closing
<1> HIDE DEF a0
<1>7. Closing(a, t) /\ a.minima \in Ticks \union {COLD_TICK}
  BY <1>6, CloseBranchesCloses
<1> HIDE DEF a
<1>8. next \in Ticks \union {COLD_TICK}
  <2>1. a.store.bits = t.bits
    BY <1>7 DEF Closing
  <2>2. PlaceOf(s.vault.top + 1) \in Places
    <3>1. s.vault.top + 1 \in MIN_TICK .. MAX_TICK + 1
      BY TickRange DEF Ticks
    <3> QED BY <3>1, PlaceLeadsBack
  <2> QED BY <2>1, <2>2, <1>4, NextTickFromTyped
<1> HIDE DEF next
<1> QED BY <1>1, <1>6, <1>7, <1>8 DEF AbsorbClosed, AbsorbNext, a0, a, next, t, taken

LEMMA AbsorbLinked ==
  ASSUME NEW s, Linked(s), AbsorbFits(s), s.vault.top \in Ticks, NEW max \in Ticks
  PROVE  /\ Linked(Absorb(s, max))
         /\ \A t \in Ticks : Absorb(s, max).ticks[t].total_ids = s.ticks[t].total_ids
         /\ Absorb(s, max).vault.top \in Ticks \union {COLD_TICK}
<1> DEFINE t    == AbsorbTicks(s, max).store
           a    == AbsorbClosed(s, max)
           next == AbsorbNext(s, max)
           st   == Settle(a, next)
           r    == Absorb(s, max)
<1>1. /\ Linked(t) /\ t.vault = s.vault
      /\ \A k \in Ticks : t.ticks[k].total_ids = s.ticks[k].total_ids
      /\ Closing(a, t) /\ a.minima \in Ticks \union {COLD_TICK}
      /\ next \in Ticks \union {COLD_TICK}
  BY AbsorbCloses
<1>2. r = [st EXCEPT !.vault.absorbed_debt = @ + a.debt, !.vault.absorbed_col = @ + a.col]
  BY DEF Absorb, AbsorbStart, AbsorbClosed, AbsorbNext
<1> HIDE DEF t, a, next
<1>3. AbsorbFits(t)
  BY <1>1 DEF AbsorbFits
<1>4. Linked(st) /\ st.ticks = t.ticks /\ st.vault.top \in Ticks \union {COLD_TICK}
  BY <1>1, <1>3, SettleLinked
<1> HIDE DEF st, r
<1>5. HasFields(st, StoreFields) /\ HasFields(st.vault, VaultFields)
  BY <1>4 DEF Linked, Shape
<1>6. PICK x, y : r.vault = [st.vault EXCEPT !.absorbed_debt = x, !.absorbed_col = y]
  BY <1>2, <1>5 DEF HasFields, StoreFields
<1>7. /\ HasFields(r, StoreFields) /\ r.bits = st.bits /\ r.ticks = st.ticks
       /\ r.tick_ids = st.tick_ids /\ r.branches = st.branches
  BY <1>2, <1>5 DEF HasFields, StoreFields
<1>8. /\ HasFields(r.vault, VaultFields) /\ r.vault.liquidated = st.vault.liquidated
       /\ r.vault.top = st.vault.top /\ r.vault.current = st.vault.current
       /\ r.vault.total = st.vault.total
  BY <1>5, <1>6 DEF HasFields, VaultFields
<1>9. Linked(r)
  <2>1. IndexOK(r.bits) /\ TicksShaped(r.ticks) /\ SameTicks(st.ticks, r.ticks)
    BY <1>4, <1>7 DEF Linked, Shape, SameTicks
  <2> QED BY <2>1, <1>4, <1>7, <1>8, RebuiltLinked
<1> QED BY <1>1, <1>4, <1>7, <1>8, <1>9 DEF r

-----------------------------------------------------------------------------
(* The loop of liquidate.                                                  *)

LEMMA NextTickAboveTyped ==
  ASSUME NEW b, IndexOK(b), NEW place \in Places, NEW lt
  PROVE  NextTickAbove(b, place, lt) \in Ticks \union {COLD_TICK}
<1> DEFINE start(a) == IF a = place[1] THEN place[2] ELSE MAPS - 1
           arrays   == {a \in 0 .. place[1] : TicksDown(b, a, start(a)) # {}}
           top      == Max(arrays)
           here     == TicksDown(b, top, start(top))
           stops    == \E a \in (top + 1) .. place[1] : FirstTick(a, start(a)) < lt
<1>1. NextTickAbove(b, place, lt) = IF arrays = {} \/ stops THEN COLD_TICK ELSE Max(here)
  BY DEF NextTickAbove
<1>2. SUFFICES ASSUME arrays # {} PROVE Max(here) \in Ticks
  BY <1>1
<1>3. \A a \in 0 .. place[1] : a \in 0 .. ARRAYS - 1 /\ start(a) \in 0 .. MAPS - 1
  BY MapConstants, PlaceParts
<1>4. arrays \in SUBSET Int /\ \A a \in arrays : a <= place[1]
  OBVIOUS
<1>5. top \in arrays
  <2> HIDE DEF arrays
  <2>1. place[1] \in Int
    BY PlaceParts
  <2> QED BY <2>1, <1>2, <1>4, MaxIsGreatest
<1>6. top \in 0 .. place[1] /\ here # {}
  <2>1. \A a \in arrays : a \in 0 .. place[1] /\ TicksDown(b, a, start(a)) # {}
    OBVIOUS
  <2> HIDE DEF arrays, start, top
  <2> QED BY <2>1, <1>5
<1> HIDE DEF top, start
<1>7. here \subseteq Ticks
  BY <1>3, <1>6, SearchesMeetSetTicks DEF IndexOK
<1>8. Max(here) \in here
  <2>1. \A t \in Ticks : t \in Int /\ t <= MAX_TICK
    BY TickRange
  <2>2. here \in SUBSET Int /\ here # {} /\ \A t \in here : t <= MAX_TICK
    BY <2>1, <1>6, <1>7
  <2> HIDE DEF here
  <2> QED BY <2>2, TickRange, MaxIsGreatest
<1> QED BY <1>7, <1>8

LoopFields == {"store", "remaining", "debt", "col", "debt_liq", "col_liq", "tick", "perfect",
               "ratio", "next", "branch", "first", "failed", "ended", "factor"}

(* What the loop knows while it goes on: the branch it stands on is the      *)
(* highest there is, and ticks that it took lead there.                     *)
Running(l) ==
  /\ Forest(l.store.branches, l.store.vault.total, l.branch)
  /\ AllRooted(l.store, l.branch)
  /\ l.tick \in Ticks /\ l.next \in Ticks \union {COLD_TICK}

Turning(l, s) ==
  /\ HasFields(l, LoopFields)
  /\ ~l.failed =>
       /\ Shape(l.store)
       /\ \A t \in Ticks : l.store.ticks[t].total_ids = s.ticks[t].total_ids
       /\ IF l.ended THEN Linked(l.store) ELSE Running(l)

(* Tick x as it is written when its debt is liquidated in the branch c.      *)
Taken(ts, x, c, f) ==
  [ts EXCEPT ![x].raw_debt = 0, ![x].is_liquidated = TRUE,
             ![x].liquidation.branch = c, ![x].liquidation.factor = f]

LEMMA TakenTick ==
  ASSUME NEW ts, TicksShaped(ts), NEW x \in Ticks, NEW c, NEW f
  PROVE  LET T == Taken(ts, x, c, f)
         IN  /\ TicksShaped(T) /\ T[x].liquidation.branch = c
             /\ \A t \in Ticks : T[t].total_ids = ts[t].total_ids /\ (t # x => T[t] = ts[t])
<1> DEFINE T   == Taken(ts, x, c, f)
           old == ts[x]
           q   == old.liquidation
<1>1. ts = [t \in Ticks |-> ts[t]] /\ HasFields(old, TickFields) /\ HasFields(q, LiquidationFields)
  BY DEF TicksShaped
<1>2. /\ T = [t \in Ticks |-> T[t]]
      /\ \A t \in Ticks : t # x => T[t] = ts[t]
      /\ T[x] = [old EXCEPT !.raw_debt = 0, !.is_liquidated = TRUE,
                            !.liquidation.branch = c, !.liquidation.factor = f]
  BY <1>1 DEF Taken
<1> HIDE DEF T
<1> DEFINE q1 == [q EXCEPT !.branch = c]
           q2 == [q1 EXCEPT !.factor = f]
           o1 == [old EXCEPT !.raw_debt = 0, !.is_liquidated = TRUE]
           o2 == [o1 EXCEPT !.liquidation.branch = c]
           o3 == [o2 EXCEPT !.liquidation.factor = f]
<1> HIDE DEF old
<1>7. HasFields(o1, TickFields) /\ o1.total_ids = old.total_ids /\ o1.liquidation = q
  BY <1>1 DEF HasFields, TickFields
<1>8. HasFields(o2, TickFields) /\ o2.total_ids = old.total_ids /\ o2.liquidation = q1
  <2> HIDE DEF o1, q
  <2> QED BY <1>7 DEF HasFields, TickFields
<1>9. HasFields(o3, TickFields) /\ o3.total_ids = old.total_ids /\ o3.liquidation = q2
  <2> HIDE DEF o2, q1
  <2> QED BY <1>8 DEF HasFields, TickFields
<1>10. T[x] = o3
  BY <1>2
<1> HIDE DEF q, o1, o2, o3
<1>3. HasFields(q2, LiquidationFields) /\ q2.branch = c
  BY <1>1 DEF HasFields, LiquidationFields
<1> HIDE DEF q1, q2
<1>4. /\ HasFields(T[x], TickFields) /\ HasFields(T[x].liquidation, LiquidationFields)
      /\ T[x].liquidation.branch = c /\ T[x].total_ids = old.total_ids
  BY <1>3, <1>9, <1>10
<1>5. ASSUME NEW t \in Ticks
      PROVE  /\ HasFields(T[t], TickFields) /\ HasFields(T[t].liquidation, LiquidationFields)
             /\ T[t].total_ids = ts[t].total_ids
  <2>1. CASE t = x
    BY <2>1, <1>4 DEF old
  <2>2. CASE t # x
    BY <2>2, <1>2 DEF TicksShaped
  <2> QED BY <2>1, <2>2
<1>6. TicksShaped(T)
  BY <1>2, <1>5 DEF TicksShaped
<1> QED BY <1>2, <1>4, <1>5, <1>6 DEF T

LEMMA GatherRuns ==
  ASSUME NEW l, HasFields(l, LoopFields), Shape(l.store), Running(l), NEW lt
  PROVE  LET g == Gather(l, lt)
         IN  /\ HasFields(g, LoopFields) /\ Shape(g.store) /\ Running(g)
             /\ g.failed = l.failed /\ g.ended = l.ended
             /\ \A t \in Ticks : g.store.ticks[t].total_ids = l.store.ticks[t].total_ids
<1> DEFINE g  == Gather(l, lt)
           st == l.store
           search == l.first \/ (l.perfect /\ l.next = l.tick)
           index  == IF search /\ l.perfect THEN ClearBits(st.bits, l.tick) ELSE st.bits
           T == IF l.perfect
                THEN [st.ticks EXCEPT ![l.tick].raw_debt = 0, ![l.tick].is_liquidated = TRUE,
                        ![l.tick].liquidation.branch = l.branch,
                        ![l.tick].liquidation.factor = l.factor]
                ELSE st.ticks
           next == IF search THEN NextTickAbove(index, PlaceOf(l.tick), lt) ELSE l.next
<1>1. /\ HasFields(st, StoreFields) /\ HasFields(st.vault, VaultFields) /\ IndexOK(st.bits)
      /\ TicksShaped(st.ticks) /\ BranchesShaped(st.branches)
      /\ st.tick_ids = [q \in Records |-> st.tick_ids[q]]
      /\ Forest(st.branches, st.vault.total, l.branch) /\ AllRooted(st, l.branch)
      /\ l.tick \in Ticks /\ l.next \in Ticks \union {COLD_TICK}
  BY DEF Shape, Running
<1>2. PICK debt, col : g = [l EXCEPT !.debt = debt, !.col = col, !.first = FALSE,
                                     !.store.bits = index, !.store.ticks = T, !.next = next]
  BY DEF Gather
<1>3. IndexOK(index)
  BY <1>1, ClearedIndex
<1>4. next \in Ticks \union {COLD_TICK}
  <2>1. PlaceOf(l.tick) \in Places
    <3>1. l.tick \in MIN_TICK .. MAX_TICK + 1
      BY <1>1, TickRange DEF Ticks
    <3> QED BY <3>1, PlaceLeadsBack
  <2> HIDE DEF index
  <2> QED BY <2>1, <1>1, <1>3, NextTickAboveTyped
<1>5. /\ TicksShaped(T) /\ \A t \in Ticks : T[t].total_ids = st.ticks[t].total_ids
      /\ \A t \in Ticks : T[t] = st.ticks[t] \/ T[t].liquidation.branch = l.branch
  <2>1. CASE l.perfect
    <3>1. T = Taken(st.ticks, l.tick, l.branch, l.factor)
      BY <2>1 DEF Taken
    <3> HIDE DEF T
    <3>2. /\ TicksShaped(T) /\ T[l.tick].liquidation.branch = l.branch
          /\ \A t \in Ticks : /\ T[t].total_ids = st.ticks[t].total_ids
                              /\ t # l.tick => T[t] = st.ticks[t]
      BY <3>1, <1>1, TakenTick
    <3> QED BY <3>2
  <2>2. CASE ~l.perfect
    <3>1. T = st.ticks
      BY <2>2
    <3> HIDE DEF T
    <3> QED BY <3>1, <1>1
  <2> QED BY <2>1, <2>2
<1> HIDE DEF g, index, T, next
<1>6. /\ HasFields(g, LoopFields) /\ g.store = [st EXCEPT !.bits = index, !.ticks = T]
      /\ g.next = next /\ g.tick = l.tick /\ g.branch = l.branch
      /\ g.failed = l.failed /\ g.ended = l.ended
  BY <1>2 DEF HasFields, LoopFields
<1>7. /\ HasFields(g.store, StoreFields) /\ g.store.bits = index /\ g.store.ticks = T
      /\ g.store.vault = st.vault /\ g.store.branches = st.branches
      /\ g.store.tick_ids = st.tick_ids
  BY <1>1, <1>6 DEF HasFields, StoreFields
<1>8. Shape(g.store)
  BY <1>1, <1>3, <1>5, <1>7 DEF Shape
<1>9. AllRooted(g.store, g.branch)
  <2>1. l.branch \in BranchIds
    BY <1>1 DEF Forest
  <2>2. ASSUME NEW t \in Ticks, T[t].is_liquidated
        PROVE  Rooted(T[t].liquidation, st.branches, l.branch)
    <3>1. CASE T[t] = st.ticks[t]
      BY <3>1, <2>2, <1>1 DEF AllRooted
    <3>2. CASE T[t].liquidation.branch = l.branch
      BY <3>2, <2>1 DEF Rooted
    <3> QED BY <3>1, <3>2, <1>5
  <2> QED BY <2>2, <1>1, <1>5, <1>6, <1>7 DEF AllRooted
<1>10. Running(g)
  BY <1>1, <1>4, <1>6, <1>7, <1>9 DEF Running
<1> QED BY <1>5, <1>6, <1>7, <1>8, <1>10 DEF g

LEMMA ReferenceInTable ==
  ASSUME NEW l, Running(l), NEW lt \in Ticks
  PROVE  /\ Reference(l, lt).tick \in Ticks
         /\ Reference(l, lt).status = "liquidated" =>
              l.store.branches[l.branch].connected # 0
<1> DEFINE ref == Reference(l, lt)
           b   == l.store.branches[l.branch]
           m   == b.connected_minima_tick
<1>1. /\ m \in Ticks \union {COLD_TICK} /\ (m = COLD_TICK <=> b.connected = 0)
      /\ l.next \in Ticks \union {COLD_TICK}
  BY DEF Running, Forest, Chained
<1>2. m \in Int /\ l.next \in Int /\ lt \in Int /\ COLD_TICK < lt /\ COLD_TICK \in Int
  <2>1. Ticks \union {COLD_TICK} \subseteq Int
    BY TickRange
  <2> HIDE DEF m
  <2> QED BY <2>1, <1>1, TickRange
<1> HIDE DEF m
<1>3. CASE m > Greatest(l.next, lt)
  <2>1. ref.tick = m /\ m # COLD_TICK
    BY <1>2, <1>3 DEF Reference, Greatest, m
  <2> QED BY <2>1, <1>1
<1>4. CASE ~(m > Greatest(l.next, lt)) /\ l.next > lt
  <2>1. ref.tick = l.next /\ ref.status # "liquidated"
    BY <1>4 DEF Reference, m
  <2>2. l.next # COLD_TICK
    BY <1>2, <1>4
  <2> QED BY <2>1, <2>2, <1>1
<1>5. CASE ~(m > Greatest(l.next, lt)) /\ ~(l.next > lt)
  <2>1. ref.tick = lt /\ ref.status # "liquidated"
    BY <1>5 DEF Reference, m
  <2> QED BY <2>1
<1> QED BY <1>3, <1>4, <1>5

LEMMA EndTickInWindow ==
  ASSUME NEW l, NEW ref, NEW debt, NEW col, EndTick(l, ref, debt, col).fits
  PROVE  EndTick(l, ref, debt, col).tick \in MIN_TICK .. MAX_TICK + 2
<1> DEFINE ratio == RatioLeft(l, debt, col)
           tick  == TickAtRatio(ratio)
<1>1. HasTick(ratio)
  BY DEF EndTick
<1> HIDE DEF ratio
<1>2. tick \in Ticks
  BY <1>1, TickAtRatioInTable
<1>3. tick + 1 \in MIN_TICK .. MAX_TICK + 2 /\ tick + 2 \in MIN_TICK .. MAX_TICK + 2
  <2> HIDE DEF tick
  <2> QED BY <1>2, TickAssumption DEF Ticks
<1>4. \/ EndTick(l, ref, debt, col).tick = tick + 2
      \/ EndTick(l, ref, debt, col).tick = tick + 1
  BY DEF EndTick, ratio
<1> QED BY <1>3, <1>4

LEMMA EndForest ==
  ASSUME NEW br, NEW total, NEW c, Forest(br, total, c), NEW br2,
         \A b \in BranchIds : b # c => br2[b] = br[b],
         br2[c].status = "liquidated", br2[c].minima_tick \in MIN_TICK .. MAX_TICK + 2,
         br2[c].connected = br[c].connected,
         br2[c].connected_minima_tick = br[c].connected_minima_tick
  PROVE  Forest(br2, total, c)
<1>1. c \in BranchIds /\ Chained(br, c) /\ Woods(br, total) /\ c <= total
  BY DEF Forest
<1>2. c \in Nat /\ BranchIds \subseteq Nat
  BY <1>1, BranchIdsClosed
<1>3. ASSUME NEW b \in BranchIds, b <= c, Chained(br, b)
      PROVE  Chained(br2, b)
  <2>1. br2[b].connected = br[b].connected
        /\ br2[b].connected_minima_tick = br[b].connected_minima_tick
    OBVIOUS
  <2>2. br[b].connected \in 0 .. b - 1
    BY <1>3 DEF Chained
  <2>3. br[b].connected # 0 => br2[br[b].connected].status = "liquidated"
    <3>1. br[b].connected # 0 => br[b].connected \in BranchIds /\ br[b].connected # c
      BY <2>2, <1>2, <1>3, BranchIdsClosed
    <3> QED BY <3>1, <1>3 DEF Chained
  <2>4. \A d \in BranchIds : br[b].connected < d /\ d < b => br2[d].status # "liquidated"
    BY <1>2, <1>3 DEF Chained
  <2> QED BY <2>1, <2>3, <2>4, <1>3 DEF Chained
<1>4. \A b \in BranchIds : br[b].status = "liquidated" => b <= c
  BY <1>2 DEF Forest
<1>5. ASSUME NEW b \in BranchIds
      PROVE  /\ b > total => br2[b].status = "not_liquidated"
             /\ br2[b].status = "merged" =>
                  br2[b].connected \in 1 .. b - 1 /\ br2[br2[b].connected].status # "not_liquidated"
             /\ br2[b].status = "liquidated" =>
                  Chained(br2, b) /\ br2[b].minima_tick \in MIN_TICK .. MAX_TICK + 2
  <2>1. CASE b = c
    <3>1. ~(b > total)
      BY <2>1, <1>1, <1>2 DEF Woods
    <3> QED BY <2>1, <3>1, <1>1, <1>2, <1>3
  <2>2. CASE b # c
    <3>1. br2[b] = br[b]
      BY <2>2
    <3>2. br[b].status = "merged" => br2[br[b].connected].status # "not_liquidated"
      <4>1. br[b].status = "merged" => br[b].connected \in BranchIds
        BY <1>1, BranchIdsClosed DEF Woods
      <4>2. br[b].status = "merged" => br[br[b].connected].status # "not_liquidated"
        BY <1>1 DEF Woods
      <4> QED BY <4>1, <4>2
    <3> QED BY <3>1, <3>2, <1>1, <1>3, <1>4 DEF Woods
  <2> QED BY <2>1, <2>2
<1>6. \A b \in BranchIds : b > c => br2[b].status # "liquidated"
  BY <1>2 DEF Forest
<1>7. \A b \in BranchIds : b <= total /\ br2[b].status = "not_liquidated" => b = c /\ b = total
  BY DEF Forest
<1>8. Woods(br2, total)
  BY <1>1, <1>5 DEF Woods
<1> QED BY <1>1, <1>2, <1>3, <1>6, <1>7, <1>8 DEF Forest

LEMMA MergeForest ==
  ASSUME NEW br, NEW total, NEW c, Forest(br, total, c), NEW br2,
         \A b \in BranchIds : b # c => br2[b] = br[b],
         br2[c].status = "merged", br2[c].connected = br[c].connected, br[c].connected # 0
  PROVE  Forest(br2, total, br[c].connected)
<1> DEFINE k == br[c].connected
<1>1. c \in BranchIds /\ Chained(br, c) /\ Woods(br, total) /\ c <= total
  BY DEF Forest
<1>2. c \in Nat /\ BranchIds \subseteq Nat /\ total \in Nat
  BY <1>1, BranchIdsClosed DEF Woods
<1>3. k \in 1 .. c - 1 /\ k \in BranchIds /\ br[k].status = "liquidated"
  BY <1>1, <1>2, BranchIdsClosed DEF Chained
<1>4. ASSUME NEW b \in BranchIds, b < c, Chained(br, b)
      PROVE  Chained(br2, b)
  <2>1. br2[b] = br[b] /\ br[b].connected \in 0 .. b - 1
    BY <1>4, <1>2 DEF Chained
  <2>2. br[b].connected # 0 => br2[br[b].connected].status = "liquidated"
    <3>1. br[b].connected # 0 => br[b].connected \in BranchIds /\ br[b].connected # c
      BY <2>1, <1>2, <1>4, BranchIdsClosed
    <3> QED BY <3>1, <1>4 DEF Chained
  <2>3. \A d \in BranchIds : br[b].connected < d /\ d < b => br2[d].status # "liquidated"
    BY <1>2, <1>4 DEF Chained
  <2> QED BY <2>1, <2>2, <2>3, <1>4 DEF Chained
<1>5. ASSUME NEW b \in BranchIds, b > k PROVE br2[b].status # "liquidated"
  <2>1. CASE b < c
    BY <2>1, <1>1, <1>2, <1>5 DEF Chained
  <2>2. CASE b = c
    BY <2>2
  <2>3. CASE b > c
    BY <2>3, <1>2 DEF Forest
  <2> QED BY <2>1, <2>2, <2>3, <1>2
<1>6. ASSUME NEW b \in BranchIds
      PROVE  /\ b > total => br2[b].status = "not_liquidated"
             /\ br2[b].status = "merged" =>
                  br2[b].connected \in 1 .. b - 1 /\ br2[br2[b].connected].status # "not_liquidated"
             /\ br2[b].status = "liquidated" =>
                  Chained(br2, b) /\ br2[b].minima_tick \in MIN_TICK .. MAX_TICK + 2
  <2>1. CASE b = c
    <3>1. ~(b > total)
      BY <2>1, <1>1, <1>2
    <3>2. br2[k] = br[k]
      BY <1>2, <1>3
    <3> QED BY <2>1, <3>1, <3>2, <1>3
  <2>2. CASE b # c
    <3>1. br2[b] = br[b]
      BY <2>2
    <3>2. br[b].status = "merged" => br2[br[b].connected].status # "not_liquidated"
      <4>1. br[b].status = "merged" => br[b].connected \in BranchIds
        BY <1>1, BranchIdsClosed DEF Woods
      <4>2. br[b].status = "merged" => br[br[b].connected].status # "not_liquidated"
        BY <1>1 DEF Woods
      <4> QED BY <4>1, <4>2
    <3>3. br[b].status = "liquidated" => b < c
      BY <2>2, <1>2 DEF Forest
    <3> QED BY <3>1, <3>2, <3>3, <1>1, <1>4 DEF Woods
  <2> QED BY <2>1, <2>2
<1>7. \A b \in BranchIds : b <= total => br2[b].status # "not_liquidated"
  <2>1. ASSUME NEW b \in BranchIds, b <= total, br2[b].status = "not_liquidated" PROVE FALSE
    <3>1. b # c /\ br[b].status = "not_liquidated"
      BY <2>1
    <3> QED BY <3>1, <2>1 DEF Forest
  <2> QED BY <2>1
<1>8. Woods(br2, total)
  BY <1>1, <1>6 DEF Woods
<1>9. br2[k].status = "liquidated" /\ Chained(br2, k) /\ k <= total
  <2>1. Chained(br, k) /\ br2[k] = br[k]
    BY <1>1, <1>2, <1>3 DEF Woods
  <2> QED BY <2>1, <1>1, <1>2, <1>3, <1>4
<1> QED BY <1>3, <1>5, <1>7, <1>8, <1>9 DEF Forest

LEMMA RootedAfter ==
  ASSUME NEW s, NEW c, AllRooted(s, c), NEW r, r.ticks = s.ticks, r.tick_ids = s.tick_ids,
         r.branches[c].status # "not_liquidated",
         \A b \in BranchIds : s.branches[b].status # "not_liquidated" =>
                              r.branches[b].status # "not_liquidated", NEW x
  PROVE  AllRooted(r, x)
<1>1. ASSUME NEW q, Rooted(q, s.branches, c) PROVE Rooted(q, r.branches, x)
  BY <1>1 DEF Rooted
<1> QED BY <1>1 DEF AllRooted

LEMMA SellKeeps ==
  ASSUME NEW l, HasFields(l, LoopFields), NEW debt, NEW col
  PROVE  LET sold == Sell(l, debt, col)
         IN  /\ HasFields(sold, LoopFields) /\ sold.store = l.store /\ sold.branch = l.branch
             /\ sold.tick = l.tick /\ sold.next = l.next /\ sold.ended = l.ended
             /\ sold.remaining = l.remaining
<1> DEFINE sold == Sell(l, debt, col)
<1>1. PICK d, c, dl, cl, f, x :
        sold = [l EXCEPT !.debt = d, !.col = c, !.debt_liq = dl, !.col_liq = cl,
                         !.factor = f, !.failed = x]
  BY DEF Sell
<1> HIDE DEF sold
<1>2. /\ HasFields(sold, LoopFields) /\ sold.store = l.store /\ sold.branch = l.branch
      /\ sold.tick = l.tick /\ sold.next = l.next /\ sold.ended = l.ended
      /\ sold.remaining = l.remaining
  BY <1>1 DEF HasFields, LoopFields
<1> QED BY <1>2 DEF sold

LEMMA EndLinked ==
  ASSUME NEW l, HasFields(l, LoopFields), Shape(l.store), Running(l), NEW lt \in Ticks,
         NEW due, NEW col_due, NEW col_per_debt
  PROVE  LET r == EndLiquidation(l, Reference(l, lt), due, col_due, col_per_debt)
         IN  /\ HasFields(r, LoopFields) /\ r.ended
             /\ ~r.failed => Linked(r.store) /\ r.store.ticks = l.store.ticks
<1> DEFINE ref   == Reference(l, lt)
           r     == EndLiquidation(l, ref, due, col_due, col_per_debt)
           short == due >= l.remaining
           debt  == IF short THEN l.remaining ELSE due
           col   == IF short THEN ColLiquidated(debt, col_per_debt) ELSE col_due
           end   == IF short THEN EndTick(l, ref, debt, col)
                    ELSE [tick |-> ref.tick + 1, partials |-> 1, fits |-> TRUE]
           sold  == Sell(l, debt, col)
           st    == l.store
           c     == l.branch
           failed == sold.failed \/ ~end.fits \/ sold.debt < MINIMUM_BRANCH_DEBT
           m     == end.tick
           B     == [st.branches EXCEPT ![c] =
                      [@ EXCEPT !.status = "liquidated", !.minima_tick = m,
                                !.partials = end.partials, !.debt = sold.debt,
                                !.factor = sold.factor]]
           V     == [st.vault EXCEPT !.liquidated = TRUE, !.top = m, !.current = c]
<1>1. /\ HasFields(sold, LoopFields) /\ sold.store = st
      /\ HasFields(st, StoreFields) /\ HasFields(st.vault, VaultFields) /\ IndexOK(st.bits)
      /\ TicksShaped(st.ticks) /\ BranchesShaped(st.branches)
      /\ st.tick_ids = [q \in Records |-> st.tick_ids[q]]
      /\ Forest(st.branches, st.vault.total, c) /\ AllRooted(st, c)
  BY SellKeeps DEF Shape, Running
<1>2. r = [sold EXCEPT !.ended = TRUE, !.failed = failed,
             !.store.branches[c] = [@ EXCEPT !.status = "liquidated", !.minima_tick = m,
                !.partials = end.partials, !.debt = sold.debt, !.factor = sold.factor],
             !.store.vault = [@ EXCEPT !.liquidated = TRUE, !.top = m, !.current = c]]
  BY DEF EndLiquidation
<1>3. end.fits => m \in MIN_TICK .. MAX_TICK + 2
  <2>1. CASE short
    <3>1. end = EndTick(l, ref, debt, col)
      BY <2>1
    <3> HIDE DEF end, debt, col, ref
    <3>2. end.fits => end.tick \in MIN_TICK .. MAX_TICK + 2
      BY <3>1, EndTickInWindow
    <3> QED BY <3>2
  <2>2. CASE ~short
    <3>1. m = ref.tick + 1
      BY <2>2
    <3>2. ref.tick \in Ticks
      BY ReferenceInTable
    <3> HIDE DEF m, ref
    <3> QED BY <3>1, <3>2, TickAssumption DEF Ticks
  <2> QED BY <2>1, <2>2
<1> HIDE DEF sold
<1>4. /\ HasFields(r, LoopFields) /\ r.ended /\ (~r.failed => end.fits)
      /\ r.store = [st EXCEPT !.branches = B, !.vault = V]
  <2> HIDE DEF end, st, c
  <2>1. /\ HasFields(r, LoopFields) /\ r.ended /\ r.failed = failed
        /\ r.store = [st EXCEPT !.branches[c] = [@ EXCEPT !.status = "liquidated",
                          !.minima_tick = m, !.partials = end.partials, !.debt = sold.debt,
                          !.factor = sold.factor],
                        !.vault = [@ EXCEPT !.liquidated = TRUE, !.top = m, !.current = c]]
    BY <1>1, <1>2 DEF HasFields, LoopFields
  <2>2. r.store = [st EXCEPT !.branches = B, !.vault = V]
    BY <2>1, <1>1 DEF HasFields, StoreFields
  <2> HIDE DEF r, m
  <2> QED BY <2>1, <2>2
<1> HIDE DEF r, B, V
<1>5. /\ HasFields(r.store, StoreFields) /\ r.store.branches = B /\ r.store.vault = V
      /\ r.store.bits = st.bits /\ r.store.ticks = st.ticks /\ r.store.tick_ids = st.tick_ids
  BY <1>1, <1>4 DEF HasFields, StoreFields
<1>6. /\ HasFields(V, VaultFields) /\ V.liquidated /\ V.top = m /\ V.current = c
      /\ V.total = st.vault.total
  <2> HIDE DEF m, c, st
  <2> QED BY <1>1 DEF V, HasFields, VaultFields
<1>7. ASSUME ~r.failed PROVE Linked(r.store)
  <2>1. m \in MIN_TICK .. MAX_TICK + 2
    BY <1>3, <1>4, <1>7
  <2> HIDE DEF m
  <2> DEFINE e == [st.branches[c] EXCEPT !.status = "liquidated", !.minima_tick = m,
                      !.partials = end.partials, !.debt = sold.debt, !.factor = sold.factor]
  <2>2. c \in BranchIds /\ st.branches = [b \in BranchIds |-> st.branches[b]]
        /\ HasFields(st.branches[c], BranchFields)
    BY <1>1 DEF Forest, BranchesShaped
  <2>3. B = [st.branches EXCEPT ![c] = e]
    BY DEF B
  <2> DEFINE old == st.branches[c]
  <2>4. /\ HasFields(e, BranchFields) /\ e.status = "liquidated" /\ e.minima_tick = m
        /\ e.connected = old.connected
        /\ e.connected_minima_tick = old.connected_minima_tick
    <3> HIDE DEF old, end, c, st
    <3>1. HasFields(old, BranchFields)
      BY <2>2 DEF old
    <3> QED BY <3>1 DEF HasFields, BranchFields, old
  <2> HIDE DEF e
  <2>5. BranchesShaped(B)
    <3> HIDE DEF st, c
    <3>1. BranchesShaped([st.branches EXCEPT ![c] = e])
      BY <1>1, <2>2, <2>4, NewBranchShaped
    <3> QED BY <3>1, <2>3
  <2>6. B[c] = e /\ \A b \in BranchIds : b # c => B[b] = st.branches[b]
    <3> HIDE DEF st, c
    <3> QED BY <2>2, <2>3
  <2>7. Forest(B, st.vault.total, c)
    <3> HIDE DEF B, c
    <3> QED BY <1>1, <2>1, <2>4, <2>6, EndForest DEF old
  <2>8. \A b \in BranchIds : st.branches[b].status # "not_liquidated" =>
                             B[b].status # "not_liquidated"
    BY <2>4, <2>6
  <2>9. AllRooted(r.store, 0)
    <3> HIDE DEF st, c
    <3> QED BY <2>4, <2>6, <2>8, <1>1, <1>5, RootedAfter
  <2>10. TopLinked(r.store.vault, r.store.branches)
    <3>1. m \in COLD_TICK .. MAX_TICK + 2 /\ m # COLD_TICK
      BY <2>1, TickRange
    <3> QED BY <3>1, <2>4, <2>6, <1>5, <1>6 DEF TopLinked
  <2>11. Shape(r.store)
    BY <1>1, <1>5, <1>6, <2>5 DEF Shape
  <2>12. Forest(r.store.branches, r.store.vault.total, r.store.vault.current)
    <3> HIDE DEF c, st
    <3> QED BY <2>7, <1>5, <1>6
  <2> QED BY <2>9, <2>10, <2>11, <2>12 DEF Linked
<1> QED BY <1>4, <1>5, <1>7 DEF r

LEMMA MergeRuns ==
  ASSUME NEW l, HasFields(l, LoopFields), Shape(l.store), Running(l),
         l.store.branches[l.branch].connected # 0
  PROVE  LET r == Merge(l)
         IN  /\ HasFields(r, LoopFields) /\ Shape(r.store) /\ Running(r)
             /\ r.ended = l.ended /\ r.store.ticks = l.store.ticks
<1> DEFINE r  == Merge(l)
           st == l.store
           c  == l.branch
           b  == st.branches[c]
           k  == b.connected
           factor == st.branches[k].factor
           link   == DivBigNumber(factor, l.factor)
           e  == [b EXCEPT !.status = "merged", !.minima_tick = COLD_TICK, !.partials = 0,
                           !.debt = 0, !.factor = link]
           B  == [st.branches EXCEPT ![c] = e]
<1>1. /\ HasFields(st, StoreFields) /\ HasFields(st.vault, VaultFields) /\ IndexOK(st.bits)
      /\ TicksShaped(st.ticks) /\ BranchesShaped(st.branches)
      /\ st.tick_ids = [q \in Records |-> st.tick_ids[q]]
      /\ Forest(st.branches, st.vault.total, c) /\ AllRooted(st, c)
      /\ l.tick \in Ticks /\ l.next \in Ticks \union {COLD_TICK}
  BY DEF Shape, Running
<1>2. PICK failed : r = [l EXCEPT !.branch = k, !.factor = factor, !.failed = failed,
                           !.store.branches[c] = [@ EXCEPT !.status = "merged",
                              !.minima_tick = COLD_TICK, !.partials = 0, !.debt = 0,
                              !.factor = link]]
  BY DEF Merge
<1>3. c \in BranchIds /\ st.branches = [d \in BranchIds |-> st.branches[d]]
      /\ HasFields(b, BranchFields)
  BY <1>1 DEF Forest, BranchesShaped
<1> HIDE DEF r, factor, link
<1>4. /\ HasFields(r, LoopFields) /\ r.branch = k /\ r.tick = l.tick /\ r.next = l.next
      /\ r.ended = l.ended /\ r.store = [st EXCEPT !.branches = B]
  <2> HIDE DEF st, c, k
  <2>1. /\ HasFields(r, LoopFields) /\ r.branch = k /\ r.tick = l.tick /\ r.next = l.next
        /\ r.ended = l.ended
        /\ r.store = [st EXCEPT !.branches[c] = [@ EXCEPT !.status = "merged",
                        !.minima_tick = COLD_TICK, !.partials = 0, !.debt = 0, !.factor = link]]
    BY <1>2 DEF HasFields, LoopFields, st
  <2>2. r.store = [st EXCEPT !.branches = B]
    BY <2>1, <1>1 DEF HasFields, StoreFields
  <2> QED BY <2>1, <2>2
<1> HIDE DEF B
<1>5. /\ HasFields(r.store, StoreFields) /\ r.store.branches = B /\ r.store.vault = st.vault
      /\ r.store.bits = st.bits /\ r.store.ticks = st.ticks /\ r.store.tick_ids = st.tick_ids
  BY <1>1, <1>4 DEF HasFields, StoreFields
<1>6. HasFields(e, BranchFields) /\ e.status = "merged" /\ e.connected = k
  <2> HIDE DEF b
  <2> QED BY <1>3 DEF HasFields, BranchFields
<1> HIDE DEF e, k, st, c
<1>7. BranchesShaped(B) /\ B[c] = e /\ \A d \in BranchIds : d # c => B[d] = st.branches[d]
  <2>1. BranchesShaped([st.branches EXCEPT ![c] = e])
    BY <1>1, <1>3, <1>6, NewBranchShaped
  <2> QED BY <2>1, <1>3 DEF B
<1>8. k # 0 /\ k = st.branches[c].connected
  BY DEF k, b, st, c
<1>9. Forest(B, st.vault.total, k)
  BY <1>1, <1>6, <1>7, <1>8, MergeForest
<1>10. AllRooted(r.store, k)
  <2>1. \A d \in BranchIds : st.branches[d].status # "not_liquidated" =>
                             B[d].status # "not_liquidated"
    BY <1>6, <1>7
  <2> QED BY <2>1, <1>1, <1>5, <1>6, <1>7, RootedAfter
<1>11. Shape(r.store)
  BY <1>1, <1>5, <1>7 DEF Shape
<1>12. Running(r)
  BY <1>1, <1>4, <1>5, <1>9, <1>10 DEF Running
<1> QED BY <1>4, <1>5, <1>11, <1>12 DEF r, st

LEMMA OnwardRuns ==
  ASSUME NEW l, HasFields(l, LoopFields), Shape(l.store), Running(l), NEW lt \in Ticks,
         NEW debt, NEW col
  PROVE  LET r == Onward(l, Reference(l, lt), debt, col)
         IN  /\ HasFields(r, LoopFields) /\ Shape(r.store) /\ Running(r)
             /\ r.ended = l.ended /\ r.store.ticks = l.store.ticks
<1> DEFINE ref  == Reference(l, lt)
           r    == Onward(l, ref, debt, col)
           s1   == Sell(l, debt, col)
           sold == [s1 EXCEPT !.remaining = @ - debt]
           at   == IF ref.status = "liquidated" THEN Merge(sold) ELSE sold
<1>1. r = [at EXCEPT !.tick = ref.tick, !.ratio = ref.ratio, !.perfect = (ref.status = "perfect")]
  BY DEF Onward
<1>2. /\ ref.tick \in Ticks
      /\ ref.status = "liquidated" => l.store.branches[l.branch].connected # 0
  BY ReferenceInTable
<1>3. /\ HasFields(s1, LoopFields) /\ s1.store = l.store /\ s1.branch = l.branch
      /\ s1.tick = l.tick /\ s1.next = l.next /\ s1.ended = l.ended
  BY SellKeeps
<1> HIDE DEF s1, ref, r
<1>4. /\ HasFields(sold, LoopFields) /\ sold.store = l.store /\ sold.branch = l.branch
      /\ sold.tick = l.tick /\ sold.next = l.next /\ sold.ended = l.ended
  BY <1>3 DEF HasFields, LoopFields
<1> HIDE DEF sold
<1>5. Shape(sold.store) /\ Running(sold)
  BY <1>4 DEF Running
<1>6. /\ HasFields(at, LoopFields) /\ Shape(at.store) /\ Running(at)
      /\ at.ended = l.ended /\ at.store.ticks = l.store.ticks
  <2>1. CASE ref.status = "liquidated"
    <3>1. at = Merge(sold)
      BY <2>1
    <3>2. sold.store.branches[sold.branch].connected # 0
      BY <2>1, <1>2, <1>4
    <3>3. /\ HasFields(Merge(sold), LoopFields) /\ Shape(Merge(sold).store)
          /\ Running(Merge(sold))
          /\ Merge(sold).ended = sold.ended /\ Merge(sold).store.ticks = sold.store.ticks
      BY <3>2, <1>4, <1>5, MergeRuns
    <3> HIDE DEF at
    <3> QED BY <3>1, <3>3, <1>4
  <2>2. CASE ref.status # "liquidated"
    <3>1. at = sold
      BY <2>2
    <3> HIDE DEF at
    <3> QED BY <3>1, <1>4, <1>5
  <2> QED BY <2>1, <2>2
<1> HIDE DEF at
<1>7. /\ HasFields(r, LoopFields) /\ r.store = at.store /\ r.branch = at.branch
      /\ r.tick = ref.tick /\ r.next = at.next /\ r.ended = at.ended
  BY <1>1, <1>6 DEF HasFields, LoopFields
<1>8. Running(r)
  BY <1>2, <1>6, <1>7 DEF Running
<1> QED BY <1>6, <1>7, <1>8 DEF r, ref

LEMMA TurnTurns ==
  ASSUME NEW l, NEW s, Turning(l, s), NEW lt \in Ticks, NEW col_per_debt
  PROVE  Turning(Turn(l, lt, col_per_debt), s)
<1> DEFINE r   == Turn(l, lt, col_per_debt)
           g   == Gather(l, lt)
           ref == Reference(g, lt)
           all == DebtLiquidated(g, ref, col_per_debt)
           col == ColLiquidated(all, col_per_debt)
           debt == IF all = g.debt THEN all - 1 ELSE all
<1>1. CASE l.ended \/ l.failed
  <2>1. r = l
    BY <1>1 DEF Turn
  <2> QED BY <2>1
<1>2. CASE ~(l.ended \/ l.failed)
  <2>1. HasFields(l, LoopFields) /\ Shape(l.store) /\ Running(l)
        /\ \A t \in Ticks : l.store.ticks[t].total_ids = s.ticks[t].total_ids
    BY <1>2 DEF Turning
  <2>2. /\ HasFields(g, LoopFields) /\ Shape(g.store) /\ Running(g) /\ g.ended = l.ended
        /\ \A t \in Ticks : g.store.ticks[t].total_ids = l.store.ticks[t].total_ids
    BY <2>1, GatherRuns
  <2>3. \/ r = [g EXCEPT !.failed = TRUE]
        \/ r = EndLiquidation(g, ref, debt, col, col_per_debt)
        \/ r = Onward(g, ref, debt, col)
    BY <1>2 DEF Turn
  <2> HIDE DEF g, debt, col, all
  <2>6. CASE r = [g EXCEPT !.failed = TRUE]
    <3>1. HasFields(r, LoopFields) /\ r.failed
      BY <2>2, <2>6 DEF HasFields, LoopFields
    <3> QED BY <3>1 DEF Turning
  <2>4. CASE r = EndLiquidation(g, ref, debt, col, col_per_debt)
    <3>1. /\ HasFields(r, LoopFields) /\ r.ended
          /\ ~r.failed => Linked(r.store) /\ r.store.ticks = g.store.ticks
      <4> HIDE DEF r
      <4> QED BY <2>2, <2>4, EndLinked
    <3> HIDE DEF r
    <3>2. ~r.failed => Shape(r.store)
      BY <3>1 DEF Linked
    <3> QED BY <2>1, <2>2, <3>1, <3>2 DEF Turning, r
  <2>5. CASE r = Onward(g, ref, debt, col)
    <3>1. /\ HasFields(r, LoopFields) /\ Shape(r.store) /\ Running(r)
          /\ r.ended = g.ended /\ r.store.ticks = g.store.ticks
      <4> HIDE DEF r
      <4> QED BY <2>2, <2>5, OnwardRuns
    <3> HIDE DEF r
    <3> QED BY <1>2, <2>1, <2>2, <3>1 DEF Turning, r
  <2> QED BY <2>3, <2>4, <2>5, <2>6
<1> QED BY <1>1, <1>2

(* A is what Liquidated goes through from l on.                             *)
TurnWalk(A, l, lt, col_per_debt) ==
  /\ A[0] = l
  /\ \A n \in 1 .. MaxTurns : A[n] = Turn(A[n - 1], lt, col_per_debt)
  /\ Liquidated(l, lt, col_per_debt) =
       [A[MaxTurns] EXCEPT !.failed = @ \/ ~A[MaxTurns].ended]

LEMMA MaxTurnsCounts == MaxTurns \in Nat \ {0}
BY TickRange, StoreAssumption DEF MaxTurns

LEMMA LiquidatedWalks ==
  ASSUME NEW l, NEW lt, NEW cpd
  PROVE  TurnWalk(Turns(l, lt, cpd), l, lt, cpd)
<1> DEFINE Walks(A, m) ==
             A = [n \in 0 .. m |-> IF n = 0 THEN l ELSE Turn(A[n - 1], lt, cpd)]
           bad == {m \in Nat : ~ \E A : Walks(A, m)}
<1>1. \E A : Walks(A, 0)
  <2> DEFINE A == [n \in 0 .. 0 |-> l]
  <2>1. \A n \in 0 .. 0 : n = 0
    OBVIOUS
  <2>2. A = [n \in 0 .. 0 |-> IF n = 0 THEN l ELSE Turn(A[n - 1], lt, cpd)]
    BY <2>1
  <2> QED BY <2>2
<1>2. ASSUME NEW m \in Nat, NEW A, Walks(A, m)
      PROVE  /\ \A n \in 0 .. m : A[n] = IF n = 0 THEN l ELSE Turn(A[n - 1], lt, cpd)
             /\ \E B : Walks(B, m + 1)
  <2> DEFINE B == [n \in 0 .. m + 1 |-> IF n = 0 THEN l ELSE Turn(A[n - 1], lt, cpd)]
             R == [n \in 0 .. m |-> IF n = 0 THEN l ELSE Turn(A[n - 1], lt, cpd)]
  <2>1. ASSUME NEW n \in 0 .. m
        PROVE  A[n] = (IF n = 0 THEN l ELSE Turn(A[n - 1], lt, cpd)) /\ B[n] = A[n]
    <3>1. A = R
      BY <1>2
    <3>2. R[n] = IF n = 0 THEN l ELSE Turn(A[n - 1], lt, cpd)
      OBVIOUS
    <3>3. B[n] = IF n = 0 THEN l ELSE Turn(A[n - 1], lt, cpd)
      OBVIOUS
    <3> HIDE DEF R, B
    <3> QED BY <3>1, <3>2, <3>3
  <2>2. \A n \in 0 .. m + 1 : n # 0 => B[n - 1] = A[n - 1]
    <3>1. \A n \in 0 .. m + 1 : n # 0 => n - 1 \in 0 .. m
      OBVIOUS
    <3> HIDE DEF B
    <3> QED BY <2>1, <3>1
  <2>3. B = [n \in 0 .. m + 1 |-> IF n = 0 THEN l ELSE Turn(B[n - 1], lt, cpd)]
    BY <2>2
  <2> QED BY <2>1, <2>3
<1> HIDE DEF Walks
<1>3. bad = {}
  <2>1. SUFFICES ASSUME bad # {} PROVE FALSE
    OBVIOUS
  <2>2. PICK m \in bad : \A k \in bad : m <= k
    BY <2>1, LeastNatural
  <2>3. m # 0
    BY <2>2, <1>1
  <2>4. m - 1 \in Nat /\ m - 1 \notin bad
    BY <2>2, <2>3
  <2>5. m - 1 + 1 = m
    BY <2>2
  <2> QED BY <2>2, <2>4, <2>5, <1>2
<1>4. \E C : Walks(C, MaxTurns)
  BY <1>3, MaxTurnsCounts
<1> DEFINE B == CHOOSE C : Walks(C, MaxTurns)
<1>5. B = Turns(l, lt, cpd)
  BY DEF Turns, Walks
<1>6. Walks(B, MaxTurns)
  BY <1>4
<1> HIDE DEF B
<1>7. \A n \in 0 .. MaxTurns : B[n] = IF n = 0 THEN l ELSE Turn(B[n - 1], lt, cpd)
  BY <1>2, <1>6, MaxTurnsCounts
<1>8. B[0] = l
  BY <1>7, MaxTurnsCounts
<1>9. \A n \in 1 .. MaxTurns : B[n] = Turn(B[n - 1], lt, cpd)
  <2>1. \A n \in 1 .. MaxTurns : n \in 0 .. MaxTurns /\ n # 0
    BY MaxTurnsCounts
  <2> QED BY <2>1, <1>7
<1>10. Liquidated(l, lt, cpd) = [B[MaxTurns] EXCEPT !.failed = @ \/ ~B[MaxTurns].ended]
  BY <1>5 DEF Liquidated
<1>11. TurnWalk(B, l, lt, cpd)
  BY <1>8, <1>9, <1>10 DEF TurnWalk
<1> QED BY <1>5, <1>11

LEMMA LiquidatedLinked ==
  ASSUME NEW l, NEW s, Turning(l, s), NEW lt \in Ticks, NEW cpd
  PROVE  LET r == Liquidated(l, lt, cpd)
         IN  ~r.failed =>
               /\ Linked(r.store)
               /\ \A t \in Ticks : r.store.ticks[t].total_ids = s.ticks[t].total_ids
<1>1. PICK A : /\ A[0] = l
               /\ \A n \in 1 .. MaxTurns : A[n] = Turn(A[n - 1], lt, cpd)
               /\ Liquidated(l, lt, cpd) =
                    [A[MaxTurns] EXCEPT !.failed = @ \/ ~A[MaxTurns].ended]
  BY LiquidatedWalks DEF TurnWalk
<1> DEFINE bad == {n \in Nat : n <= MaxTurns /\ ~Turning(A[n], s)}
<1>2. bad = {}
  <2>1. SUFFICES ASSUME bad # {} PROVE FALSE
    OBVIOUS
  <2>2. PICK m \in bad : \A k \in bad : m <= k
    BY <2>1, LeastNatural
  <2>3. m # 0
    BY <2>2, <1>1
  <2>4. m \in 1 .. MaxTurns /\ m - 1 \in Nat /\ m - 1 <= MaxTurns /\ m - 1 \notin bad
    BY <2>2, <2>3, MaxTurnsCounts
  <2>5. Turning(A[m - 1], s)
    BY <2>4
  <2>6. Turning(A[m], s)
    BY <2>4, <2>5, <1>1, TurnTurns
  <2> QED BY <2>2, <2>6
<1> DEFINE last == A[MaxTurns]
           r    == Liquidated(l, lt, cpd)
<1>3. Turning(last, s)
  BY <1>2, MaxTurnsCounts
<1>4. r = [last EXCEPT !.failed = @ \/ ~last.ended]
  BY <1>1
<1> HIDE DEF last, r
<1>5. r.store = last.store /\ (~r.failed => ~last.failed /\ last.ended)
  BY <1>3, <1>4 DEF Turning, HasFields, LoopFields
<1> QED BY <1>3, <1>5 DEF Turning, r

LEMMA StartLinked ==
  ASSUME NEW s, Linked(s), s.vault.top \in Ticks \union {COLD_TICK}, NEW remaining, NEW absorb
  PROVE  LET l == StartLoop(s, remaining, absorb)
         IN  /\ Linked(l.store) /\ l.store.ticks = s.ticks
             /\ l.tick = s.vault.top
             /\ l.tick \in Ticks => Turning(l, s)
<1> DEFINE b == s.branches[s.vault.current]
           ratio == CASE s.vault.top = COLD_TICK -> 0
                      [] s.vault.liquidated -> PartialsRatio(s.vault.top, b.partials)
                      [] OTHER -> RatioAtTick[s.vault.top]
           next == IF s.vault.liquidated THEN COLD_TICK ELSE s.vault.top
           factor == IF b.factor = BigZero THEN InitialFactor ELSE b.factor
           l0 == [store |-> s, remaining |-> remaining, debt |-> 0, col |-> 0, debt_liq |-> 0,
                  col_liq |-> 0, tick |-> s.vault.top, perfect |-> ~s.vault.liquidated,
                  ratio |-> ratio, next |-> next, branch |-> s.vault.current, first |-> TRUE,
                  failed |-> FALSE, ended |-> FALSE, factor |-> factor]
           l == StartLoop(s, remaining, absorb)
<1>1. l = IF absorb THEN BuyAbsorbed(l0) ELSE l0
  BY DEF StartLoop
<1>2. /\ HasFields(s, StoreFields) /\ HasFields(s.vault, VaultFields)
      /\ IndexOK(s.bits) /\ TicksShaped(s.ticks)
  BY DEF Linked, Shape
<1>3. next \in Ticks \union {COLD_TICK}
  OBVIOUS
<1> HIDE DEF ratio, next, factor
<1>4. /\ HasFields(l0, LoopFields) /\ l0.store = s /\ l0.tick = s.vault.top
      /\ l0.next = next /\ l0.branch = s.vault.current /\ ~l0.failed /\ ~l0.ended
  BY DEF HasFields, LoopFields
<1> HIDE DEF l0, l
<1>5. /\ HasFields(l, LoopFields) /\ l.tick = l0.tick /\ l.next = l0.next
      /\ l.branch = l0.branch /\ ~l.failed /\ ~l.ended
      /\ Linked(l.store) /\ l.store.ticks = s.ticks
      /\ l.store.vault.total = s.vault.total /\ l.store.vault.current = s.vault.current
  <2>1. CASE l = l0
    BY <2>1, <1>4
  <2>2. CASE l = BuyAbsorbed(l0)
    <3>1. PICK x1, x2, x3, x4, x5 :
            l = [l0 EXCEPT !.debt_liq = x1, !.col_liq = x2, !.remaining = x3,
                           !.store.vault.absorbed_debt = x4, !.store.vault.absorbed_col = x5]
      BY <2>2 DEF BuyAbsorbed
    <3> DEFINE st == l.store
               l1 == [l0 EXCEPT !.debt_liq = x1, !.col_liq = x2, !.remaining = x3]
               l2 == [l1 EXCEPT !.store.vault.absorbed_debt = x4]
               l3 == [l2 EXCEPT !.store.vault.absorbed_col = x5]
               s1 == [s EXCEPT !.vault.absorbed_debt = x4]
               s2 == [s1 EXCEPT !.vault.absorbed_col = x5]
               Alike(k) == /\ HasFields(k, LoopFields) /\ k.tick = l0.tick /\ k.next = l0.next
                           /\ k.branch = l0.branch /\ k.failed = l0.failed
                           /\ k.ended = l0.ended
    <3>6. l = l3
      BY <3>1
    <3>7. Alike(l1) /\ l1.store = s
      BY <1>4 DEF HasFields, LoopFields
    <3> HIDE DEF l1
    <3>8. Alike(l2) /\ l2.store = s1
      BY <3>7 DEF HasFields, LoopFields
    <3> HIDE DEF l2, s1
    <3>9. Alike(l3) /\ l3.store = s2
      BY <3>8 DEF HasFields, LoopFields
    <3> HIDE DEF l3
    <3>2. /\ HasFields(l, LoopFields) /\ l.tick = l0.tick /\ l.next = l0.next
          /\ l.branch = l0.branch /\ ~l.failed /\ ~l.ended
          /\ st = [s EXCEPT !.vault.absorbed_debt = x4, !.vault.absorbed_col = x5]
      BY <3>6, <3>9, <1>4 DEF s1
    <3> HIDE DEF st
    <3>3. /\ HasFields(st, StoreFields) /\ st.bits = s.bits /\ st.ticks = s.ticks
          /\ st.tick_ids = s.tick_ids /\ st.branches = s.branches
          /\ st.vault = [s.vault EXCEPT !.absorbed_debt = x4, !.absorbed_col = x5]
      BY <3>2, <1>2 DEF HasFields, StoreFields
    <3>4. /\ HasFields(st.vault, VaultFields) /\ st.vault.liquidated = s.vault.liquidated
          /\ st.vault.top = s.vault.top /\ st.vault.current = s.vault.current
          /\ st.vault.total = s.vault.total
      BY <3>3, <1>2 DEF HasFields, VaultFields
    <3>5. Linked(st)
      <4>1. IndexOK(st.bits) /\ TicksShaped(st.ticks) /\ SameTicks(s.ticks, st.ticks)
        BY <1>2, <3>3 DEF SameTicks
      <4> QED BY <4>1, <3>3, <3>4, RebuiltLinked
    <3> QED BY <3>2, <3>3, <3>4, <3>5 DEF st
  <2> QED BY <2>1, <2>2, <1>1
<1>6. ASSUME l.tick \in Ticks PROVE Turning(l, s)
  <2>1. /\ Shape(l.store) /\ Forest(l.store.branches, l.store.vault.total, l.branch)
        /\ AllRooted(l.store, 0)
    BY <1>4, <1>5 DEF Linked
  <2>2. AllRooted(l.store, l.branch)
    <3>1. ASSUME NEW q, Rooted(q, l.store.branches, 0)
          PROVE  Rooted(q, l.store.branches, l.branch)
      BY <3>1, BranchIdsClosed DEF Rooted
    <3> QED BY <2>1, <3>1 DEF AllRooted
  <2>3. Running(l)
    BY <1>3, <1>4, <1>5, <1>6, <2>1, <2>2 DEF Running
  <2> QED BY <1>5, <2>1, <2>3 DEF Turning
<1> QED BY <1>4, <1>5, <1>6 DEF l

LEMMA OutcomeLinked ==
  ASSUME NEW s, Linked(s), s.vault.top \in Ticks \union {COLD_TICK},
         NEW amount, NEW absorb, NEW price, PriceHasTicks(price)
  PROVE  LET r == LiquidationOutcome(s, amount, absorb, price)
         IN  ~r.failed =>
               /\ Linked(r.store)
               /\ \A t \in Ticks : r.store.ticks[t].total_ids = s.ticks[t].total_ids
<1> DEFINE r == LiquidationOutcome(s, amount, absorb, price)
           tick == LiquidationTick(price)
           l == StartLoop(s, (amount * EXCHANGE_PRICES_PRECISION) \div borrow_ex_price, absorb)
<1>1. tick \in Ticks
  BY TickAtRatioInTable DEF PriceHasTicks, LiquidationTick
<1>2. /\ Linked(l.store) /\ l.store.ticks = s.ticks /\ l.tick = s.vault.top
      /\ l.tick \in Ticks => Turning(l, s)
  BY StartLinked
<1>3. \/ ~(l.tick > tick) /\ r = l
      \/ ~(l.remaining > 0) /\ r = l
      \/ r = [l EXCEPT !.failed = TRUE]
      \/ l.tick > tick /\ r = Liquidated(l, tick, ColPerDebt(price))
  BY DEF LiquidationOutcome
<1> HIDE DEF l, tick
<1>4. CASE r = l
  BY <1>2, <1>4
<1>5. CASE r = [l EXCEPT !.failed = TRUE]
  <2>1. r.store = l.store
    BY <1>5
  <2> QED BY <1>2, <2>1
<1>6. CASE l.tick > tick /\ r = Liquidated(l, tick, ColPerDebt(price))
  <2>1. l.tick \in Ticks
    BY <1>1, <1>2, <1>6, TickRange
  <2>2. Turning(l, s)
    BY <1>2, <2>1
  <2> HIDE DEF r
  <2> QED BY <1>1, <1>6, <2>2, LiquidatedLinked DEF r
<1> QED BY <1>3, <1>4, <1>5, <1>6

LEMMA ReducedLinked ==
  ASSUME NEW l, Linked(l.store)
  PROVE  Linked(ReduceTotals(l)) /\ ReduceTotals(l).ticks = l.store.ticks
<1> DEFINE s == l.store
           r == ReduceTotals(l)
<1>1. HasFields(s, StoreFields) /\ HasFields(s.vault, VaultFields) /\ IndexOK(s.bits)
      /\ TicksShaped(s.ticks)
  BY DEF Linked, Shape
<1>2. PICK x, y : r = [s EXCEPT !.vault.supply = x, !.vault.borrow = y]
  BY DEF ReduceTotals
<1>3. Linked(s)
  OBVIOUS
<1> HIDE DEF s, r
<1>4. /\ HasFields(r, StoreFields) /\ r.bits = s.bits /\ r.ticks = s.ticks
      /\ r.tick_ids = s.tick_ids /\ r.branches = s.branches
      /\ r.vault = [s.vault EXCEPT !.supply = x, !.borrow = y]
  BY <1>1, <1>2 DEF HasFields, StoreFields
<1>5. /\ HasFields(r.vault, VaultFields) /\ r.vault.liquidated = s.vault.liquidated
      /\ r.vault.top = s.vault.top /\ r.vault.current = s.vault.current
      /\ r.vault.total = s.vault.total
  BY <1>1, <1>4 DEF HasFields, VaultFields
<1>6. IndexOK(r.bits) /\ TicksShaped(r.ticks) /\ SameTicks(s.ticks, r.ticks)
  BY <1>1, <1>4 DEF SameTicks
<1>7. Linked(r)
  BY <1>3, <1>4, <1>5, <1>6, RebuiltLinked
<1> QED BY <1>4, <1>7 DEF r, s

LEMMA AbsorbedLinked ==
  ASSUME Linked(Store), NEW price, CanAbsorb(price)
  PROVE  /\ Linked(Absorbed(price)) /\ Absorbed(price).vault.top \in Ticks \union {COLD_TICK}
         /\ \A t \in Ticks : Absorbed(price).ticks[t].total_ids = ticks[t].total_ids
<1>1. /\ vault.top \in Ticks /\ Store.vault = vault /\ Store.ticks = ticks
      /\ vault.top > MaxTick(price) => AbsorbFits(Store)
  BY StoreFieldsOfStore DEF CanAbsorb
<1>2. MaxTick(price) \in Ticks
  BY TickAtRatioInTable DEF CanAbsorb, PriceHasTicks, MaxTick
<1>3. CASE vault.top > MaxTick(price)
  <2>1. Absorbed(price) = Absorb(Store, MaxTick(price))
    BY <1>3 DEF Absorbed
  <2> QED BY <2>1, <1>1, <1>2, <1>3, AbsorbLinked
<1>4. CASE ~(vault.top > MaxTick(price))
  BY <1>1, <1>4 DEF Absorbed
<1> QED BY <1>3, <1>4

LEMMA LiquidatesLinked ==
  ASSUME VaultLinked, Liquidates
  PROVE  VaultLinked' /\ positions' = positions
<1>1. Linked(Store) /\ PositionsLinked(ticks, positions)
  BY DEF VaultLinked
<1>2. ASSUME NEW s, Linked(s), Save(s), positions' = positions,
             \A t \in Ticks : s.ticks[t].total_ids = ticks[t].total_ids
      PROVE  VaultLinked'
  <2>1. Store' = s
    BY <1>2, SavedStore DEF Linked, Shape
  <2>2. ticks' = s.ticks
    BY <1>2 DEF Save
  <2>3. PositionsLinked(ticks', positions')
    BY <1>1, <1>2, <2>2 DEF PositionsLinked
  <2> QED BY <1>2, <2>1, <2>3 DEF VaultLinked
<1>3. ASSUME NEW price \in Prices, AbsorbOnly(price)
      PROVE  VaultLinked' /\ positions' = positions
  <2>1. CanAbsorb(price) /\ Save(Absorbed(price)) /\ positions' = positions
    BY <1>3 DEF AbsorbOnly
  <2> QED BY <2>1, <1>1, <1>2, AbsorbedLinked
<1>4. ASSUME NEW price \in Prices, NEW amount \in LiquidationAmounts, NEW absorb \in BOOLEAN,
             Liquidate(amount, absorb, price)
      PROVE  VaultLinked' /\ positions' = positions
  <2> DEFINE s == Absorbed(price)
             l == LiquidationOutcome(s, amount, absorb, price)
  <2>1. CanAbsorb(price) /\ ~l.failed /\ Save(ReduceTotals(l)) /\ positions' = positions
    BY <1>4 DEF Liquidate, Conclude
  <2>2. /\ Linked(s) /\ s.vault.top \in Ticks \union {COLD_TICK} /\ PriceHasTicks(price)
        /\ \A t \in Ticks : s.ticks[t].total_ids = ticks[t].total_ids
    BY <1>1, <2>1, AbsorbedLinked DEF CanAbsorb
  <2> HIDE DEF s
  <2>3. /\ Linked(l.store)
        /\ \A t \in Ticks : l.store.ticks[t].total_ids = s.ticks[t].total_ids
    BY <2>1, <2>2, OutcomeLinked
  <2> HIDE DEF l
  <2>4. /\ Linked(ReduceTotals(l))
        /\ \A t \in Ticks : ReduceTotals(l).ticks[t].total_ids = ticks[t].total_ids
    BY <2>2, <2>3, ReducedLinked
  <2> QED BY <1>2, <2>1, <2>4
<1> QED BY <1>3, <1>4 DEF Liquidates

-----------------------------------------------------------------------------
(* The vault under its instructions.                                       *)

LEMMA InitLinked == Init => VaultLinked
<1> SUFFICES ASSUME Init PROVE VaultLinked
  OBVIOUS
<1>1. /\ vault = EmptyStore.vault /\ bits = NoBits /\ ticks = [t \in Ticks |-> EmptyTick]
      /\ tick_ids = [r \in Records |-> NoLiquidation]
      /\ branches = [b \in BranchIds |-> EmptyBranch]
      /\ positions = [p \in PositionIds |-> NoPosition]
  BY DEF Init, EmptyStore
<1>2. /\ HasFields(vault, VaultFields) /\ ~vault.liquidated /\ vault.top = COLD_TICK
      /\ vault.current = 1 /\ vault.total = 1
  BY <1>1 DEF EmptyStore, HasFields, VaultFields
<1>3. IndexOK(bits)
  <2>1. \A place \in Places : bits[place] = {}
    BY <1>1 DEF NoBits
  <2>2. \A t : t \notin SetTicks(bits)
    BY <2>1, InSetTicks
  <2>3. bits \in [Places -> SUBSET (0 .. TICKS_PER_MAP - 1)]
    BY <1>1 DEF NoBits
  <2> QED BY <2>2, <2>3 DEF IndexOK
<1>4. TicksShaped(ticks) /\ \A t \in Ticks : ~ticks[t].is_liquidated /\ ticks[t].total_ids = 0
  <2>1. /\ HasFields(EmptyTick, TickFields) /\ HasFields(EmptyTick.liquidation, LiquidationFields)
        /\ EmptyTick.total_ids = 0 /\ ~EmptyTick.is_liquidated
    BY DEF EmptyTick, NoLiquidation, Liquidation, HasFields, TickFields, LiquidationFields
  <2>2. 0 \in 0 .. MaxTickIds
    BY StoreAssumption
  <2> QED BY <1>1, <2>1, <2>2 DEF TicksShaped
<1>5. BranchesShaped(branches) /\ \A b \in BranchIds : branches[b] = EmptyBranch
  BY <1>1, EmptyShaped DEF BranchesShaped
<1>6. /\ EmptyBranch.status = "not_liquidated" /\ EmptyBranch.connected = 0
      /\ EmptyBranch.connected_minima_tick = COLD_TICK
  BY DEF EmptyBranch
<1>7. Forest(branches, 1, 1)
  <2>1. 1 \in BranchIds /\ \A b \in BranchIds : b \in Nat /\ b # 0
    BY BranchIdsClosed
  <2>2. Chained(branches, 1)
    BY <2>1, <1>5, <1>6 DEF Chained
  <2>3. Woods(branches, 1)
    BY <2>1, <1>5, <1>6 DEF Woods
  <2> QED BY <2>1, <2>2, <2>3, <1>5, <1>6 DEF Forest
<1>8. AllRooted(Store, 0)
  BY <1>4, StoreFieldsOfStore, StoreAssumption DEF AllRooted
<1>9. TopLinked(vault, branches)
  <2>1. COLD_TICK \in COLD_TICK .. MAX_TICK + 2 /\ 1 \in BranchIds
    BY TickWindow, BranchIdsClosed
  <2> QED BY <2>1, <1>2, <1>5, <1>6 DEF TopLinked
<1>10. Linked(Store)
  BY <1>1, <1>2, <1>3, <1>4, <1>5, <1>7, <1>8, <1>9, StoreFieldsOfStore DEF Linked, Shape
<1>11. PositionsLinked(ticks, positions)
  BY <1>1 DEF PositionsLinked, NoPosition, HasFields
<1> QED BY <1>10, <1>11 DEF VaultLinked

LEMMA OpenedAndClosed ==
  ASSUME VaultLinked, InitPosition \/ \E p \in PositionIds : ClosePosition(p)
  PROVE  VaultLinked' /\ Store' = Store
<1>1. Store' = Store /\ ticks' = ticks
  BY DEF InitPosition, ClosePosition, accounts, Store
<1>2. PositionsLinked(ticks, positions)
  BY DEF VaultLinked
<1>3. CASE InitPosition
  <2> DEFINE n == next_position_id
             e == [positions[n] EXCEPT !.open = TRUE]
  <2>1. n \in PositionIds /\ positions' = [positions EXCEPT ![n] = e]
    BY <1>3 DEF InitPosition
  <2>2. HasFields(positions[n], {"open", "tick", "tick_id", "supply", "dust"})
    BY <1>2, <2>1 DEF PositionsLinked
  <2>3. /\ HasFields(e, {"open", "tick", "tick_id", "supply", "dust"})
        /\ e.tick = positions[n].tick /\ e.tick_id = positions[n].tick_id
    BY <2>2 DEF HasFields
  <2> HIDE DEF e
  <2>4. PositionsLinked(ticks', positions')
    BY <1>1, <1>2, <2>1, <2>3 DEF PositionsLinked
  <2> QED BY <1>1, <2>4 DEF VaultLinked
<1>4. ASSUME NEW p \in PositionIds, ClosePosition(p) PROVE VaultLinked'
  <2>1. positions' = [positions EXCEPT ![p] = NoPosition]
    BY <1>4 DEF ClosePosition
  <2>2. /\ HasFields(NoPosition, {"open", "tick", "tick_id", "supply", "dust"})
        /\ NoPosition.tick = COLD_TICK
    BY DEF NoPosition, HasFields
  <2>3. PositionsLinked(ticks', positions')
    BY <1>1, <1>2, <2>1, <2>2 DEF PositionsLinked
  <2> QED BY <1>1, <2>3 DEF VaultLinked
<1> QED BY <1>1, <1>3, <1>4

LEMMA NextLinked ==
  ASSUME VaultLinked, TopIsBare, [Next]_vars
  PROVE  VaultLinked'
<1>1. CASE UNCHANGED vars
  BY <1>1 DEF vars, VaultLinked, Store
<1>2. CASE InitPosition \/ \E p \in PositionIds : ClosePosition(p)
  BY <1>2, OpenedAndClosed
<1>3. CASE Operates
  <2>1. Bare(Store)
    BY StoreFieldsOfStore DEF TopIsBare, Bare
  <2>2. PICK p \in PositionIds, amounts \in Amounts : Operate(p, amounts[1], amounts[2])
    BY <1>3 DEF Operates
  <2> QED BY <2>1, <2>2, OperateLinked
<1>4. CASE Liquidates
  BY <1>4, LiquidatesLinked
<1> QED BY <1>1, <1>2, <1>3, <1>4 DEF Next

(* As long as no whole tick stands where a liquidation ended on top          *)
(* (utils/liquidate.rs:45-51), ids of branches and of ticks stay linked: a   *)
(* liquidation that is recorded never leads to a branch whose id was taken   *)
(* back or given to another (user.rs, operate, liquidate and absorb;         *)
(* vault_state.rs, set_top_tick).                                            *)
THEOREM LinksKept == Spec /\ []TopIsBare => []VaultLinked
<1>1. Init => VaultLinked
  BY InitLinked
<1>2. VaultLinked /\ TopIsBare /\ [Next]_vars => VaultLinked'
  BY NextLinked
<1> QED BY <1>1, <1>2, PTL DEF Spec

(* An operation on one position leaves what every other one is worth, in     *)
(* debt, collateral and tick, through shared ticks, tick ids that start anew *)
(* and branches that are left, reset or opened (user.rs, operate).           *)
THEOREM OthersKept == Spec /\ []TopIsBare => OthersKeepTheirs
<1> DEFINE Kept == \A old \in {Store}, new \in {Store'}, p, q \in PositionIds :
                     p # q /\ positions'[p] # positions[p] =>
                       Worth(new, positions'[q]) = Worth(old, positions[q])
<1>1. ASSUME VaultLinked, TopIsBare, Next, NEW p \in PositionIds, NEW q \in PositionIds,
             p # q, positions'[p] # positions[p]
      PROVE  Worth(Store', positions'[q]) = Worth(Store, positions[q])
  <2>1. positions = [r \in PositionIds |-> positions[r]]
    BY <1>1 DEF VaultLinked, PositionsLinked
  <2>2. CASE InitPosition \/ \E r \in PositionIds : ClosePosition(r)
    <3>1. Store' = Store
      BY <1>1, <2>2, OpenedAndClosed
    <3>2. PICK n, e : positions' = [positions EXCEPT ![n] = e]
      BY <2>2 DEF InitPosition, ClosePosition
    <3>3. positions'[q] = positions[q]
      BY <1>1, <2>1, <3>2
    <3> QED BY <3>1, <3>3
  <2>3. CASE Operates
    <3>1. Bare(Store)
      BY <1>1, StoreFieldsOfStore DEF TopIsBare, Bare
    <3>2. PICK r \in PositionIds, amounts \in Amounts : Operate(r, amounts[1], amounts[2])
      BY <2>3 DEF Operates
    <3>3. /\ Keeps(Store, Store')
          /\ \A k \in PositionIds : k # r => positions'[k] = positions[k]
      BY <1>1, <3>1, <3>2, OperateLinked
    <3>4. positions'[q] = positions[q]
      BY <1>1, <3>3
    <3>5. /\ TicksShaped(Store.ticks) /\ Leads(Store.branches) /\ AllRooted(Store, 0)
          /\ positions[q].tick = COLD_TICK \/ InTick(Store, positions[q])
      BY <1>1, ForestLeads, StoreFieldsOfStore
         DEF VaultLinked, Linked, Shape, PositionsLinked, InTick
    <3>6. Worth(Store', positions[q]) = Worth(Store, positions[q])
      BY <3>3, <3>5, WorthKept
    <3> QED BY <3>4, <3>6
  <2>4. CASE Liquidates
    BY <1>1, <2>4, LiquidatesLinked
  <2> QED BY <1>1, <2>2, <2>3, <2>4 DEF Next
<1>2. VaultLinked /\ TopIsBare /\ [Next]_vars => [Kept]_vars
  BY <1>1
<1>3. Spec /\ []TopIsBare => []VaultLinked
  BY LinksKept
<1> QED BY <1>2, <1>3, PTL DEF Spec, OthersKeepTheirs

LEMMA ConnectEnds ==
  ASSUME NEW br, NEW total, NEW c, Forest(br, total, c), NEW factor,
         NEW branch \in BranchIds, br[branch].status # "not_liquidated"
  PROVE  LET end == Connect(br, branch, factor)
         IN  /\ end.branch \in BranchIds
             /\ end.wiped \/ br[end.branch].status \notin {"not_liquidated", "merged"}
<1> DEFINE start == [branch |-> branch, factor |-> factor, wiped |-> FALSE]
           Step(A, n) == IF n = 0 THEN start ELSE Onto(br, A[n - 1])
           Fine(at) == /\ at.branch \in BranchIds /\ br[at.branch].status # "not_liquidated"
                       /\ at = [branch |-> at.branch, factor |-> at.factor, wiped |-> at.wiped]
           Over(at) == at.wiped \/ br[at.branch].status # "merged"
           Near(at, n) == Fine(at) /\ (Over(at) \/ at.branch <= MaxBranches - n)
<1>1. PICK A : /\ A = [n \in 0 .. MaxBranches |-> Step(A, n)]
               /\ Connect(br, branch, factor) = A[MaxBranches]
  BY ConnectWalks
<1>2. ASSUME NEW n \in 0 .. MaxBranches PROVE A[n] = Step(A, n)
  <2> DEFINE F == [k \in 0 .. MaxBranches |-> Step(A, k)]
  <2>1. F[n] = Step(A, n)
    OBVIOUS
  <2>2. A = F
    BY <1>1
  <2> HIDE DEF F, Step
  <2> QED BY <2>1, <2>2
<1>3. Near(start, 0)
  BY StoreAssumption DEF BranchIds
<1>4. ASSUME NEW at, NEW n \in Nat, Near(at, n), n < MaxBranches PROVE Near(Onto(br, at), n + 1)
  <2> DEFINE b    == br[at.branch]
             next == MulBigNumber(at.factor, b.factor)
             on   == Onto(br, at)
  <2>1. Fine(on)
    <3>1. KeepsBranches(br, br)
      BY DEF KeepsBranches, SameLinks
    <3> QED BY <1>4, <3>1, ForestLeads, OneStepOn
  <2>2. CASE Over(at)
    BY <1>4, <2>1, <2>2 DEF Onto
  <2>3. CASE ~Over(at) /\ next = MaxMask
    <3>1. on = [at EXCEPT !.factor = MaxMask, !.wiped = TRUE]
      BY <2>3 DEF Onto
    <3>2. on.wiped
      BY <3>1, <1>4
    <3> QED BY <2>1, <3>2
  <2>4. CASE ~Over(at) /\ next # MaxMask
    <3>1. on.branch = b.connected
      BY <2>4 DEF Onto
    <3>2. b.connected \in 1 .. at.branch - 1
      BY <1>4, <2>4 DEF Forest, Woods
    <3>3. at.branch <= MaxBranches - n /\ at.branch \in Nat
      BY <1>4, <2>4, BranchIdsClosed
    <3>4. on.branch <= MaxBranches - (n + 1)
      <4> HIDE DEF on, b
      <4> QED BY <3>1, <3>2, <3>3, StoreAssumption
    <3> QED BY <2>1, <3>4
  <2> QED BY <2>2, <2>3, <2>4
<1> HIDE DEF Near, start
<1> DEFINE bad == {n \in Nat : n <= MaxBranches /\ ~Near(A[n], n)}
<1>5. bad = {}
  <2>1. SUFFICES ASSUME bad # {} PROVE FALSE
    OBVIOUS
  <2>2. PICK m \in bad : \A k \in bad : m <= k
    BY <2>1, LeastNatural
  <2>3. m \in 0 .. MaxBranches
    BY <2>2, StoreAssumption
  <2>4. CASE m = 0
    <3>1. A[0] = start
      BY <2>3, <2>4, <1>2
    <3> QED BY <3>1, <2>2, <2>4, <1>3
  <2>5. CASE m # 0
    <3>1. m - 1 \in Nat /\ m - 1 <= MaxBranches /\ m - 1 \notin bad
      BY <2>2, <2>3, <2>5, StoreAssumption
    <3>2. Near(A[m - 1], m - 1) /\ m - 1 < MaxBranches /\ m - 1 + 1 = m
      BY <2>3, <3>1, StoreAssumption
    <3>3. A[m] = Onto(br, A[m - 1])
      BY <2>3, <2>5, <1>2
    <3>4. Near(Onto(br, A[m - 1]), m - 1 + 1)
      BY <3>1, <3>2, <1>4
    <3> QED BY <3>2, <3>3, <3>4, <2>2
  <2> QED BY <2>4, <2>5
<1>6. Near(A[MaxBranches], MaxBranches)
  BY <1>5, StoreAssumption
<1>7. \A b \in BranchIds : b \in Nat /\ ~(b <= MaxBranches - MaxBranches)
  BY StoreAssumption DEF BranchIds
<1> QED BY <1>1, <1>6, <1>7 DEF Near

LEMMA LinkedLead ==
  ASSUME VaultLinked
  PROVE  PositionsLead
<1> SUFFICES ASSUME NEW p \in PositionIds, HasDebt(p),
                    WasLiquidated(Store, Memory(positions[p])),
                    ~LiquidationOf(Store, Memory(positions[p])).fully
             PROVE  LET l   == LiquidationOf(Store, Memory(positions[p]))
                        end == Connect(branches, l.branch, l.factor)
                    IN  /\ l.branch \in BranchIds /\ end.branch \in BranchIds
                        /\ \/ end.wiped
                           \/ branches[end.branch].status \notin {"not_liquidated", "merged"}
  BY DEF PositionsLead
<1> DEFINE t == positions[p].tick
           i == positions[p].tick_id
           l == LiquidationOf(Store, Memory(positions[p]))
<1>1. /\ Store.branches = branches /\ Linked(Store) /\ TicksShaped(Store.ticks)
      /\ AllRooted(Store, 0) /\ Forest(branches, Store.vault.total, Store.vault.current)
  BY StoreFieldsOfStore DEF VaultLinked, Linked, Shape
<1>2. t \in Ticks /\ i \in 1 .. Store.ticks[t].total_ids
  BY StoreFieldsOfStore DEF VaultLinked, PositionsLinked, HasDebt
<1>3. Memory(positions[p]).tick = t /\ Memory(positions[p]).tick_id = i
  BY MemoryShaped
<1>4. WasOut(Store, t, i) /\ l = Standing(Store, t, i)
  BY <1>3 DEF WasLiquidated, WasOut, LiquidationOf, Standing
<1> HIDE DEF l, t, i
<1>5. Rooted(l, branches, 0)
  BY <1>1, <1>2, <1>4, StandingRooted
<1>6. l.branch \in BranchIds /\ branches[l.branch].status # "not_liquidated"
  BY <1>5, BranchIdsClosed DEF Rooted, l
<1> QED BY <1>1, <1>6, ConnectEnds DEF l

(* The liquidation of a position leads, along merged branches, to one that   *)
(* is liquidated or closed: MaxBranches turns of the search are enough, and  *)
(* it never ends on an id that was taken back or opened again (structs.rs,   *)
(* fetch_latest_position; user.rs, operate, liquidate and absorb).           *)
THEOREM LiquidationsLead == Spec /\ []TopIsBare => []PositionsLead
<1>1. VaultLinked => PositionsLead
  BY LinkedLead
<1>2. Spec /\ []TopIsBare => []VaultLinked
  BY LinksKept
<1> QED BY <1>1, <1>2, PTL
=============================================================================

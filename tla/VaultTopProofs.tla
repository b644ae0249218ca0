--------------------------- MODULE VaultTopProofs ---------------------------
(***************************************************************************)
(* What a vault liquidates next, for every scale, every number of ticks,    *)
(* branches and positions and every price: its index shows exactly the      *)
(* whole ticks, and its top is the highest debt there is.  The invariant    *)
(* High(s) says so of a store, together with the heights of the branches    *)
(* (a branch ends at or above the one it is connected to); within           *)
(* liquidate, where it does not hold, GoingHigh takes its place.  All rests *)
(* on EndsBeside, which the model checker finds true where debts are large  *)
(* against a unit and false of debts of a few units; with it goes the       *)
(* hypothesis TopIsBare of the two modules before this one.  The last part  *)
(* is about the numbers that are left (Stored(s): collateral and            *)
(* connections), and hence the types.                                       *)
(***************************************************************************)
EXTENDS VaultBooksProofs

-----------------------------------------------------------------------------
(* Where the ticks of the index are.                                       *)

Below(q, p) == q[1] < p[1] \/ (q[1] = p[1] /\ q[2] < p[2])
StartOf(p) == FirstTick(p[1], p[2])

LEMMA PlaceApart ==
  ASSUME NEW p \in Places, NEW q \in Places
  PROVE  /\ StartOf(p) \in Int /\ StartOf(q) \in Int
         /\ Below(q, p) => StartOf(q) + TICKS_PER_MAP <= StartOf(p)
         /\ p = q \/ Below(q, p) \/ Below(p, q)
<1> DEFINE T == TICKS_PER_MAP
           M == MAPS
           i == p[1] * M + p[2]
           j == q[1] * M + q[2]
<1>1. T \in Nat \ {0} /\ M \in Nat \ {0} /\ MIN_TICK \in Int
  BY MapConstants, TickRange
<1>2. /\ p[1] \in Nat /\ p[2] \in 0 .. M - 1 /\ p = <<p[1], p[2]>>
      /\ q[1] \in Nat /\ q[2] \in 0 .. M - 1 /\ q = <<q[1], q[2]>>
  BY PlaceParts
<1>3. StartOf(p) = MIN_TICK + i * T /\ StartOf(q) = MIN_TICK + j * T
  BY DEF StartOf, FirstTick
<1> HIDE DEF T, M
<1>4. i \in Nat /\ j \in Nat
  <2>1. p[1] * M \in Nat /\ q[1] * M \in Nat
    BY <1>1, <1>2
  <2> QED BY <2>1, <1>1, <1>2
<1>5. ASSUME Below(q, p) PROVE j + 1 <= i
  <2>1. CASE q[1] = p[1] /\ q[2] < p[2]
    <3>1. q[1] * M = p[1] * M /\ p[1] * M \in Nat
      BY <2>1, <1>1, <1>2
    <3> QED BY <3>1, <2>1, <1>1, <1>2
  <2>2. CASE q[1] < p[1]
    <3>1. \A x \in Nat, y \in Nat : x <= y => M * x <= M * y
      BY <1>1
    <3>2. M * (q[1] + 1) <= M * p[1]
      BY <3>1, <2>2, <1>2
    <3>3. M * (q[1] + 1) = q[1] * M + M /\ M * p[1] = p[1] * M
      BY <1>1, <1>2
    <3>4. q[1] * M \in Nat /\ p[1] * M \in Nat
      BY <1>1, <1>2
    <3> QED BY <3>2, <3>3, <3>4, <1>1, <1>2
  <2> QED BY <2>1, <2>2, <1>5 DEF Below
<1> HIDE DEF i, j
<1>6. ASSUME Below(q, p) PROVE StartOf(q) + T <= StartOf(p)
  <2>1. \A x \in Nat, y \in Nat : x <= y => T * x <= T * y
    BY <1>1
  <2>2. T * (j + 1) <= T * i
    BY <2>1, <1>4, <1>5, <1>6
  <2>3. T * (j + 1) = j * T + T /\ T * i = i * T /\ j * T \in Int /\ i * T \in Int
    BY <1>1, <1>4
  <2> QED BY <2>2, <2>3, <1>1, <1>3
<1>7. StartOf(p) \in Int /\ StartOf(q) \in Int
  <2>1. i * T \in Int /\ j * T \in Int
    BY <1>1, <1>4
  <2> QED BY <2>1, <1>1, <1>3
<1>8. p = q \/ Below(q, p) \/ Below(p, q)
  BY <1>1, <1>2 DEF Below
<1> QED BY <1>6, <1>7, <1>8 DEF T

LEMMA PlacesOrdered ==
  ASSUME NEW p \in Places, NEW q \in Places, NEW k \in 0 .. TICKS_PER_MAP - 1,
         NEW j \in 0 .. TICKS_PER_MAP - 1
  PROVE  /\ StartOf(p) + k <= StartOf(q) + j => p = q \/ Below(p, q)
         /\ StartOf(p) + k = StartOf(q) + j => p = q /\ k = j
<1>1. TICKS_PER_MAP \in Nat
  BY MapConstants
<1>2. /\ StartOf(p) \in Int /\ StartOf(q) \in Int
      /\ Below(q, p) => StartOf(q) + TICKS_PER_MAP <= StartOf(p)
      /\ Below(p, q) => StartOf(p) + TICKS_PER_MAP <= StartOf(q)
      /\ p = q \/ Below(q, p) \/ Below(p, q)
  BY PlaceApart
<1>3. Below(q, p) => StartOf(q) + j < StartOf(p) + k
  BY <1>1, <1>2
<1>4. Below(p, q) => StartOf(p) + k < StartOf(q) + j
  BY <1>1, <1>2
<1> QED BY <1>1, <1>2, <1>3, <1>4

Placed(t) == t \in Int /\ MIN_TICK <= t /\ t <= MAX_TICK + 1

LEMMA TicksPlaced == \A t \in Ticks : Placed(t) /\ Placed(t + 1)
BY TickRange DEF Placed, Ticks

LEMMA InIndex ==
  ASSUME NEW b, IndexOK(b), NEW t, Placed(t)
  PROVE  t \in SetTicks(b) <=> BitOf(t) \in b[PlaceOf(t)]
<1> DEFINE p == PlaceOf(t)
           k == BitOf(t)
<1>1. p \in Places /\ k \in 0 .. TICKS_PER_MAP - 1 /\ StartOf(p) + k = t
  BY PlaceLeadsBack DEF Placed, StartOf
<1>2. b \in [Places -> SUBSET (0 .. TICKS_PER_MAP - 1)]
  BY DEF IndexOK
<1> HIDE DEF p, k
<1>3. ASSUME t \in SetTicks(b) PROVE k \in b[p]
  <2>1. PICK q \in Places : \E j \in b[q] : t = StartOf(q) + j
    BY <1>3, InSetTicks DEF StartOf
  <2>2. PICK j \in b[q] : t = StartOf(q) + j
    BY <2>1
  <2>3. j \in 0 .. TICKS_PER_MAP - 1
    BY <1>2, <2>2
  <2>4. p = q /\ k = j
    BY <1>1, <2>2, <2>3, PlacesOrdered
  <2> QED BY <2>2, <2>4
<1>4. ASSUME k \in b[p] PROVE t \in SetTicks(b)
  BY <1>1, <1>4, InSetTicks DEF StartOf
<1> QED BY <1>3, <1>4 DEF p, k

LEMMA TicksApart ==
  ASSUME NEW t, Placed(t), NEW u, Placed(u)
  PROVE  /\ PlaceOf(t) \in Places /\ BitOf(t) \in 0 .. TICKS_PER_MAP - 1
         /\ PlaceOf(t) = PlaceOf(u) /\ BitOf(t) = BitOf(u) => t = u
         /\ PlaceOf(t) = PlaceOf(u) /\ BitOf(t) >= BitOf(u) => t >= u
         /\ u <= t => PlaceOf(u) = PlaceOf(t) \/ Below(PlaceOf(u), PlaceOf(t))
<1>1. /\ PlaceOf(t) \in Places /\ BitOf(t) \in 0 .. TICKS_PER_MAP - 1
      /\ StartOf(PlaceOf(t)) + BitOf(t) = t
  BY PlaceLeadsBack DEF Placed, StartOf
<1>2. /\ PlaceOf(u) \in Places /\ BitOf(u) \in 0 .. TICKS_PER_MAP - 1
      /\ StartOf(PlaceOf(u)) + BitOf(u) = u
  BY PlaceLeadsBack DEF Placed, StartOf
<1>3. StartOf(PlaceOf(t)) \in Int /\ StartOf(PlaceOf(u)) \in Int
  BY <1>1, <1>2, PlaceApart
<1>4. u <= t => PlaceOf(u) = PlaceOf(t) \/ Below(PlaceOf(u), PlaceOf(t))
  BY <1>1, <1>2, PlacesOrdered
<1>5. TICKS_PER_MAP \in Nat
  BY MapConstants
<1>6. PlaceOf(t) = PlaceOf(u) /\ BitOf(t) = BitOf(u) => t = u
  BY <1>1, <1>2
<1>7. PlaceOf(t) = PlaceOf(u) /\ BitOf(t) >= BitOf(u) => t >= u
  BY <1>1, <1>2, <1>3, <1>5
<1> QED BY <1>1, <1>4, <1>6, <1>7

LEMMA BitSet ==
  ASSUME NEW b, IndexOK(b), NEW t \in Ticks, NEW u \in Ticks
  PROVE  u \in SetTicks(SetBit(b, t)) <=> u = t \/ u \in SetTicks(b)
<1> DEFINE c == SetBit(b, t)
<1>1. IndexOK(c)
  BY ExtendedIndex
<1>2. Placed(t) /\ Placed(u)
  BY TicksPlaced
<1>3. /\ PlaceOf(t) \in Places /\ PlaceOf(u) \in Places
      /\ (PlaceOf(t) = PlaceOf(u) /\ BitOf(t) = BitOf(u) => t = u)
  BY <1>2, TicksApart
<1>4. b \in [Places -> SUBSET (0 .. TICKS_PER_MAP - 1)]
  BY DEF IndexOK
<1>5. c[PlaceOf(u)] = IF PlaceOf(u) = PlaceOf(t) THEN b[PlaceOf(u)] \union {BitOf(t)}
                      ELSE b[PlaceOf(u)]
  BY <1>3, <1>4 DEF SetBit
<1> HIDE DEF c
<1>6. /\ u \in SetTicks(c) <=> BitOf(u) \in c[PlaceOf(u)]
      /\ u \in SetTicks(b) <=> BitOf(u) \in b[PlaceOf(u)]
  BY <1>1, <1>2, InIndex
<1> QED BY <1>3, <1>5, <1>6 DEF c

LEMMA BitCleared ==
  ASSUME NEW b, IndexOK(b), NEW t \in Ticks, NEW u \in Ticks
  PROVE  u \in SetTicks(ClearBit(b, t)) <=> u # t /\ u \in SetTicks(b)
<1> DEFINE c == ClearBit(b, t)
<1>1. IndexOK(c)
  BY ClearedIndex
<1>2. Placed(t) /\ Placed(u)
  BY TicksPlaced
<1>3. /\ PlaceOf(t) \in Places /\ PlaceOf(u) \in Places
      /\ (PlaceOf(t) = PlaceOf(u) /\ BitOf(t) = BitOf(u) => t = u)
  BY <1>2, TicksApart
<1>4. b \in [Places -> SUBSET (0 .. TICKS_PER_MAP - 1)]
  BY DEF IndexOK
<1>5. c[PlaceOf(u)] = IF PlaceOf(u) = PlaceOf(t) THEN b[PlaceOf(u)] \ {BitOf(t)}
                      ELSE b[PlaceOf(u)]
  BY <1>3, <1>4 DEF ClearBit
<1> HIDE DEF c
<1>6. /\ u \in SetTicks(c) <=> BitOf(u) \in c[PlaceOf(u)]
      /\ u \in SetTicks(b) <=> BitOf(u) \in b[PlaceOf(u)]
  BY <1>1, <1>2, InIndex
<1> QED BY <1>3, <1>5, <1>6 DEF c

(* clear_bits takes every bit above the tick in its map with it: none is set *)
(* as long as no tick above it has debt.                                    *)
Under(b, t) == \A u \in SetTicks(b) : u <= t

LEMMA BitsCleared ==
  ASSUME NEW b, IndexOK(b), NEW t \in Ticks, Under(b, t), NEW u \in Ticks
  PROVE  u \in SetTicks(ClearBits(b, t)) <=> u # t /\ u \in SetTicks(b)
<1> DEFINE c == ClearBits(b, t)
<1>1. IndexOK(c)
  BY ClearedIndex
<1>2. Placed(t) /\ Placed(u) /\ t \in Int /\ u \in Int
  BY TicksPlaced DEF Placed
<1>3. /\ PlaceOf(t) \in Places /\ PlaceOf(u) \in Places
      /\ BitOf(t) \in 0 .. TICKS_PER_MAP - 1 /\ BitOf(u) \in 0 .. TICKS_PER_MAP - 1
      /\ (PlaceOf(u) = PlaceOf(t) /\ BitOf(u) >= BitOf(t) => u >= t)
      /\ (PlaceOf(t) = PlaceOf(u) /\ BitOf(t) = BitOf(u) => t = u)
  BY <1>2, TicksApart
<1>4. b \in [Places -> SUBSET (0 .. TICKS_PER_MAP - 1)] /\ TICKS_PER_MAP \in Nat
  BY MapConstants DEF IndexOK
<1>5. c[PlaceOf(u)] = IF PlaceOf(u) = PlaceOf(t) THEN {k \in b[PlaceOf(u)] : k < BitOf(t)}
                      ELSE b[PlaceOf(u)]
  BY <1>3, <1>4 DEF ClearBits
<1> HIDE DEF c
<1>6. /\ u \in SetTicks(c) <=> BitOf(u) \in c[PlaceOf(u)]
      /\ u \in SetTicks(b) <=> BitOf(u) \in b[PlaceOf(u)]
  BY <1>1, <1>2, InIndex
<1>7. u \in SetTicks(b) => u <= t
  BY DEF Under
<1>8. CASE PlaceOf(u) = PlaceOf(t)
  <2>1. BitOf(u) \in Int /\ BitOf(t) \in Int
    BY <1>3, <1>4
  <2>2. ASSUME u # t, u \in SetTicks(b) PROVE BitOf(u) < BitOf(t)
    <3>1. ~(u >= t)
      BY <1>2, <1>7, <2>2
    <3> QED BY <3>1, <2>1, <1>3, <1>8
  <2>3. u = t => ~(BitOf(u) < BitOf(t))
    BY <2>1
  <2> QED BY <1>5, <1>6, <1>8, <2>2, <2>3 DEF c
<1>9. CASE PlaceOf(u) # PlaceOf(t)
  BY <1>5, <1>6, <1>9 DEF c
<1> QED BY <1>8, <1>9

LEMMA AllCleared ==
  ASSUME NEW b, IndexOK(b), NEW S, Within(S, Ticks), NEW u \in Ticks
  PROVE  u \in SetTicks(ClearAll(b, S)) <=> u \notin S /\ u \in SetTicks(b)
<1> DEFINE c == ClearAll(b, S)
<1>1. IndexOK(c)
  BY ClearedIndex
<1>2. Placed(u) /\ \A t \in S : Placed(t)
  BY TicksPlaced DEF Within
<1>3. PlaceOf(u) \in Places
  BY <1>2, TicksApart
<1>4. \A t \in S : PlaceOf(t) = PlaceOf(u) /\ BitOf(t) = BitOf(u) => t = u
  BY <1>2, TicksApart
<1>5. c[PlaceOf(u)] = b[PlaceOf(u)] \ {BitOf(t) : t \in {k \in S : PlaceOf(k) = PlaceOf(u)}}
  BY <1>3 DEF ClearAll
<1> HIDE DEF c
<1>6. /\ u \in SetTicks(c) <=> BitOf(u) \in c[PlaceOf(u)]
      /\ u \in SetTicks(b) <=> BitOf(u) \in b[PlaceOf(u)]
  BY <1>1, <1>2, InIndex
<1> QED BY <1>4, <1>5, <1>6 DEF c

-----------------------------------------------------------------------------
(* What a search from a place finds.                                       *)

LEMMA SearchMeets ==
  ASSUME NEW b, IndexOK(b), NEW t, Placed(t), NEW u \in SetTicks(b), u <= t
  PROVE  /\ u \in TicksFrom(b, PlaceOf(t)) /\ PlaceOf(u) \in Places /\ PlaceOf(t) \in Places
         /\ PlaceOf(u)[1] <= PlaceOf(t)[1]
         /\ \A m \in 0 .. MAPS - 1 :
              (PlaceOf(u)[2] <= m => u \in TicksDown(b, PlaceOf(u)[1], m))
         /\ PlaceOf(u)[1] = PlaceOf(t)[1] => u \in TicksDown(b, PlaceOf(t)[1], PlaceOf(t)[2])
<1> DEFINE p == PlaceOf(u)
           q == PlaceOf(t)
<1>1. Placed(u) /\ u \in Ticks
  BY TicksPlaced DEF IndexOK
<1>2. /\ p \in Places /\ q \in Places /\ (p = q \/ Below(p, q)) /\ BitOf(u) \in b[p]
      /\ StartOf(p) + BitOf(u) = u
  BY <1>1, TicksApart, InIndex, PlaceLeadsBack DEF Placed, StartOf
<1> HIDE DEF p, q
<1>3. /\ p[1] \in 0 .. ARRAYS - 1 /\ p[2] \in 0 .. MAPS - 1 /\ p = <<p[1], p[2]>>
      /\ q[1] \in 0 .. ARRAYS - 1 /\ q[2] \in 0 .. MAPS - 1
  BY <1>2, PlaceParts
<1>4. ARRAYS \in Nat /\ MAPS \in Nat
  BY MapConstants
<1>5. ASSUME NEW m \in 0 .. MAPS - 1, p[2] <= m PROVE u \in TicksDown(b, p[1], m)
  <2>1. p[2] \in 0 .. m
    BY <1>3, <1>4, <1>5
  <2>2. \E bit \in b[<<p[1], p[2]>>] : u = FirstTick(p[1], p[2]) + bit
    BY <1>2, <1>3 DEF StartOf
  <2> QED BY <2>1, <2>2, InTicksDown
<1>6. p[1] <= q[1] /\ (p[1] = q[1] => p[2] <= q[2])
  BY <1>2, <1>3, <1>4 DEF Below
<1>7. p[1] = q[1] => u \in TicksDown(b, q[1], q[2])
  <2>1. SUFFICES ASSUME p[1] = q[1] PROVE u \in TicksDown(b, q[1], q[2])
    OBVIOUS
  <2>2. p[2] <= q[2]
    BY <2>1, <1>6
  <2>3. u \in TicksDown(b, p[1], q[2])
    BY <2>2, <1>3, <1>5
  <2> QED BY <2>1, <2>3
<1>8. u \in TicksFrom(b, q)
  <2>1. CASE p[1] = q[1]
    BY <2>1, <1>7 DEF TicksFrom
  <2>2. CASE p[1] # q[1]
    <3>1. p[1] \in 0 .. q[1] - 1
      BY <2>2, <1>3, <1>4, <1>6
    <3>2. MAPS - 1 \in 0 .. MAPS - 1 /\ p[2] <= MAPS - 1
      BY <1>3, <1>4, MapConstants
    <3>3. u \in TicksDown(b, p[1], MAPS - 1)
      BY <3>2, <1>5
    <3> QED BY <3>1, <3>3 DEF TicksFrom
  <2> QED BY <2>1, <2>2
<1> QED BY <1>2, <1>5, <1>6, <1>7, <1>8 DEF p, q

LEMMA NextIsHighest ==
  ASSUME NEW b, IndexOK(b), NEW t, Placed(t), Under(b, t)
  PROVE  LET n == NextTickFrom(b, PlaceOf(t))
         IN  n \in SetTicks(b) \union {COLD_TICK} /\ Under(b, n) /\ COLD_TICK <= n
<1> DEFINE place == PlaceOf(t)
           S == {COLD_TICK} \union TicksFrom(b, place)
           n == NextTickFrom(b, place)
<1>1. place \in Places /\ 0 \in 0 .. ARRAYS - 1 /\ 0 \in 0 .. MAPS - 1
  BY TicksApart, MapConstants
<1> HIDE DEF place
<1>2. TicksFrom(b, place) \subseteq SetTicks(b) /\ SetTicks(b) \subseteq Ticks
  BY <1>1, SearchesMeetSetTicks DEF IndexOK
<1>3. S \in SUBSET Int /\ S # {} /\ \A x \in S : x <= MAX_TICK
  <2>1. \A x \in Ticks \union {COLD_TICK} : x \in Int /\ x <= MAX_TICK
    BY TickRange
  <2>2. S \subseteq Ticks \union {COLD_TICK} /\ S # {}
    BY <1>2
  <2> HIDE DEF S
  <2> QED BY <2>1, <2>2
<1>4. Max(S) \in S /\ \A x \in S : x <= Max(S)
  <2> HIDE DEF S
  <2> QED BY <1>3, TickRange, MaxIsGreatest
<1>5. n = Max(S)
  BY DEF NextTickFrom
<1>6. ASSUME NEW u \in SetTicks(b) PROVE u \in S
  <2>1. u <= t
    BY DEF Under
  <2>2. u \in TicksFrom(b, place)
    BY <2>1, SearchMeets DEF place
  <2> QED BY <2>2
<1> HIDE DEF n
<1> QED BY <1>2, <1>4, <1>5, <1>6 DEF Under, n, place

LEMMA NextAboveIsHighest ==
  ASSUME NEW b, IndexOK(b), NEW t \in Ticks, Under(b, t), NEW lt \in Ticks
  PROVE  \A u \in SetTicks(b) : u <= NextTickAbove(b, PlaceOf(t), lt) \/ u < lt
<1> DEFINE q        == PlaceOf(t)
           start(a) == IF a = q[1] THEN q[2] ELSE MAPS - 1
           arrays   == {a \in 0 .. q[1] : TicksDown(b, a, start(a)) # {}}
           top      == Max(arrays)
           stops    == \E a \in (top + 1) .. q[1] : FirstTick(a, start(a)) < lt
           found    == TicksDown(b, top, start(top))
           n        == NextTickAbove(b, q, lt)
<1>0. Placed(t)
  BY TicksPlaced
<1>1. n = IF arrays = {} \/ stops THEN COLD_TICK ELSE Max(found)
  BY DEF NextTickAbove
<1>2. /\ q \in Places /\ q[1] \in 0 .. ARRAYS - 1 /\ q[2] \in 0 .. MAPS - 1
      /\ ARRAYS \in Nat \ {0} /\ MAPS \in Nat \ {0} /\ TICKS_PER_MAP \in Nat \ {0}
  BY <1>0, TicksApart, PlaceParts, MapConstants
<1> HIDE DEF q
<1>3. \A a : start(a) \in 0 .. MAPS - 1
  BY <1>2
<1> SUFFICES ASSUME NEW u \in SetTicks(b) PROVE u <= n \/ u < lt
  BY DEF q
<1> DEFINE p == PlaceOf(u)
<1>4. u \in Ticks /\ u \in Int /\ u <= t
  BY TickRange DEF IndexOK, Under
<1>5. /\ p \in Places /\ p[1] <= q[1]
      /\ (\A m \in 0 .. MAPS - 1 : p[2] <= m => u \in TicksDown(b, p[1], m))
      /\ p[1] = q[1] => u \in TicksDown(b, q[1], q[2])
  BY <1>0, <1>4, SearchMeets DEF q
<1>6. /\ p[1] \in 0 .. ARRAYS - 1 /\ p[2] \in 0 .. MAPS - 1
      /\ BitOf(u) \in 0 .. TICKS_PER_MAP - 1 /\ StartOf(p) + BitOf(u) = u
  <2>1. Placed(u)
    BY <1>4, TicksPlaced
  <2> QED BY <2>1, <1>5, PlaceParts, PlaceLeadsBack DEF Placed, StartOf
<1> HIDE DEF p
<1>7. u \in TicksDown(b, p[1], start(p[1]))
  <2>1. CASE p[1] = q[1]
    BY <2>1, <1>5
  <2>2. CASE p[1] # q[1]
    <3>1. start(p[1]) = MAPS - 1 /\ p[2] <= MAPS - 1 /\ MAPS - 1 \in 0 .. MAPS - 1
      BY <2>2, <1>2, <1>6
    <3> QED BY <3>1, <1>5
  <2> QED BY <2>1, <2>2
<1>8. p[1] \in 0 .. q[1]
  BY <1>2, <1>5, <1>6
<1>9. p[1] \in arrays
  BY <1>7, <1>8
<1>10. top \in arrays /\ \A a \in arrays : a <= top
  <2>1. arrays \in SUBSET Int /\ \A a \in arrays : a <= q[1]
    BY <1>2
  <2>2. arrays # {}
    BY <1>9
  <2>3. q[1] \in Int
    BY <1>2
  <2> HIDE DEF arrays
  <2> QED BY <2>1, <2>2, <2>3, MaxIsGreatest
<1>11. top \in 0 .. q[1] /\ p[1] <= top /\ arrays # {}
  BY <1>9, <1>10
<1> HIDE DEF top, arrays
<1>12. ASSUME NEW c \in Places, Below(p, c) PROVE u < StartOf(c)
  <2>1. StartOf(p) + TICKS_PER_MAP <= StartOf(c) /\ StartOf(p) \in Int /\ StartOf(c) \in Int
    BY <1>5, <1>12, PlaceApart
  <2> QED BY <2>1, <1>2, <1>6
<1>13. CASE stops
  <2>1. PICK a \in (top + 1) .. q[1] : FirstTick(a, start(a)) < lt
    BY <1>13
  <2> DEFINE c == <<a, start(a)>>
  <2>2. c \in Places /\ Below(p, c) /\ StartOf(c) < lt
    <3>1. a \in 0 .. ARRAYS - 1 /\ p[1] < a
      BY <1>2, <1>6, <1>11
    <3> QED BY <3>1, <1>3, <2>1 DEF Places, Below, StartOf
  <2> HIDE DEF c
  <2>3. u < StartOf(c) /\ StartOf(c) \in Int /\ lt \in Int
    BY <1>12, <2>2, PlaceApart, TickRange
  <2> QED BY <2>2, <2>3, <1>4
<1>14. CASE ~stops
  <2>1. n = Max(found)
    BY <1>1, <1>11, <1>14
  <2>2. found # {} /\ found \subseteq SetTicks(b)
    <3>1. found # {}
      BY <1>10 DEF arrays
    <3>2. q \in Places /\ top \in 0 .. ARRAYS - 1 /\ start(top) \in 0 .. MAPS - 1
      BY <1>2, <1>3, <1>11
    <3> QED BY <3>1, <3>2, SearchesMeetSetTicks
  <2>3. found \in SUBSET Int /\ \A x \in found : x <= MAX_TICK
    BY <2>2, TickRange DEF IndexOK
  <2>4. n \in found /\ \A x \in found : x <= n
    <3> HIDE DEF found
    <3> QED BY <2>1, <2>2, <2>3, TickRange, MaxIsGreatest
  <2>5. CASE p[1] = top
    BY <2>4, <2>5, <1>7
  <2>6. CASE p[1] # top
    <3>1. PICK m \in 0 .. start(top) : \E bit \in b[<<top, m>>] : n = FirstTick(top, m) + bit
      BY <2>4, InTicksDown
    <3>2. PICK bit \in b[<<top, m>>] : n = FirstTick(top, m) + bit
      BY <3>1
    <3> DEFINE c == <<top, m>>
    <3>3. c \in Places /\ Below(p, c) /\ n = StartOf(c) + bit
      <4>1. top \in 0 .. ARRAYS - 1 /\ m \in 0 .. MAPS - 1 /\ p[1] < top
        BY <1>2, <1>3, <1>6, <1>11, <2>6, <3>1
      <4> QED BY <4>1, <3>2 DEF Places, Below, StartOf
    <3>4. bit \in 0 .. TICKS_PER_MAP - 1
      BY <3>2, <3>3 DEF IndexOK
    <3> HIDE DEF c
    <3>5. u < StartOf(c) /\ StartOf(c) \in Int
      BY <1>12, <3>3, PlaceApart
    <3> QED BY <3>3, <3>4, <3>5, <1>2, <1>4
  <2> QED BY <2>5, <2>6
<1> QED BY <1>13, <1>14

-----------------------------------------------------------------------------
(* What makes the top tick the highest debt: the index shows the ticks with *)
(* debt, liquidated branches end above each other and know where the one    *)
(* below them ended, and nothing stands above the top.                      *)

Beneath(b, t) == \A u \in SetTicks(b) : u < t
Whole(tick) == tick.raw_debt > 0 /\ ~tick.is_liquidated
Shows(b, ts) == \A t \in Ticks : t \in SetTicks(b) <=> Whole(ts[t])

MinimaOf(br, k) == IF k = 0 THEN COLD_TICK ELSE br[k].minima_tick
Hung(br, b) == br[b].connected_minima_tick = MinimaOf(br, br[b].connected)
Heights(br) ==
  \A b \in BranchIds : br[b].status = "liquidated" =>
    /\ Hung(br, b)
    /\ \A d \in BranchIds :
         d < b /\ br[d].status = "liquidated" => br[d].minima_tick <= br[b].minima_tick

TopPlaced(v, br, b) ==
  IF v.liquidated
  THEN br[v.current].minima_tick = v.top /\ Beneath(b, v.top)
  ELSE /\ Hung(br, v.current) /\ br[v.current].connected_minima_tick <= v.top
       /\ Under(b, v.top) /\ v.top \in SetTicks(b) \union {COLD_TICK}

High(s) ==
  /\ Shows(s.bits, s.ticks) /\ Heights(s.branches)
  /\ TopPlaced(s.vault, s.branches, s.bits)

\* Only branches that were liquidated before are, and they are where they were.
StandsAs(b1, b2) ==
  /\ b2.minima_tick = b1.minima_tick /\ b2.connected = b1.connected
  /\ b2.connected_minima_tick = b1.connected_minima_tick
Fewer(br, br2) ==
  \A b \in BranchIds :
    br2[b].status = "liquidated" => br[b].status = "liquidated" /\ StandsAs(br[b], br2[b])

LEMMA HungKept ==
  ASSUME NEW br, NEW br2, Fewer(br, br2), NEW b, NEW c \in BranchIds, Chained(br2, c), Hung(br, b),
         br2[c].connected = br[b].connected,
         br2[c].connected_minima_tick = br[b].connected_minima_tick
  PROVE  Hung(br2, c)
<1> DEFINE k == br2[c].connected
<1>1. k \in 0 .. c - 1 /\ (k # 0 => br2[k].status = "liquidated")
  BY DEF Chained
<1>2. k # 0 => k \in BranchIds
  BY <1>1, StoreAssumption DEF BranchIds
<1>3. k # 0 => br2[k].minima_tick = br[k].minima_tick
  BY <1>1, <1>2 DEF Fewer, StandsAs
<1> QED BY <1>3 DEF Hung, MinimaOf

LEMMA HeightsKept ==
  ASSUME NEW br, Heights(br), NEW br2, NEW total, Woods(br2, total), Fewer(br, br2)
  PROVE  Heights(br2)
<1>1. ASSUME NEW b \in BranchIds, br2[b].status = "liquidated"
      PROVE  /\ Hung(br2, b)
             /\ \A d \in BranchIds :
                  d < b /\ br2[d].status = "liquidated" => br2[d].minima_tick <= br2[b].minima_tick
  <2>1. br[b].status = "liquidated" /\ StandsAs(br[b], br2[b])
    BY <1>1 DEF Fewer
  <2>2. Chained(br2, b)
    BY <1>1 DEF Woods
  <2>3. Hung(br, b)
    BY <2>1 DEF Heights
  <2>4. Hung(br2, b)
    BY <2>1, <2>2, <2>3, HungKept DEF StandsAs
  <2>5. ASSUME NEW d \in BranchIds, d < b, br2[d].status = "liquidated"
        PROVE  br2[d].minima_tick <= br2[b].minima_tick
    <3>1. br[d].status = "liquidated" /\ br2[d].minima_tick = br[d].minima_tick
      BY <2>5 DEF Fewer, StandsAs
    <3>2. br[d].minima_tick <= br[b].minima_tick
      BY <2>1, <2>5, <3>1 DEF Heights
    <3> QED BY <2>1, <3>1, <3>2 DEF StandsAs
  <2> QED BY <2>4, <2>5
<1> QED BY <1>1 DEF Heights

(* Nothing of this depends on amounts.                                      *)
SameHeights(s, r) ==
  /\ r.vault.liquidated = s.vault.liquidated /\ r.vault.top = s.vault.top
  /\ r.vault.current = s.vault.current /\ r.bits = s.bits
  /\ \A t \in Ticks : Whole(r.ticks[t]) <=> Whole(s.ticks[t])
  /\ \A b \in BranchIds :
       r.branches[b].status = s.branches[b].status /\ StandsAs(s.branches[b], r.branches[b])

LEMMA SameHigh ==
  ASSUME NEW s, High(s), NEW r, Linked(r), SameHeights(s, r)
  PROVE  High(r)
<1> DEFINE c == s.vault.current
<1>1. /\ r.vault.liquidated = s.vault.liquidated /\ r.vault.top = s.vault.top
      /\ r.vault.current = c /\ r.bits = s.bits
      /\ \A t \in Ticks : Whole(r.ticks[t]) <=> Whole(s.ticks[t])
      /\ \A b \in BranchIds :
           r.branches[b].status = s.branches[b].status /\ StandsAs(s.branches[b], r.branches[b])
  BY DEF SameHeights
<1>2. Woods(r.branches, r.vault.total) /\ c \in BranchIds /\ Chained(r.branches, c)
  BY <1>1 DEF Linked, Forest
<1>3. Fewer(s.branches, r.branches)
  BY <1>1 DEF Fewer
<1>4. Heights(r.branches)
  BY <1>2, <1>3, HeightsKept DEF High
<1>5. StandsAs(s.branches[c], r.branches[c])
  BY <1>1, <1>2
<1>6. Hung(s.branches, c) => Hung(r.branches, c)
  BY <1>2, <1>3, <1>5, HungKept DEF StandsAs
<1>7. TopPlaced(r.vault, r.branches, r.bits)
  BY <1>1, <1>5, <1>6 DEF High, TopPlaced, StandsAs
<1>8. Shows(r.bits, r.ticks)
  BY <1>1 DEF High, Shows
<1> QED BY <1>4, <1>7, <1>8 DEF High

-----------------------------------------------------------------------------
(* operate                                                                  *)

LEMMA SetTopTickHigh ==
  ASSUME NEW s, Linked(s), High(s), ~s.vault.liquidated, s.vault.top \in Ticks
  PROVE  LET r == SetTopTick(s)
         IN  /\ Heights(r.branches) /\ TopPlaced(r.vault, r.branches, r.bits)
             /\ IndexOK(r.bits)
             /\ \A u \in Ticks : u \in SetTicks(r.bits) <=>
                                 u # s.vault.top /\ u \in SetTicks(s.bits)
<1> DEFINE r    == SetTopTick(s)
           id   == s.vault.current
           top  == s.vault.top
           cur  == s.branches[id]
           cut  == ClearBits(s.bits, top)
           next == NextTickFrom(cut, PlaceOf(top))
           k    == cur.connected
<1>1. /\ HasFields(s, StoreFields) /\ HasFields(s.vault, VaultFields) /\ IndexOK(s.bits)
      /\ BranchesShaped(s.branches) /\ cur.status = "not_liquidated"
      /\ id \in BranchIds /\ Chained(s.branches, id)
  BY DEF Linked, Shape, TopLinked, Forest
<1>2. /\ Heights(s.branches) /\ Hung(s.branches, id) /\ cur.connected_minima_tick <= top
      /\ Under(s.bits, top)
  BY DEF High, TopPlaced
<1>3. /\ IndexOK(cut)
      /\ \A u \in Ticks : u \in SetTicks(cut) <=> u # top /\ u \in SetTicks(s.bits)
  BY <1>1, <1>2, ClearedIndex, BitsCleared
<1> HIDE DEF cut
<1>4. Under(cut, top)
  <2>1. \A u \in SetTicks(cut) : u \in Ticks
    BY <1>3 DEF IndexOK
  <2> QED BY <1>2, <1>3, <2>1 DEF Under
<1>5. next \in SetTicks(cut) \union {COLD_TICK} /\ Under(cut, next) /\ COLD_TICK <= next
  BY <1>3, <1>4, TicksPlaced, NextIsHighest
<1>6. next \in Int
  BY <1>3, <1>5, TickRange DEF IndexOK
<1> HIDE DEF next
<1>7. Linked(r)
  BY SetTopTickLinked
<1>8. Woods(r.branches, r.vault.total)
  BY <1>7 DEF Linked, Forest
<1>9. CASE cur.connected_minima_tick <= next
  <2>1. r = [s EXCEPT !.bits = cut, !.vault.top = next, !.vault.liquidated = FALSE]
    BY <1>9 DEF SetTopTick, cut, next
  <2> HIDE DEF r
  <2>2. /\ r.branches = s.branches /\ r.bits = cut
        /\ r.vault = [s.vault EXCEPT !.top = next, !.liquidated = FALSE]
    BY <1>1, <2>1 DEF HasFields, StoreFields
  <2>3. r.vault.current = id /\ r.vault.top = next /\ r.vault.liquidated = FALSE
    BY <1>1, <2>2 DEF HasFields, VaultFields
  <2>4. TopPlaced(r.vault, r.branches, r.bits)
    BY <1>2, <1>5, <1>9, <2>2, <2>3 DEF TopPlaced
  <2> QED BY <1>2, <1>3, <2>2, <2>4 DEF r
<1>10. CASE ~(cur.connected_minima_tick <= next)
  <2> DEFINE m == cur.connected_minima_tick
  <2>1. r = [s EXCEPT !.bits = cut, !.branches[id] = EmptyBranch,
                      !.vault.liquidated = TRUE, !.vault.top = m,
                      !.vault.current = k, !.vault.total = id - 1]
    BY <1>10 DEF SetTopTick, cut, next
  <2> HIDE DEF r
  <2>2. /\ r.branches = [s.branches EXCEPT ![id] = EmptyBranch] /\ r.bits = cut
        /\ r.vault = [s.vault EXCEPT !.liquidated = TRUE, !.top = m,
                                     !.current = k, !.total = id - 1]
    BY <1>1, <2>1 DEF HasFields, StoreFields
  <2>3. r.vault.current = k /\ r.vault.top = m /\ r.vault.liquidated = TRUE
    BY <1>1, <2>2 DEF HasFields, VaultFields
  <2>4. \A b \in BranchIds : r.branches[b] = IF b = id THEN EmptyBranch ELSE s.branches[b]
    BY <1>1, <2>2 DEF BranchesShaped
  <2>5. EmptyBranch.status # "liquidated"
    BY DEF EmptyBranch
  <2>6. Fewer(s.branches, r.branches)
    BY <2>4, <2>5 DEF Fewer, StandsAs
  <2>7. m \in Int /\ next < m /\ m # COLD_TICK
    <3>1. m \in Ticks \/ m = COLD_TICK
      BY <1>1 DEF Chained
    <3>2. m \in Int
      BY <3>1, TickRange
    <3>3. next < m
      BY <3>2, <1>6, <1>10
    <3> QED BY <3>2, <3>3, <1>5, <1>6, TickRange
  <2>8. k # 0 /\ k \in BranchIds /\ k # id
    <3>1. k # 0 /\ k \in 0 .. id - 1
      BY <1>1, <2>7 DEF Chained
    <3> QED BY <3>1, <1>1, StoreAssumption DEF BranchIds
  <2>9. r.branches[k].minima_tick = m
    BY <1>2, <2>4, <2>8 DEF Hung, MinimaOf
  <2>10. Beneath(cut, m)
    <3>1. ASSUME NEW u \in SetTicks(cut) PROVE u < m
      <4>1. u \in Int /\ u <= next
        BY <1>3, <1>5, TickRange DEF IndexOK, Under
      <4> QED BY <4>1, <1>6, <2>7
    <3> QED BY <3>1 DEF Beneath
  <2>11. TopPlaced(r.vault, r.branches, r.bits)
    BY <2>2, <2>3, <2>9, <2>10 DEF TopPlaced
  <2>12. Heights(r.branches)
    BY <1>2, <1>8, <2>6, HeightsKept DEF r
  <2> QED BY <1>3, <2>2, <2>11, <2>12 DEF r
<1> QED BY <1>9, <1>10

LEMMA PlacedAlike ==
  ASSUME NEW v, NEW br, NEW b, NEW c, TopPlaced(v, br, b), SetTicks(c) = SetTicks(b)
  PROVE  TopPlaced(v, br, c)
BY DEF TopPlaced, Under, Beneath

\* One tick gets another debt and the bit that goes with it.
TickWritten(s, r, t, b) ==
  /\ r.vault = s.vault /\ r.branches = s.branches /\ r.bits = b
  /\ \A u \in Ticks : u # t => r.ticks[u] = s.ticks[u]

RestIs(s, r, t, x, b) == r = [s EXCEPT !.ticks[t].raw_debt = x, !.bits = b]

LEMMA RestWritten ==
  ASSUME NEW s, HasFields(s, StoreFields), TicksShaped(s.ticks), NEW t \in Ticks, NEW x, NEW b,
         NEW r, RestIs(s, r, t, x, b)
  PROVE  /\ TickWritten(s, r, t, b) /\ r.ticks[t].raw_debt = x
         /\ r.ticks[t].is_liquidated = s.ticks[t].is_liquidated
<1> DEFINE ts == [s.ticks EXCEPT ![t].raw_debt = x]
<1>1. r.vault = s.vault /\ r.branches = s.branches /\ r.bits = b /\ r.ticks = ts
  BY DEF HasFields, StoreFields, RestIs
<1>2. /\ HasFields(s.ticks[t], TickFields)
      /\ ts[t] = [s.ticks[t] EXCEPT !.raw_debt = x]
      /\ \A u \in Ticks : u # t => ts[u] = s.ticks[u]
  BY DEF TicksShaped
<1> HIDE DEF ts
<1>3. ts[t].raw_debt = x /\ ts[t].is_liquidated = s.ticks[t].is_liquidated
  BY <1>2 DEF HasFields, TickFields
<1> QED BY <1>1, <1>2, <1>3 DEF TickWritten

LEMMA LeaveTickHigh ==
  ASSUME NEW s, Linked(s), Booked(s), High(s), NEW m, m.tick \in Ticks, m.debt \in Nat,
         s.ticks[m.tick].raw_debt # 0, ~s.ticks[m.tick].is_liquidated
  PROVE  High(LeaveTick(s, m))
<1> DEFINE t    == m.tick
           raw  == s.ticks[t].raw_debt
           rest == SaturatingSub(raw, m.debt)
           top  == IF t = s.vault.top THEN SetTopTick(s) ELSE s
           r    == LeaveTick(s, m)
<1>1. /\ HasFields(s, StoreFields) /\ IndexOK(s.bits) /\ TicksShaped(s.ticks)
      /\ Shows(s.bits, s.ticks) /\ Heights(s.branches)
      /\ TopPlaced(s.vault, s.branches, s.bits)
  BY DEF Linked, Shape, High
<1>2. raw \in Nat /\ t \in SetTicks(s.bits) /\ MINIMUM_TICK_DEBT \in Nat \ {0} /\ t \in Int
  <2>1. raw \in Nat
    BY DEF Booked, TickBooked
  <2>2. Whole(s.ticks[t])
    BY <2>1 DEF Whole
  <2> QED BY <2>1, <2>2, <1>1, DebtConstants, TickRange DEF Shows
<1>3. rest \in Int
  BY <1>2, m.debt \in Nat DEF SaturatingSub
<1>4. CASE rest >= MINIMUM_TICK_DEBT
  <2>1. RestIs(s, r, t, rest, s.bits)
    BY <1>1, <1>4 DEF LeaveTick, HasFields, StoreFields, RestIs
  <2> HIDE DEF r, rest
  <2>2. /\ TickWritten(s, r, t, s.bits) /\ r.ticks[t].raw_debt = rest
        /\ r.ticks[t].is_liquidated = s.ticks[t].is_liquidated
    BY <1>1, <2>1, RestWritten
  <2>3. Whole(r.ticks[t])
    <3>1. rest > 0
      BY <1>2, <1>3, <1>4
    <3>2. ~s.ticks[t].is_liquidated
      OBVIOUS
    <3> QED BY <2>2, <3>1, <3>2 DEF Whole
  <2>4. Shows(s.bits, r.ticks)
    BY <1>1, <1>2, <2>2, <2>3 DEF Shows, TickWritten
  <2> QED BY <1>1, <2>2, <2>4 DEF High, TickWritten, r
<1>5. CASE ~(rest >= MINIMUM_TICK_DEBT)
  <2>1. r = [top EXCEPT !.ticks[t].raw_debt = 0, !.bits = ClearBit(@, t)]
    BY <1>5 DEF LeaveTick
  <2>2. /\ Linked(top) /\ top.ticks = s.ticks /\ Heights(top.branches)
        /\ IndexOK(top.bits)
        /\ \A u \in Ticks : u \in SetTicks(ClearBit(top.bits, t)) <=>
                            u # t /\ u \in SetTicks(s.bits)
        /\ TopPlaced(top.vault, top.branches, ClearBit(top.bits, t))
    <3>1. CASE t = s.vault.top
      <4> DEFINE st == SetTopTick(s)
      <4>1. ~s.vault.liquidated
        <5>1. ASSUME s.vault.liquidated PROVE FALSE
          <6>1. t < t
            BY <1>1, <1>2, <3>1, <5>1 DEF TopPlaced, Beneath
          <6> QED BY <6>1, <1>2
        <5> QED BY <5>1
      <4>2. Linked(st) /\ st.ticks = s.ticks
        BY <3>1, <4>1, SetTopTickLinked
      <4>3. /\ Heights(st.branches) /\ TopPlaced(st.vault, st.branches, st.bits)
            /\ IndexOK(st.bits)
            /\ \A u \in Ticks : u \in SetTicks(st.bits) <=> u # t /\ u \in SetTicks(s.bits)
        BY <3>1, <4>1, SetTopTickHigh
      <4>4. top = st
        BY <3>1
      <4> HIDE DEF st, top
      <4>5. \A u \in Ticks : u \in SetTicks(ClearBit(st.bits, t)) <=>
                             u # t /\ u \in SetTicks(s.bits)
        BY <4>3, BitCleared
      <4>6. SetTicks(ClearBit(st.bits, t)) \subseteq Ticks /\ SetTicks(st.bits) \subseteq Ticks
        BY <4>3, ClearedIndex DEF IndexOK
      <4>7. SetTicks(ClearBit(st.bits, t)) = SetTicks(st.bits)
        BY <4>3, <4>5, <4>6
      <4> QED BY <4>2, <4>3, <4>4, <4>5, <4>7, PlacedAlike
    <3>2. CASE t # s.vault.top
      <4>1. top = s
        BY <3>2
      <4> HIDE DEF top
      <4>2. \A u \in Ticks : u \in SetTicks(ClearBit(s.bits, t)) <=> u # t /\ u \in SetTicks(s.bits)
        BY <1>1, BitCleared
      <4>3. SetTicks(ClearBit(s.bits, t)) \subseteq Ticks
        BY <1>1, ClearedIndex DEF IndexOK
      <4>4. TopPlaced(s.vault, s.branches, ClearBit(s.bits, t))
        <5>1. SetTicks(ClearBit(s.bits, t)) \subseteq SetTicks(s.bits)
          BY <4>2, <4>3
        <5>2. s.vault.top \in SetTicks(s.bits) => s.vault.top \in SetTicks(ClearBit(s.bits, t))
          BY <1>1, <3>2, <4>2 DEF IndexOK
        <5> QED BY <1>1, <5>1, <5>2 DEF TopPlaced, Under, Beneath
      <4> QED BY <1>1, <4>1, <4>2, <4>4
    <3> QED BY <3>1, <3>2
  <2> HIDE DEF r, rest, top
  <2>3. HasFields(top, StoreFields) /\ TicksShaped(top.ticks)
    BY <2>2 DEF Linked, Shape
  <2>4. RestIs(top, r, t, 0, ClearBit(top.bits, t))
    <3> DEFINE c == ClearBit(top.bits, t)
    <3>1. [top EXCEPT !.ticks[t].raw_debt = 0, !.bits = ClearBit(@, t)]
            = [top EXCEPT !.ticks[t].raw_debt = 0, !.bits = c]
      BY <2>3 DEF HasFields, StoreFields
    <3> QED BY <2>1, <3>1 DEF RestIs
  <2>5. TickWritten(top, r, t, ClearBit(top.bits, t)) /\ r.ticks[t].raw_debt = 0
    BY <2>3, <2>4, RestWritten
  <2>6. ~Whole(r.ticks[t])
    BY <2>5 DEF Whole
  <2>7. Shows(r.bits, r.ticks)
    <3>1. ASSUME NEW u \in Ticks PROVE u \in SetTicks(r.bits) <=> Whole(r.ticks[u])
      <4>1. u \in SetTicks(r.bits) <=> u # t /\ u \in SetTicks(s.bits)
        BY <2>2, <2>5 DEF TickWritten
      <4>2. u # t => r.ticks[u] = s.ticks[u]
        BY <2>2, <2>5 DEF TickWritten
      <4>3. u \in SetTicks(s.bits) <=> Whole(s.ticks[u])
        BY <1>1 DEF Shows
      <4> QED BY <2>6, <4>1, <4>2, <4>3
    <3> QED BY <3>1 DEF Shows
  <2>8. Heights(r.branches) /\ TopPlaced(r.vault, r.branches, r.bits)
    BY <2>2, <2>5 DEF TickWritten
  <2> QED BY <2>7, <2>8 DEF High, r
<1> QED BY <1>4, <1>5

LEMMA DetachHigh ==
  ASSUME NEW s, Linked(s), Bare(s), Booked(s), High(s), NEW m, HasFields(m, MemoryFields),
         MemoryBooked(m),
         m.tick = COLD_TICK \/ (m.tick \in Ticks /\ m.tick_id \in 1 .. s.ticks[m.tick].total_ids),
         CanDetach(s, m)
  PROVE  High(Detach(s, m).store)
<1> DEFINE r      == Detach(s, m).store
           latest == LatestPosition(s, m)
           now    == latest.memory
<1>1. Linked(r)
  BY DetachLinked
<1>2. HasFields(s, StoreFields) /\ HasFields(s.vault, VaultFields) /\ BranchesShaped(s.branches)
  BY DEF Linked, Shape
<1>3. CASE m.tick = COLD_TICK
  BY <1>3 DEF Detach
<1>4. CASE m.tick # COLD_TICK /\ ~WasLiquidated(s, m)
  <2>1. r = LeaveTick(s, m)
    BY <1>4 DEF Detach
  <2>2. /\ m.tick \in Ticks /\ s.ticks[m.tick].raw_debt # 0 /\ ~s.ticks[m.tick].is_liquidated
        /\ m.debt \in Nat
    BY <1>4 DEF CanDetach, WasLiquidated, MemoryBooked
  <2> QED BY <2>1, <2>2, LeaveTickHigh
<1>5. CASE m.tick # COLD_TICK /\ WasLiquidated(s, m)
  <2>1. \/ r = LeaveBranch(s, latest.branch, now.debt)
        \/ r = [s EXCEPT !.vault.absorbed_dust = @ + m.dust - now.debt]
    BY <1>5 DEF Detach
  <2> HIDE DEF r, latest, now
  <2>2. CASE r = LeaveBranch(s, latest.branch, now.debt)
    <3> DEFINE k == latest.branch
    <3>1. PICK left : r = [s EXCEPT !.branches[k].debt = left]
      BY <2>2 DEF LeaveBranch
    <3> HIDE DEF k
    <3>2. /\ r.branches = [s.branches EXCEPT ![k].debt = left]
          /\ r.vault = s.vault /\ r.bits = s.bits /\ r.ticks = s.ticks
      BY <1>2, <3>1 DEF HasFields, StoreFields
    <3>3. ASSUME NEW b \in BranchIds
          PROVE  /\ r.branches[b].status = s.branches[b].status
                 /\ StandsAs(s.branches[b], r.branches[b])
      <4>1. HasFields(s.branches[b], BranchFields)
        BY <1>2 DEF BranchesShaped
      <4>2. \/ r.branches[b] = s.branches[b]
            \/ r.branches[b] = [s.branches[b] EXCEPT !.debt = left]
        BY <1>2, <3>2 DEF BranchesShaped
      <4> QED BY <4>1, <4>2 DEF HasFields, BranchFields, StandsAs
    <3>4. SameHeights(s, r)
      BY <3>2, <3>3 DEF SameHeights
    <3> QED BY <1>1, <3>4, SameHigh DEF r
  <2>3. CASE r = [s EXCEPT !.vault.absorbed_dust = @ + m.dust - now.debt]
    <3>1. PICK x : r = [s EXCEPT !.vault.absorbed_dust = x]
      BY <2>3
    <3>2. /\ r.branches = s.branches /\ r.bits = s.bits /\ r.ticks = s.ticks
          /\ r.vault = [s.vault EXCEPT !.absorbed_dust = x]
      BY <1>2, <3>1 DEF HasFields, StoreFields
    <3>3. /\ r.vault.liquidated = s.vault.liquidated /\ r.vault.top = s.vault.top
          /\ r.vault.current = s.vault.current
      BY <1>2, <3>2 DEF HasFields, VaultFields
    <3>4. SameHeights(s, r)
      BY <3>2, <3>3 DEF SameHeights, StandsAs
    <3> QED BY <1>1, <3>4, SameHigh DEF r
  <2> QED BY <2>1, <2>2, <2>3
<1> QED BY <1>3, <1>4, <1>5

(* A position joins a tick t, which may lie above the top for a moment.      *)
Joined(s, t) ==
  /\ Shows(s.bits, s.ticks) /\ Heights(s.branches) /\ t \in SetTicks(s.bits)
  /\ IF s.vault.liquidated
     THEN /\ s.branches[s.vault.current].minima_tick = s.vault.top
          /\ \A u \in SetTicks(s.bits) : u < s.vault.top \/ u = t
     ELSE /\ Hung(s.branches, s.vault.current)
          /\ s.branches[s.vault.current].connected_minima_tick <= s.vault.top
          /\ \A u \in SetTicks(s.bits) : u <= s.vault.top \/ u = t
          /\ s.vault.top \in SetTicks(s.bits) \union {COLD_TICK}

LEMMA AttachJoins ==
  ASSUME NEW s, Linked(s), Booked(s), High(s), NEW col \in Nat, NEW net \in Nat \ {0},
         CanAttach(s, col, net)
  PROVE  LET a == Attach(s, col, net) IN Joined(a.store, a.memory.tick)
<1> DEFINE a     == Attach(s, col, net)
           r     == a.store
           tick  == TargetTick(col, net)
           old   == s.ticks[tick]
           fresh == NeedsNewId(s, tick)
           id    == IF fresh THEN old.total_ids + 1 ELSE old.total_ids
           debt  == RawDebtAt(col, net)
           raw   == IF fresh THEN debt ELSE old.raw_debt + debt
           new   == [is_liquidated |-> FALSE, total_ids |-> id, liquidation |-> NoLiquidation,
                     raw_debt |-> raw]
<1>1. /\ HasFields(s, StoreFields) /\ TicksShaped(s.ticks) /\ IndexOK(s.bits)
      /\ Shows(s.bits, s.ticks) /\ Heights(s.branches)
      /\ TopPlaced(s.vault, s.branches, s.bits)
  BY DEF Linked, Shape, High
<1>2. /\ tick \in Ticks /\ col > 0 /\ HasTick(NetRatio(col, net))
      /\ debt >= Greatest(net, MIN_DEBT)
  BY DEF CanAttach
<1>3. PICK tids :
        /\ r = [s EXCEPT !.ticks[tick] = new, !.tick_ids = tids, !.bits = SetBit(@, tick)]
        /\ a.memory.tick = tick
  BY <1>1 DEF Attach, HasFields, StoreFields
<1>4. debt \in Nat /\ debt > 0
  <2>1. debt \in Nat
    BY <1>2, RawDebtAtTyped
  <2> HIDE DEF debt
  <2> QED BY <1>2, <2>1, DebtConstants DEF Greatest
<1> HIDE DEF tick, debt
<1>5. old.raw_debt \in Nat
  BY <1>2 DEF Booked, TickBooked
<1> HIDE DEF a, fresh, id
<1>6. /\ r.vault = s.vault /\ r.branches = s.branches
      /\ r.ticks = [s.ticks EXCEPT ![tick] = new] /\ r.bits = SetBit(s.bits, tick)
  BY <1>1, <1>3 DEF HasFields, StoreFields
<1> HIDE DEF r
<1>7. \A t \in Ticks : r.ticks[t] = IF t = tick THEN new ELSE s.ticks[t]
  BY <1>1, <1>6 DEF TicksShaped
<1>8. Whole(new)
  <2>1. raw > 0
    BY <1>4, <1>5
  <2>2. new.raw_debt = raw /\ new.is_liquidated = FALSE
    OBVIOUS
  <2> HIDE DEF raw, new
  <2> QED BY <2>1, <2>2 DEF Whole
<1> HIDE DEF new
<1>9. \A u \in Ticks : u \in SetTicks(r.bits) <=> u = tick \/ u \in SetTicks(s.bits)
  BY <1>1, <1>2, <1>6, BitSet
<1>10. SetTicks(r.bits) \subseteq Ticks /\ SetTicks(s.bits) \subseteq Ticks
  BY <1>1, <1>2, <1>6, ExtendedIndex DEF IndexOK
<1>11. Shows(r.bits, r.ticks)
  <2>1. ASSUME NEW u \in Ticks PROVE u \in SetTicks(r.bits) <=> Whole(r.ticks[u])
    <3>1. u \in SetTicks(s.bits) <=> Whole(s.ticks[u])
      BY <1>1 DEF Shows
    <3> QED BY <1>7, <1>8, <1>9, <3>1
  <2> QED BY <2>1 DEF Shows
<1>12. /\ tick \in SetTicks(r.bits) /\ SetTicks(s.bits) \subseteq SetTicks(r.bits)
       /\ \A u \in SetTicks(r.bits) : u = tick \/ u \in SetTicks(s.bits)
  BY <1>2, <1>9, <1>10
<1>13. Joined(r, tick)
  BY <1>1, <1>6, <1>11, <1>12 DEF Joined, TopPlaced, Under, Beneath
<1> QED BY <1>3, <1>13 DEF r, a

LEMMA RaiseTopHigh ==
  ASSUME NEW s, Linked(s), NEW tick \in Ticks, CanRaiseTop(s, tick), Joined(s, tick)
  PROVE  High(RaiseTop(s, tick))
<1> DEFINE r   == RaiseTop(s, tick)
           id  == s.vault.total + 1
           cur == s.vault.current
           e   == Opened(cur, s.vault.top)
<1>1. /\ HasFields(s, StoreFields) /\ HasFields(s.vault, VaultFields) /\ IndexOK(s.bits)
      /\ BranchesShaped(s.branches) /\ Woods(s.branches, s.vault.total)
      /\ cur \in BranchIds /\ cur <= s.vault.total /\ s.vault.total \in BranchIds
  BY DEF Linked, Shape, Forest, Woods
<1>2. tick \in Int /\ s.vault.top \in Int /\ COLD_TICK < tick
  BY TickWindow, TickRange DEF Linked, TopLinked
<1>3. /\ Shows(s.bits, s.ticks) /\ Heights(s.branches) /\ tick \in SetTicks(s.bits)
      /\ \A u \in SetTicks(s.bits) : u <= s.vault.top \/ u = tick
      /\ \A u \in SetTicks(s.bits) : u \in Int
  <2>1. \A u \in SetTicks(s.bits) : u \in Int
    BY <1>1, TickRange DEF IndexOK
  <2> QED BY <1>2, <2>1 DEF Joined
<1>4. CASE tick < s.vault.top
  <2>1. r = s
    BY <1>4 DEF RaiseTop
  <2>2. TopPlaced(s.vault, s.branches, s.bits)
    BY <1>2, <1>3, <1>4 DEF Joined, TopPlaced, Under, Beneath
  <2> QED BY <1>3, <2>1, <2>2 DEF High
<1>5. CASE ~(tick < s.vault.top) /\ ~s.vault.liquidated
  <2>1. r = [s EXCEPT !.vault.top = tick]
    BY <1>5 DEF RaiseTop
  <2> HIDE DEF r
  <2>2. /\ r.ticks = s.ticks /\ r.branches = s.branches /\ r.bits = s.bits
        /\ r.vault = [s.vault EXCEPT !.top = tick]
    BY <1>1, <2>1 DEF HasFields, StoreFields
  <2>3. ~r.vault.liquidated /\ r.vault.top = tick /\ r.vault.current = cur
    BY <1>1, <1>5, <2>2 DEF HasFields, VaultFields
  <2>4. Under(s.bits, tick)
    BY <1>2, <1>3, <1>5 DEF Under
  <2>5. s.branches[cur].connected_minima_tick <= tick /\ Hung(s.branches, cur)
    <3>1. s.branches[cur].connected_minima_tick \in Int
      BY TickRange DEF Linked, Forest, Chained
    <3>2. s.branches[cur].connected_minima_tick <= s.vault.top /\ Hung(s.branches, cur)
      BY <1>5 DEF Joined
    <3> QED BY <3>1, <3>2, <1>2, <1>5
  <2>6. TopPlaced(r.vault, r.branches, r.bits)
    BY <1>3, <2>2, <2>3, <2>4, <2>5 DEF TopPlaced
  <2> QED BY <1>3, <2>2, <2>6 DEF High, r
<1>6. CASE ~(tick < s.vault.top) /\ s.vault.liquidated
  <2>1. r = [s EXCEPT !.branches[id] = e, !.vault.top = tick, !.vault.liquidated = FALSE,
                      !.vault.current = id, !.vault.total = id]
    BY <1>6 DEF RaiseTop, Opened
  <2>2. Woods(r.branches, r.vault.total)
    BY RaiseTopLinked DEF Linked, Forest
  <2> HIDE DEF r, e
  <2>3. /\ r.ticks = s.ticks /\ r.bits = s.bits
        /\ r.branches = [s.branches EXCEPT ![id] = e]
        /\ r.vault = [s.vault EXCEPT !.top = tick, !.liquidated = FALSE, !.current = id,
                                     !.total = id]
    BY <1>1, <2>1 DEF HasFields, StoreFields
  <2>4. r.vault.liquidated = FALSE /\ r.vault.top = tick /\ r.vault.current = id
    BY <1>1, <2>3 DEF HasFields, VaultFields
  <2>5. \A b \in BranchIds : r.branches[b] = IF b = id THEN e ELSE s.branches[b]
    BY <1>1, <2>3 DEF BranchesShaped
  <2>6. id \in BranchIds /\ id # cur
    <3>1. s.vault.total < MaxBranches
      BY <1>2, <1>6 DEF CanRaiseTop
    <3> QED BY <3>1, <1>1, StoreAssumption DEF BranchIds
  <2>7. /\ e.status # "liquidated" /\ e.connected = cur /\ e.connected_minima_tick = s.vault.top
    BY DEF e, Opened, EmptyBranch
  <2>8. Fewer(s.branches, r.branches)
    BY <2>5, <2>7 DEF Fewer, StandsAs
  <2>9. Heights(r.branches)
    BY <1>3, <2>2, <2>8, HeightsKept
  <2>10. Hung(r.branches, id)
    <3>1. r.branches[id] = e /\ r.branches[cur] = s.branches[cur]
      BY <1>1, <2>5, <2>6
    <3>2. s.branches[cur].minima_tick = s.vault.top /\ cur # 0
      BY <1>1, <1>6 DEF Joined, BranchIds
    <3> QED BY <2>7, <3>1, <3>2 DEF Hung, MinimaOf
  <2>11. Under(s.bits, tick)
    <3>1. ~(tick < s.vault.top)
      BY <1>6
    <3>2. ASSUME NEW u \in SetTicks(s.bits) PROVE u <= tick
      <4>1. u \in Int /\ (u <= s.vault.top \/ u = tick)
        BY <1>3
      <4>2. tick \in Int /\ s.vault.top \in Int
        BY <1>2
      <4> QED BY <3>1, <4>1, <4>2
    <3> QED BY <3>2 DEF Under
  <2>12. r.branches[id].connected_minima_tick <= tick
    BY <1>2, <1>6, <2>5, <2>6, <2>7
  <2>13. TopPlaced(r.vault, r.branches, r.bits)
    BY <1>3, <2>3, <2>4, <2>10, <2>11, <2>12 DEF TopPlaced
  <2> QED BY <1>3, <2>3, <2>9, <2>13 DEF High, r
<1> QED BY <1>4, <1>5, <1>6

LEMMA OutcomeHigh ==
  ASSUME NEW s, Linked(s), Booked(s), High(s), NEW old, NEW col \in Nat, NEW debt \in Nat,
         debt # 0 => /\ CanAttach(s, col, ScaledDebt(debt))
                     /\ CanRaiseTop(s, Outcome(s, old, col, debt).memory.tick)
  PROVE  High(Outcome(s, old, col, debt).store)
<1> DEFINE out == Outcome(s, old, col, debt)
<1>1. CASE debt = 0
  BY <1>1 DEF Outcome
<1>2. CASE debt # 0
  <2> DEFINE net == ScaledDebt(debt)
             a   == Attach(s, col, net)
  <2>1. out.store = RaiseTop(a.store, a.memory.tick) /\ out.memory = a.memory
    BY <1>2 DEF Outcome
  <2>2. net \in Nat \ {0}
    <3> DEFINE x == debt * (BILLION + 1)
    <3>1. x \in Nat
      BY DebtConstants
    <3> HIDE DEF x
    <3>2. x \div BILLION \in Nat
      BY <3>1, DebtConstants, QuotientNatural
    <3> QED BY <3>2 DEF ScaledDebt, x
  <2>3. CanAttach(s, col, net) /\ CanRaiseTop(s, out.memory.tick)
    BY <1>2
  <2> HIDE DEF out, net
  <2>4. Linked(a.store) /\ a.memory.tick \in Ticks
    BY <2>3, AttachLinked
  <2>5. a.store.vault = s.vault
    BY <2>2, <2>3, AttachBooks
  <2>6. Joined(a.store, a.memory.tick)
    BY <2>2, <2>3, AttachJoins
  <2> HIDE DEF a
  <2>7. CanRaiseTop(a.store, a.memory.tick)
    BY <2>1, <2>3, <2>5 DEF CanRaiseTop
  <2> QED BY <2>1, <2>4, <2>6, <2>7, RaiseTopHigh DEF out
<1> QED BY <1>1, <1>2

LEMMA TotalsHigh ==
  ASSUME NEW s, Linked(s), High(s), NEW x, NEW y, NEW r, r = WithTotals(s, x, y)
  PROVE  High(r)
<1>1. HasFields(s, StoreFields) /\ HasFields(s.vault, VaultFields)
  BY DEF Linked, Shape
<1>2. /\ r.ticks = s.ticks /\ r.branches = s.branches /\ r.bits = s.bits
      /\ r.vault = [s.vault EXCEPT !.supply = x, !.borrow = y]
  BY <1>1 DEF HasFields, StoreFields, WithTotals
<1>3. /\ r.vault.liquidated = s.vault.liquidated /\ r.vault.top = s.vault.top
      /\ r.vault.current = s.vault.current
  BY <1>1, <1>2 DEF HasFields, VaultFields
<1>4. SameHeights(s, r)
  BY <1>2, <1>3 DEF SameHeights, StandsAs
<1>5. Linked(r)
  BY TotalsLinked DEF WithTotals
<1> QED BY <1>4, <1>5, SameHigh

LEMMA OperateHigh ==
  ASSUME VaultLinked, Bare(Store), VaultBooks, High(Store), NEW p \in PositionIds,
         NEW new_col \in Int, NEW new_debt \in Int, Operate(p, new_col, new_debt)
  PROVE  High(Store')
<1> DEFINE m   == Memory(positions[p])
           d   == Detach(Store, m)
           s   == d.store
           old == d.memory
           col  == NewCollateral(old.col, new_col)
           debt == NewDebt(old.debt, new_debt)
           out  == Outcome(s, old, col, debt)
<1>1. CanDetach(Store, m) /\ Change(p, s, old, new_col, new_debt)
  BY DEF Operate
<1>2. Linked(Store) /\ PositionsLinked(ticks, positions)
  BY DEF VaultLinked
<1>3. Booked(Store) /\ PositionsBooked(positions)
  BY DEF VaultBooks
<1>4. /\ HasFields(m, MemoryFields) /\ m.tick = positions[p].tick
      /\ m.tick_id = positions[p].tick_id
  BY MemoryShaped DEF Memory
<1>5. m.tick = COLD_TICK \/ (m.tick \in Ticks /\ m.tick_id \in 1 .. Store.ticks[m.tick].total_ids)
  BY <1>2, <1>4, StoreFieldsOfStore DEF PositionsLinked
<1>6. MemoryBooked(m)
  BY <1>3, <1>4, <1>5, MemoryBookedOf DEF PositionsBooked
<1> HIDE DEF m
<1>7. Linked(s) /\ HasFields(old, MemoryFields)
  BY <1>1, <1>2, <1>4, <1>5, DetachLinked, DetachedShaped
<1>8. Booked(s) /\ old.col \in Nat /\ old.debt \in Int
  BY <1>1, <1>2, <1>3, <1>4, <1>5, <1>6, DetachBooks
<1>9. High(s)
  BY <1>1, <1>2, <1>3, <1>4, <1>5, <1>6, DetachHigh
<1> HIDE DEF d, s, old
<1>10. /\ col >= 0 /\ debt >= 0
       /\ (debt # 0 => DebtAllowed(s, old, col, debt, out.memory, CollateralMoved(old.col, new_col),
                                   DebtMoved(old.debt, new_debt)))
       /\ WriteBack(p, old, out.store, out.memory)
  BY <1>1 DEF Change
<1>11. col \in Nat /\ debt \in Nat
  <2>1. col \in Int /\ debt \in Int
    BY <1>8, NewCollateralTyped, NewDebtTyped
  <2> QED BY <1>10, <2>1
<1>12. debt # 0 => CanAttach(s, col, ScaledDebt(debt)) /\ CanRaiseTop(s, out.memory.tick)
  BY <1>10 DEF DebtAllowed
<1> HIDE DEF col, debt
<1>13. Linked(out.store)
  BY <1>7, <1>8, <1>11, <1>12, OutcomeBooks
<1>14. High(out.store)
  BY <1>7, <1>8, <1>9, <1>11, <1>12, OutcomeHigh
<1> DEFINE w == out.store
           k == out.memory
           x == w.vault.supply + k.col - old.col
           y == w.vault.borrow + (k.debt - k.dust) - old.debt
           after == UpdateTotals(w, k, old)
<1>15. Linked(w) /\ High(w) /\ WriteBack(p, old, w, k)
  BY <1>10, <1>13, <1>14
<1> HIDE DEF out, w, k
<1>16. HasFields(w, StoreFields) /\ HasFields(w.vault, VaultFields)
  BY <1>15 DEF Linked, Shape
<1>17. after = WithTotals(w, x, y)
  BY <1>16 DEF UpdateTotals, HasFields, StoreFields, VaultFields, WithTotals
<1>18. Save(after)
  BY <1>15 DEF WriteBack
<1> HIDE DEF x, y, after
<1>19. Linked(after) /\ High(after)
  BY <1>15, <1>17, TotalsLinked, TotalsHigh DEF WithTotals
<1>20. Store' = after
  BY <1>18, <1>19, SavedStore DEF Linked, Shape
<1> QED BY <1>19, <1>20

-----------------------------------------------------------------------------
(* An absorption.                                                          *)

LEMMA UnderTop ==
  ASSUME NEW s, Linked(s), High(s), s.vault.top \in Int
  PROVE  Under(s.bits, s.vault.top)
<1>1. TopPlaced(s.vault, s.branches, s.bits) /\ SetTicks(s.bits) \subseteq Int
  BY TickRange DEF High, Linked, Shape, IndexOK
<1> QED BY <1>1 DEF TopPlaced, Under, Beneath

LEMMA AbsorbTicksHigh ==
  ASSUME NEW s, Linked(s), High(s), s.vault.top \in Ticks, NEW max \in Ticks
  PROVE  LET r == AbsorbTicks(s, max).store
         IN  /\ Shows(r.bits, r.ticks) /\ r.branches = s.branches /\ r.vault = s.vault
             /\ IndexOK(r.bits) /\ Under(r.bits, s.vault.top)
<1> DEFINE r     == AbsorbTicks(s, max).store
           above == {t \in TicksFrom(s.bits, PlaceOf(s.vault.top + 1)) : t > max}
           ts    == [t \in Ticks |-> IF t \in above THEN FullyLiquidated(s.ticks[t]) ELSE s.ticks[t]]
<1>1. /\ HasFields(s, StoreFields) /\ IndexOK(s.bits) /\ TicksShaped(s.ticks)
      /\ r.vault = s.vault
  BY AbsorbTicksLinked DEF Linked, Shape
<1>2. Within(above, Ticks)
  <2>1. s.vault.top + 1 \in Int /\ MIN_TICK <= s.vault.top + 1 /\ s.vault.top + 1 <= MAX_TICK + 1
    BY TickRange DEF Ticks
  <2>2. PlaceOf(s.vault.top + 1) \in Places
    BY <2>1, PlaceLeadsBack
  <2>3. 0 \in 0 .. ARRAYS - 1 /\ 0 \in 0 .. MAPS - 1
    BY MapConstants
  <2>4. TicksFrom(s.bits, PlaceOf(s.vault.top + 1)) \subseteq SetTicks(s.bits)
    BY <2>2, <2>3, SearchesMeetSetTicks
  <2> QED BY <2>4, <1>1 DEF IndexOK, Within
<1>3. r = [s EXCEPT !.ticks = [t \in Ticks |-> IF t \in above THEN FullyLiquidated(@[t]) ELSE @[t]],
                    !.bits = ClearAll(@, above)]
  BY DEF AbsorbTicks
<1> HIDE DEF r, above
<1>4. r.branches = s.branches /\ r.ticks = ts /\ r.bits = ClearAll(s.bits, above)
  BY <1>1, <1>3 DEF HasFields, StoreFields
<1>5. ASSUME NEW t \in Ticks
      PROVE  Whole(ts[t]) <=> t \notin above /\ Whole(s.ticks[t])
  <2>1. CASE t \in above
    <3> DEFINE old == s.ticks[t]
               q   == Liquidation(TRUE, 0, BigZero)
    <3>1. HasFields(old, TickFields)
      BY <1>1 DEF TicksShaped
    <3>2. ts[t] = [old EXCEPT !.raw_debt = 0, !.is_liquidated = TRUE, !.liquidation = q]
      BY <2>1 DEF FullyLiquidated
    <3> HIDE DEF ts, old, q
    <3>3. ts[t].is_liquidated = TRUE
      BY <3>1, <3>2 DEF HasFields, TickFields
    <3> QED BY <2>1, <3>3 DEF Whole
  <2>2. CASE t \notin above
    BY <2>2
  <2> QED BY <2>1, <2>2
<1> HIDE DEF ts
<1>6. IndexOK(r.bits)
  BY <1>1, <1>4, ClearedIndex
<1>7. \A u \in Ticks : u \in SetTicks(r.bits) <=> u \notin above /\ u \in SetTicks(s.bits)
  BY <1>1, <1>2, <1>4, AllCleared
<1>8. Shows(r.bits, r.ticks)
  BY <1>4, <1>5, <1>7 DEF Shows, High
<1>9. Under(r.bits, s.vault.top)
  <2>1. Under(s.bits, s.vault.top)
    BY UnderTop, TickRange
  <2>2. SetTicks(r.bits) \subseteq Ticks
    BY <1>6 DEF IndexOK
  <2> QED BY <2>1, <2>2, <1>7 DEF Under
<1> QED BY <1>1, <1>4, <1>6, <1>8, <1>9 DEF r

\* What the absorption looks at ends where it says.
ClosingHigh(a) == Heights(a.store.branches) /\ a.minima = MinimaOf(a.store.branches, a.id)

LEMMA CloseBranchHigh ==
  ASSUME NEW s, NEW a, Closing(a, s), ClosingHigh(a), NEW max \in Ticks
  PROVE  ClosingHigh(CloseBranch(a, max))
<1> DEFINE br == a.store.branches
           id == a.id
           b  == br[id]
           br2 == [br EXCEPT ![id].status = "closed"]
           r  == CloseBranch(a, max)
<1>1. CASE a.minima <= max
  BY <1>1 DEF CloseBranch
<1>2. CASE ~(a.minima <= max)
  <2>1. a.minima # COLD_TICK
    <3>1. COLD_TICK <= max
      BY TickRange
    <3> QED BY <3>1, <1>2
  <2>2. /\ id \in BranchIds /\ b.status = "liquidated" /\ BranchesShaped(br)
        /\ HasFields(a, ClosingFields) /\ HasFields(a.store, StoreFields)
        /\ Woods(br, s.vault.total)
    BY <2>1 DEF Closing, Tip
  <2>3. PICK x, col :
          r = [a EXCEPT !.store.branches[a.id].status = "closed", !.debt = x, !.col = col,
                        !.id = IF b.connected_minima_tick = COLD_TICK THEN 0 ELSE b.connected,
                        !.minima = b.connected_minima_tick]
    BY <1>2 DEF CloseBranch, Closing, HasFields, ClosingFields
  <2>4. Chained(br, id) /\ Hung(br, id)
    BY <2>2 DEF Woods, ClosingHigh, Heights
  <2>5. (IF b.connected_minima_tick = COLD_TICK THEN 0 ELSE b.connected) = b.connected
    BY <2>4 DEF Chained
  <2> HIDE DEF r, b
  <2>6. /\ r.id = b.connected /\ r.minima = b.connected_minima_tick
        /\ r.store = [a.store EXCEPT !.branches[a.id].status = "closed"]
    BY <2>2, <2>3, <2>5 DEF HasFields, ClosingFields
  <2>7. r.store.branches = br2
    BY <2>2, <2>6 DEF HasFields, StoreFields
  <2>8. /\ \A d \in BranchIds : d # id => br2[d] = br[d]
        /\ br2[id] = [b EXCEPT !.status = "closed"]
    BY <2>2 DEF BranchesShaped, b
  <2>9. HasFields(b, BranchFields)
    BY <2>2 DEF BranchesShaped, b
  <2> HIDE DEF br2
  <2>10. br2[id].status = "closed"
    BY <2>8, <2>9 DEF HasFields, BranchFields
  <2>11. Heights(br2)
    <3>1. Fewer(br, br2)
      BY <2>8, <2>10 DEF Fewer, StandsAs
    <3>2. Woods(br2, s.vault.total)
      BY <2>7, CloseBranchCloses DEF Closing, r
    <3> QED BY <3>1, <3>2, HeightsKept DEF ClosingHigh
  <2>12. b.connected_minima_tick = MinimaOf(br2, b.connected)
    <3>1. b.connected \in 0 .. id - 1 /\ b.connected_minima_tick = MinimaOf(br, b.connected)
      BY <2>4 DEF Chained, Hung, b
    <3>2. b.connected # 0 => b.connected \in BranchIds /\ b.connected # id
      BY <3>1, <2>2, BranchIdsClosed
    <3> QED BY <3>1, <3>2, <2>8 DEF MinimaOf
  <2> QED BY <2>6, <2>7, <2>11, <2>12 DEF ClosingHigh, r
<1> QED BY <1>1, <1>2

LEMMA CloseBranchesHigh ==
  ASSUME NEW s, NEW a, Closing(a, s), ClosingHigh(a), NEW max \in Ticks
  PROVE  ClosingHigh(CloseBranches(a, max))
<1>1. PICK A : ClosingWalk(A, a, max)
  BY CloseBranchesWalks
<1>2. /\ A[0] = a
      /\ \A n \in 1 .. MaxBranches : A[n] = CloseBranch(A[n - 1], max)
      /\ CloseBranches(a, max) = A[MaxBranches]
  BY <1>1 DEF ClosingWalk
<1> DEFINE OK(n) == Closing(A[n], s) /\ ClosingHigh(A[n])
           bad == {n \in Nat : n <= MaxBranches /\ ~OK(n)}
<1>3. bad = {}
  <2>1. SUFFICES ASSUME bad # {} PROVE FALSE
    OBVIOUS
  <2>2. PICK m \in bad : \A k \in bad : m <= k
    BY <2>1, LeastNatural
  <2>3. m # 0
    BY <2>2, <1>2
  <2>4. m \in 1 .. MaxBranches /\ m - 1 \in Nat /\ m - 1 <= MaxBranches /\ m - 1 \notin bad
    BY <2>2, <2>3, StoreAssumption
  <2>5. OK(m - 1)
    BY <2>4
  <2>6. OK(m)
    BY <2>4, <2>5, <1>2, CloseBranchCloses, CloseBranchHigh
  <2> QED BY <2>2, <2>6
<1> QED BY <1>2, <1>3, StoreAssumption

\* Where an absorption settles is the highest debt there is.
LEMMA SettleHigh ==
  ASSUME NEW s, Linked(s), NEW a, Closing(a, s), AbsorbFits(s), ClosingHigh(a),
         Shows(a.store.bits, a.store.ticks), NEW next \in SetTicks(a.store.bits) \union {COLD_TICK},
         Under(a.store.bits, next)
  PROVE  High(Settle(a, next))
<1> DEFINE r   == Settle(a, next)
           st  == a.store
           br  == st.branches
           liq == s.vault.liquidated
           id  == IF liq THEN s.vault.total + 1 ELSE s.vault.current
<1>1. /\ HasFields(s.vault, VaultFields) /\ IndexOK(s.bits)
      /\ Forest(s.branches, s.vault.total, s.vault.current) /\ TopLinked(s.vault, s.branches)
  BY DEF Linked, Shape
<1>2. /\ HasFields(st, StoreFields) /\ st.vault = s.vault /\ BranchesShaped(br)
      /\ Woods(br, s.vault.total) /\ Tip(br, a.id) /\ st.bits = s.bits
      /\ \A b \in BranchIds : br[b].status = "not_liquidated"
                              <=> s.branches[b].status = "not_liquidated"
      /\ Heights(br) /\ a.minima = MinimaOf(br, a.id)
      /\ a.minima \in COLD_TICK .. MAX_TICK + 2
  BY DEF Closing, ClosingHigh
<1>3. id \in BranchIds /\ br[id].status = "not_liquidated"
  <2>1. s.vault.current \in BranchIds /\ s.vault.total \in BranchIds
    BY <1>1 DEF Forest, Woods
  <2>2. CASE liq
    <3>1. id = s.vault.total + 1 /\ s.vault.total < MaxBranches
      BY <2>2 DEF AbsorbFits
    <3>2. id \in BranchIds /\ id > s.vault.total
      BY <2>1, <3>1, StoreAssumption DEF BranchIds
    <3> HIDE DEF id, br
    <3> QED BY <3>2, <1>2 DEF Woods
  <2>3. CASE ~liq
    <3>1. s.branches[s.vault.current].status = "not_liquidated"
      BY <2>3, <1>1 DEF TopLinked
    <3> QED BY <2>1, <2>3, <3>1, <1>2
  <2> QED BY <2>2, <2>3
<1>4. next \in Ticks \union {COLD_TICK} /\ SetTicks(st.bits) \subseteq Int /\ next \in Int
  BY <1>1, <1>2, TickRange DEF IndexOK
<1>5. Linked(r) /\ Woods(r.branches, r.vault.total)
  BY <1>4, SettleLinked DEF Linked, Forest
<1>7. a.id # 0 => a.id \in BranchIds /\ a.id # id
  BY <1>2, <1>3 DEF Tip
<1>8. CASE next >= a.minima
  <2> DEFINE e == Opened(a.id, a.minima)
  <2>1. /\ r.ticks = st.ticks /\ r.bits = st.bits
        /\ r.branches = [br EXCEPT ![id] = e]
        /\ r.vault = [s.vault EXCEPT !.top = next, !.liquidated = FALSE, !.current = id,
                                     !.total = IF liq THEN @ + 1 ELSE @]
    BY <1>2, <1>8 DEF Settle, Opened, HasFields, StoreFields
  <2>2. /\ e.status = "not_liquidated" /\ e.connected = a.id
        /\ e.connected_minima_tick = a.minima
    BY DEF Opened, EmptyBranch
  <2> HIDE DEF r, id, br, e
  <2>3. r.vault.liquidated = FALSE /\ r.vault.top = next /\ r.vault.current = id
    BY <1>1, <2>1 DEF HasFields, VaultFields
  <2>4. \A b \in BranchIds : r.branches[b] = IF b = id THEN e ELSE br[b]
    BY <1>2, <2>1 DEF BranchesShaped
  <2>5. Heights(r.branches)
    <3>1. Fewer(br, r.branches)
      BY <2>2, <2>4 DEF Fewer, StandsAs
    <3> QED BY <3>1, <1>2, <1>5, HeightsKept
  <2>6. r.branches[id] = e
    BY <1>3, <2>4
  <2>7. Hung(r.branches, id)
    <3>1. MinimaOf(r.branches, a.id) = MinimaOf(br, a.id)
      BY <1>7, <2>4 DEF MinimaOf
    <3> QED BY <3>1, <2>2, <2>6, <1>2 DEF Hung
  <2>8. r.branches[id].connected_minima_tick <= next
    BY <2>2, <2>6, <1>8, <1>2, <1>4, TickRange
  <2>9. TopPlaced(r.vault, r.branches, r.bits)
    BY <2>1, <2>3, <2>7, <2>8 DEF TopPlaced
  <2> QED BY <2>1, <2>5, <2>9 DEF High, r
<1>9. CASE ~(next >= a.minima)
  <2>1. /\ r.ticks = st.ticks /\ r.bits = st.bits
        /\ r.branches = (IF liq THEN br ELSE [br EXCEPT ![id] = EmptyBranch])
        /\ r.vault = [s.vault EXCEPT !.liquidated = TRUE, !.top = a.minima, !.current = a.id,
                                     !.total = IF liq THEN @ ELSE id - 1]
    BY <1>2, <1>9 DEF Settle, HasFields, StoreFields
  <2> HIDE DEF r, id, br
  <2>2. r.vault.liquidated = TRUE /\ r.vault.top = a.minima /\ r.vault.current = a.id
    BY <1>1, <2>1 DEF HasFields, VaultFields
  <2>3. \A b \in BranchIds : b # id => r.branches[b] = br[b]
    BY <1>2, <2>1 DEF BranchesShaped
  <2>4. r.branches[id] = br[id] \/ r.branches[id] = EmptyBranch
    BY <1>2, <1>3, <2>1 DEF BranchesShaped
  <2>5. EmptyBranch.status = "not_liquidated"
    BY DEF EmptyBranch
  <2>6. r.branches[id].status = "not_liquidated"
    BY <1>3, <2>4, <2>5
  <2>7. Heights(r.branches)
    <3>1. Fewer(br, r.branches)
      BY <2>3, <2>6 DEF Fewer, StandsAs
    <3> QED BY <3>1, <1>2, <1>5, HeightsKept
  <2>8. a.id # 0
    <3>1. COLD_TICK <= next
      BY <1>4, TickRange
    <3>2. a.minima # COLD_TICK
      BY <3>1, <1>9, <1>4, <1>2, TickRange
    <3> QED BY <3>2, <1>2 DEF MinimaOf
  <2>9. r.branches[a.id].minima_tick = a.minima
    BY <2>3, <2>8, <1>2, <1>7 DEF MinimaOf
  <2>10. Beneath(r.bits, a.minima)
    <3>1. next < a.minima /\ a.minima \in Int
      BY <1>9, <1>2, <1>4, TickRange
    <3> QED BY <3>1, <2>1, <1>4 DEF Beneath, Under
  <2>11. TopPlaced(r.vault, r.branches, r.bits)
    BY <2>2, <2>9, <2>10 DEF TopPlaced
  <2> QED BY <2>1, <2>7, <2>11 DEF High, r
<1> QED BY <1>8, <1>9

LEMMA AbsorbHigh ==
  ASSUME NEW s, Linked(s), High(s), AbsorbFits(s), s.vault.top \in Ticks, NEW max \in Ticks
  PROVE  High(Absorb(s, max))
<1> DEFINE taken == AbsorbTicks(s, max)
           t    == taken.store
           a    == AbsorbClosed(s, max)
           next == AbsorbNext(s, max)
           st   == Settle(a, next)
           r    == Absorb(s, max)
           a0   == AbsorbStart(s, max)
           cur  == s.branches[s.vault.current]
<1>1. /\ Linked(t) /\ t.vault = s.vault
      /\ Closing(a0, t) /\ Closing(a, t) /\ next \in Ticks \union {COLD_TICK}
  BY AbsorbCloses
<1>2. /\ Shows(t.bits, t.ticks) /\ t.branches = s.branches /\ IndexOK(t.bits)
      /\ Under(t.bits, s.vault.top)
  BY AbsorbTicksHigh
<1>3. /\ a0.store = t /\ a = CloseBranches(a0, max)
      /\ a0.minima = (IF s.vault.liquidated THEN cur.minima_tick ELSE cur.connected_minima_tick)
      /\ a0.id = IF s.vault.liquidated THEN s.vault.current
                 ELSE IF cur.connected_minima_tick = COLD_TICK THEN 0 ELSE cur.connected
  BY DEF AbsorbStart, AbsorbClosed
<1>4. r = [st EXCEPT !.vault.absorbed_debt = @ + a.debt, !.vault.absorbed_col = @ + a.col]
  BY DEF Absorb, AbsorbStart, AbsorbClosed, AbsorbNext
<1>5. next = NextTickFrom(a.store.bits, PlaceOf(s.vault.top + 1))
  BY DEF AbsorbNext
<1> HIDE DEF taken, t, a0, a, next
<1>6. ClosingHigh(a0)
  <2>1. Heights(s.branches) /\ TopPlaced(s.vault, s.branches, s.bits)
    BY DEF High
  <2>2. s.vault.current \in BranchIds /\ s.vault.current # 0 /\ Chained(s.branches, s.vault.current)
    BY BranchIdsClosed DEF Linked, Forest
  <2>3. CASE s.vault.liquidated
    BY <2>1, <2>2, <2>3, <1>2, <1>3 DEF ClosingHigh, TopPlaced, MinimaOf
  <2>4. CASE ~s.vault.liquidated
    <3>1. cur.connected_minima_tick = MinimaOf(s.branches, cur.connected)
      BY <2>1, <2>4 DEF TopPlaced, Hung
    <3>2. a0.id = cur.connected /\ a0.minima = cur.connected_minima_tick
      BY <2>2, <2>4, <1>3 DEF Chained
    <3> QED BY <2>1, <3>1, <3>2, <1>2, <1>3 DEF ClosingHigh
  <2> QED BY <2>3, <2>4
<1>7. ClosingHigh(a)
  BY <1>1, <1>3, <1>6, CloseBranchesHigh
<1>8. a.store.bits = t.bits /\ a.store.ticks = t.ticks
  BY <1>1 DEF Closing
<1>9. next \in SetTicks(t.bits) \union {COLD_TICK} /\ Under(t.bits, next)
  <2>1. Placed(s.vault.top + 1)
    BY TicksPlaced
  <2>2. Under(t.bits, s.vault.top + 1)
    <3>1. s.vault.top \in Int /\ SetTicks(t.bits) \subseteq Int
      BY <1>2, TickRange DEF IndexOK
    <3> QED BY <3>1, <1>2 DEF Under
  <2> QED BY <1>2, <1>5, <1>8, <2>1, <2>2, NextIsHighest
<1>10. AbsorbFits(t)
  BY <1>1 DEF AbsorbFits
<1>11. High(st) /\ Linked(st)
  BY <1>1, <1>2, <1>7, <1>8, <1>9, <1>10, SettleHigh, SettleLinked
<1> HIDE DEF st, r
<1>12. HasFields(st, StoreFields) /\ HasFields(st.vault, VaultFields)
  BY <1>11 DEF Linked, Shape
<1>13. PICK x, y : r.vault = [st.vault EXCEPT !.absorbed_debt = x, !.absorbed_col = y]
  BY <1>4, <1>12 DEF HasFields, StoreFields
<1>14. r.bits = st.bits /\ r.ticks = st.ticks /\ r.branches = st.branches
  BY <1>4, <1>12 DEF HasFields, StoreFields
<1>15. /\ r.vault.liquidated = st.vault.liquidated
       /\ r.vault.top = st.vault.top /\ r.vault.current = st.vault.current
  BY <1>12, <1>13 DEF HasFields, VaultFields
<1>16. SameHeights(st, r)
  BY <1>14, <1>15 DEF SameHeights, StandsAs
<1>17. Linked(r)
  BY AbsorbLinked DEF r
<1> QED BY <1>11, <1>16, <1>17, SameHigh DEF r

-----------------------------------------------------------------------------
(* The loop of a liquidation: what is still in the index is below the tick  *)
(* it stands on and, once a search was made, in sight or under the limit.   *)

Ahead(b, next, lt) == \A u \in SetTicks(b) : u <= next \/ u < lt

GatheredHigh(l, lt) ==
  /\ Shows(l.store.bits, l.store.ticks) /\ Heights(l.store.branches)
  /\ Hung(l.store.branches, l.branch) /\ Ahead(l.store.bits, l.next, lt)
GoingHigh(l, lt) ==
  /\ Shows(l.store.bits, l.store.ticks) /\ Heights(l.store.branches)
  /\ Hung(l.store.branches, l.branch) /\ Under(l.store.bits, l.tick)
  /\ l.perfect => l.first \/ l.next = l.tick
  /\ ~l.first => Ahead(l.store.bits, l.next, lt)

LEMMA GatherHigh ==
  ASSUME NEW l, HasFields(l, LoopFields), Shape(l.store), Running(l), NEW s, NEW total \in Int,
         Going(l, s, total), NEW lt \in Ticks, GoingHigh(l, lt)
  PROVE  GatheredHigh(Gather(l, lt), lt)
<1> DEFINE g  == Gather(l, lt)
           st == l.store
           search == l.first \/ (l.perfect /\ l.next = l.tick)
           index  == IF search /\ l.perfect THEN ClearBits(st.bits, l.tick) ELSE st.bits
           T == IF l.perfect
                THEN [st.ticks EXCEPT ![l.tick].raw_debt = 0, ![l.tick].is_liquidated = TRUE,
                        ![l.tick].liquidation.branch = l.branch,
                        ![l.tick].liquidation.factor = l.factor]
                ELSE st.ticks
           next == IF search THEN NextTickAbove(index, PlaceOf(l.tick), lt) ELSE l.next
<1>1. /\ HasFields(st, StoreFields) /\ TicksShaped(st.ticks) /\ IndexOK(st.bits)
      /\ l.tick \in Ticks
  BY DEF Shape, Running
<1>2. l.factor \in BigNumbers
  BY DEF Going, LoopBooked, LoopNumbers
<1>3. /\ Shows(st.bits, st.ticks) /\ Heights(st.branches) /\ Hung(st.branches, l.branch)
      /\ Under(st.bits, l.tick) /\ (l.perfect => l.first \/ l.next = l.tick)
      /\ (~l.first => Ahead(st.bits, l.next, lt))
  BY DEF GoingHigh
<1>4. PICK debt, col : g = [l EXCEPT !.debt = debt, !.col = col, !.first = FALSE,
                                     !.store.bits = index, !.store.ticks = T, !.next = next]
  BY DEF Gather
<1>5. IndexOK(index) /\ SetTicks(index) \subseteq Ticks
  BY <1>1, ClearedIndex DEF IndexOK
<1>6. ASSUME NEW u \in Ticks
      PROVE  u \in SetTicks(index) <=> u \in SetTicks(st.bits) /\ (l.perfect => u # l.tick)
  <2>1. CASE l.perfect
    <3>1. index = ClearBits(st.bits, l.tick)
      BY <2>1, <1>3
    <3> QED BY <2>1, <3>1, <1>1, <1>3, BitsCleared
  <2>2. CASE ~l.perfect
    BY <2>2
  <2> QED BY <2>1, <2>2
<1>7. ASSUME NEW u \in Ticks
      PROVE  Whole(T[u]) <=> Whole(st.ticks[u]) /\ (l.perfect => u # l.tick)
  <2>1. CASE l.perfect
    <3>1. T = Taken(st.ticks, l.tick, l.branch, l.factor)
      BY <2>1 DEF Taken
    <3> HIDE DEF T
    <3>2. T[l.tick].raw_debt = 0
      BY <3>1, <1>1, <1>2, TakenBooks
    <3>3. u # l.tick => T[u] = st.ticks[u]
      BY <3>1, <1>1, TakenTick
    <3> QED BY <2>1, <3>2, <3>3 DEF Whole
  <2>2. CASE ~l.perfect
    BY <2>2
  <2> QED BY <2>1, <2>2
<1>8. Ahead(index, next, lt)
  <2>1. CASE search
    <3>1. Under(index, l.tick)
      BY <1>3, <1>5, <1>6 DEF Under
    <3>2. \A u \in SetTicks(index) : u <= NextTickAbove(index, PlaceOf(l.tick), lt) \/ u < lt
      <4> HIDE DEF index
      <4> QED BY <3>1, <1>1, <1>5, NextAboveIsHighest
    <3> QED BY <2>1, <3>2 DEF Ahead
  <2>2. CASE ~search
    <3>1. Ahead(st.bits, l.next, lt) /\ ~l.perfect
      BY <2>2, <1>3
    <3> QED BY <2>2, <3>1
  <2> QED BY <2>1, <2>2
<1> HIDE DEF g, index, T, next
<1>9. /\ g.store = [st EXCEPT !.bits = index, !.ticks = T] /\ g.next = next /\ g.branch = l.branch
  BY <1>4 DEF HasFields, LoopFields
<1>10. g.store.bits = index /\ g.store.ticks = T /\ g.store.branches = st.branches
  BY <1>1, <1>9 DEF HasFields, StoreFields
<1>11. Shows(index, T)
  BY <1>3, <1>6, <1>7 DEF Shows
<1> QED BY <1>3, <1>8, <1>9, <1>10, <1>11 DEF GatheredHigh, g

\* The reference tick is at or above everything that is left, and above it when
\* a branch ends there.
Reached(ref, b, m) ==
  /\ ref.tick \in Ticks /\ Under(b, ref.tick) /\ m <= ref.tick
  /\ ref.status = "liquidated" => ref.tick = m /\ Beneath(b, m)
  /\ ref.status # "liquidated" => ref.partials = X30

LEMMA ReferenceHigh ==
  ASSUME NEW l, Shape(l.store), Running(l), NEW lt \in Ticks, GatheredHigh(l, lt)
  PROVE  LET ref == Reference(l, lt)
             b   == l.store.branches[l.branch]
         IN  /\ Reached(ref, l.store.bits, b.connected_minima_tick)
             /\ ref.status = "perfect" => ref.tick = l.next
<1> DEFINE ref == Reference(l, lt)
           b   == l.store.branches[l.branch]
           m   == b.connected_minima_tick
           S   == SetTicks(l.store.bits)
<1>1. m \in Ticks \union {COLD_TICK} /\ l.next \in Ticks \union {COLD_TICK} /\ S \subseteq Ticks
  BY DEF Running, Forest, Chained, Shape, IndexOK
<1>2. m \in Int /\ l.next \in Int /\ lt \in Int /\ COLD_TICK < lt /\ COLD_TICK \in Int
      /\ S \subseteq Int
  <2>1. Ticks \union {COLD_TICK} \subseteq Int
    BY TickRange
  <2> HIDE DEF m, S
  <2> QED BY <2>1, <1>1, TickRange
<1>3. \A u \in S : u <= l.next \/ u < lt
  BY DEF GatheredHigh, Ahead
<1>4. ref.tick \in Ticks
  BY ReferenceInTable
<1> HIDE DEF m, S
<1>5. CASE m > Greatest(l.next, lt)
  <2>1. ref.tick = m /\ ref.status = "liquidated"
    BY <1>5 DEF Reference, m
  <2>2. l.next < m /\ lt < m
    BY <1>2, <1>5 DEF Greatest
  <2>3. \A u \in S : u < m
    BY <2>2, <1>2, <1>3
  <2> QED BY <2>1, <2>3, <1>2, <1>4 DEF Reached, Under, Beneath, S, m
<1>6. CASE ~(m > Greatest(l.next, lt)) /\ l.next > lt
  <2>1. ref.tick = l.next /\ ref.status = "perfect" /\ ref.partials = X30
    BY <1>6 DEF Reference, m
  <2>2. m <= l.next
    BY <1>2, <1>6 DEF Greatest
  <2>3. \A u \in S : u <= l.next
    BY <1>2, <1>3, <1>6
  <2> QED BY <2>1, <2>2, <2>3, <1>2, <1>4 DEF Reached, Under, S, m
<1>7. CASE ~(m > Greatest(l.next, lt)) /\ ~(l.next > lt)
  <2>1. ref.tick = lt /\ ref.status = "threshold" /\ ref.partials = X30
    BY <1>7 DEF Reference, m
  <2>2. m <= lt
    BY <1>2, <1>7 DEF Greatest
  <2>3. \A u \in S : u <= lt
    BY <1>2, <1>3, <1>7
  <2> QED BY <2>1, <2>2, <2>3, <1>2, <1>4 DEF Reached, Under, S, m
<1> QED BY <1>5, <1>6, <1>7

\* A liquidation that ends leaves nothing at or above where it ends.
LEMMA EndTickReached ==
  ASSUME NEW l, NEW ref, NEW b, SetTicks(b) \subseteq Ticks, NEW m \in Int, Reached(ref, b, m),
         NEW debt, NEW col, EndTick(l, ref, debt, col).fits,
         TickAtRatio(RatioLeft(l, debt, col)) >= ref.tick - 1
  PROVE  LET e == EndTick(l, ref, debt, col).tick
         IN  e \in Int /\ Beneath(b, e) /\ m <= e
<1> DEFINE ratio == RatioLeft(l, debt, col)
           tick  == TickAtRatio(ratio)
           e     == EndTick(l, ref, debt, col)
<1>1. ~(col >= l.col \/ ~HasTick(ratio))
  BY DEF EndTick
<1>2. tick \in Ticks
  BY <1>1, TickAtRatioInTable
<1>3. e.tick = IF tick < ref.tick /\ ref.partials = X30 THEN tick + 2 ELSE tick + 1
  BY <1>1 DEF EndTick
<1> HIDE DEF e, tick
<1>4. /\ tick \in Int /\ ref.tick \in Int /\ ref.tick - 1 <= tick /\ SetTicks(b) \subseteq Int
      /\ Under(b, ref.tick) /\ m <= ref.tick
      /\ ref.status = "liquidated" => ref.tick = m /\ Beneath(b, m)
      /\ ref.status # "liquidated" => ref.partials = X30
  BY <1>2, TickRange DEF Reached, tick
<1>5. e.tick \in Int /\ ref.tick <= e.tick
  BY <1>3, <1>4
<1>6. e.tick = ref.tick => ref.status = "liquidated"
  BY <1>3, <1>4
<1>7. CASE e.tick = ref.tick
  BY <1>4, <1>5, <1>6, <1>7 DEF e
<1>8. CASE e.tick # ref.tick
  <2>1. ref.tick < e.tick
    BY <1>4, <1>5, <1>8
  <2>2. m <= e.tick
    BY <2>1, <1>4, <1>5
  <2>3. Beneath(b, e.tick)
    BY <2>1, <1>4, <1>5 DEF Under, Beneath
  <2> QED BY <2>2, <2>3, <1>5 DEF e
<1> QED BY <1>7, <1>8

EndsHere(br, br2, c, m) ==
  /\ \A b \in BranchIds : b # c => br2[b] = br[b]
  /\ br2[c].minima_tick = m /\ br2[c].connected = br[c].connected
  /\ br2[c].connected_minima_tick = br[c].connected_minima_tick

LEMMA EndHeights ==
  ASSUME NEW br, NEW total, NEW c, Forest(br, total, c), Heights(br), Hung(br, c), NEW m \in Int,
         br[c].connected_minima_tick <= m, NEW br2, EndsHere(br, br2, c, m)
  PROVE  Heights(br2)
<1> DEFINE k == br[c].connected
<1>1. /\ c \in BranchIds /\ Chained(br, c) /\ Woods(br, total)
      /\ \A b \in BranchIds : b > c => br[b].status # "liquidated"
  BY DEF Forest
<1>2. /\ k \in 0 .. c - 1 /\ (k # 0 => k \in BranchIds /\ br[k].status = "liquidated")
      /\ \A d \in BranchIds : k < d /\ d < c => br[d].status # "liquidated"
      /\ br[c].connected_minima_tick = MinimaOf(br, k)
      /\ BranchIds \subseteq Nat
  BY <1>1, BranchIdsClosed DEF Chained, Hung
<1>3. \A b \in BranchIds : b # c => br2[b] = br[b]
  BY DEF EndsHere
<1>4. \A b \in BranchIds : br[b].status = "liquidated" =>
        Chained(br, b) /\ Hung(br, b) /\ br[b].minima_tick \in Int
  BY <1>1, TickAssumption DEF Woods, Heights
<1>5. ASSUME NEW d \in BranchIds, d < c, br[d].status = "liquidated"
      PROVE  br[d].minima_tick <= m
  <2>1. d <= k /\ k # 0 /\ d \in Nat
    <3>1. d \in Nat /\ c \in Nat /\ d # 0 /\ k \in Nat
      BY <1>1, <1>2, BranchIdsClosed
    <3>2. ~(k < d)
      BY <1>2, <1>5
    <3> QED BY <3>1, <3>2
  <2>2. MinimaOf(br, k) = br[k].minima_tick /\ br[k].minima_tick \in Int
    BY <2>1, <1>2, <1>4 DEF MinimaOf
  <2>3. br[d].minima_tick <= br[k].minima_tick
    <3>1. CASE d = k
      BY <3>1, <2>2
    <3>2. CASE d # k
      <4>1. d < k /\ k \in BranchIds /\ br[k].status = "liquidated"
        BY <3>2, <2>1, <1>2
      <4> QED BY <4>1, <1>5 DEF Heights
    <3> QED BY <3>1, <3>2
  <2>4. br[d].minima_tick \in Int /\ br[k].minima_tick <= m
    BY <2>2, <1>2, <1>4, <1>5
  <2> QED BY <2>2, <2>3, <2>4
<1>6. ASSUME NEW b \in BranchIds, br2[b].status = "liquidated"
      PROVE  /\ Hung(br2, b)
             /\ \A d \in BranchIds :
                  d < b /\ br2[d].status = "liquidated" => br2[d].minima_tick <= br2[b].minima_tick
  <2>1. CASE b = c
    <3>1. br2[c].minima_tick = m /\ br2[c].connected = k
          /\ br2[c].connected_minima_tick = br[c].connected_minima_tick
      BY DEF EndsHere
    <3>2. MinimaOf(br2, k) = MinimaOf(br, k)
      BY <1>2, <1>3 DEF MinimaOf
    <3>3. Hung(br2, c)
      BY <3>1, <3>2, <1>2 DEF Hung
    <3>4. \A d \in BranchIds : d < c => br2[d] = br[d]
      <4>1. \A d \in BranchIds : d < c => d # c
        BY <1>2, <1>1
      <4> QED BY <4>1, <1>3
    <3> QED BY <2>1, <3>1, <3>3, <3>4, <1>5
  <2>2. CASE b # c
    <3>1. br[b].status = "liquidated" /\ br2[b] = br[b] /\ b < c
      BY <2>2, <1>1, <1>2, <1>3, <1>6
    <3>2. br[b].connected \in 0 .. b - 1 /\ Hung(br, b) /\ (br[b].connected # 0 => br[b].connected \in BranchIds)
      BY <3>1, <1>4, BranchIdsClosed DEF Chained
    <3>3. br[b].connected # c
      BY <3>1, <3>2, <1>1, <1>2
    <3>4. MinimaOf(br2, br[b].connected) = MinimaOf(br, br[b].connected)
      BY <3>2, <3>3, <1>3 DEF MinimaOf
    <3>5. Hung(br2, b)
      BY <3>1, <3>2, <3>4 DEF Hung
    <3>6. \A d \in BranchIds : d < b => br2[d] = br[d]
      BY <3>1, <1>1, <1>2, <1>3
    <3> QED BY <3>1, <3>5, <3>6 DEF Heights
  <2> QED BY <2>1, <2>2
<1> QED BY <1>6 DEF Heights

\* What EndsBeside says of one turn that gathered l.
Beside(l, ref, cpd) ==
  LET col == ColLiquidated(l.remaining, cpd)
  IN  /\ l.debt - l.remaining >= MINIMUM_BRANCH_DEBT
      /\ EndTick(l, ref, l.remaining, col).fits
      => TickAtRatio(RatioLeft(l, l.remaining, col)) >= ref.tick - 1

LEMMA EndHigh ==
  ASSUME NEW l, HasFields(l, LoopFields), Shape(l.store), Running(l), NEW lt \in Ticks,
         GatheredHigh(l, lt), NEW due, NEW col_due, NEW cpd,
         l.debt \in Nat, l.remaining \in Nat,
         due >= l.remaining => Beside(l, Reference(l, lt), cpd),
         ~EndLiquidation(l, Reference(l, lt), due, col_due, cpd).failed
  PROVE  High(EndLiquidation(l, Reference(l, lt), due, col_due, cpd).store)
<1> DEFINE ref   == Reference(l, lt)
           r     == EndLiquidation(l, ref, due, col_due, cpd)
           short == due >= l.remaining
           debt  == IF short THEN l.remaining ELSE due
           col   == IF short THEN ColLiquidated(debt, cpd) ELSE col_due
           end   == IF short THEN EndTick(l, ref, debt, col)
                    ELSE [tick |-> ref.tick + 1, partials |-> 1, fits |-> TRUE]
           sold  == Sell(l, debt, col)
           st    == l.store
           c     == l.branch
           here  == st.branches[c]
           failed == sold.failed \/ ~end.fits \/ sold.debt < MINIMUM_BRANCH_DEBT
           e     == [here EXCEPT !.status = "liquidated", !.minima_tick = end.tick,
                        !.partials = end.partials, !.debt = sold.debt, !.factor = sold.factor]
           B     == [st.branches EXCEPT ![c] = e]
           V     == [st.vault EXCEPT !.liquidated = TRUE, !.top = end.tick, !.current = c]
           m     == here.connected_minima_tick
<1>1. /\ HasFields(sold, LoopFields) /\ sold.store = st
      /\ HasFields(st, StoreFields) /\ HasFields(st.vault, VaultFields)
      /\ BranchesShaped(st.branches) /\ c \in BranchIds /\ IndexOK(st.bits)
      /\ Forest(st.branches, st.vault.total, c)
  BY SellKeeps DEF Shape, Running, Forest
<1>2. r = [sold EXCEPT !.ended = TRUE, !.failed = failed,
             !.store.branches[c] = [@ EXCEPT !.status = "liquidated", !.minima_tick = end.tick,
                !.partials = end.partials, !.debt = sold.debt, !.factor = sold.factor],
             !.store.vault = [@ EXCEPT !.liquidated = TRUE, !.top = end.tick, !.current = c]]
  BY DEF EndLiquidation
<1>3. ~r.failed
  OBVIOUS
<1>4. Reached(ref, st.bits, m) /\ (short => Beside(l, ref, cpd))
  BY ReferenceHigh
<1>5. /\ Shows(st.bits, st.ticks) /\ Heights(st.branches) /\ Hung(st.branches, c)
  BY DEF GatheredHigh
<1> HIDE DEF sold, failed, end
<1>6. r.failed = failed /\ r.store = [st EXCEPT !.branches = B, !.vault = V]
  <2> HIDE DEF st, c
  <2>1. /\ r.failed = failed
        /\ r.store = [st EXCEPT !.branches[c] = [@ EXCEPT !.status = "liquidated",
                          !.minima_tick = end.tick, !.partials = end.partials, !.debt = sold.debt,
                          !.factor = sold.factor],
                        !.vault = [@ EXCEPT !.liquidated = TRUE, !.top = end.tick, !.current = c]]
    BY <1>1, <1>2 DEF HasFields, LoopFields
  <2>2. r.store = [st EXCEPT !.branches = B, !.vault = V]
    BY <2>1, <1>1 DEF HasFields, StoreFields, here
  <2> HIDE DEF r, B, V
  <2> QED BY <2>1, <2>2
<1> HIDE DEF r, B, V
<1>7. end.fits /\ ~(sold.debt < MINIMUM_BRANCH_DEBT)
  <2>1. ~failed
    BY <1>3, <1>6, Zenon
  <2> QED BY <2>1, Zenon DEF failed
<1>8. m \in Int /\ SetTicks(st.bits) \subseteq Ticks /\ ref.tick \in Ticks
  <2>1. m \in Ticks \union {COLD_TICK}
    BY <1>1 DEF Forest, Chained
  <2> HIDE DEF m
  <2> QED BY <2>1, <1>1, <1>4, TickRange DEF IndexOK, Reached
<1>9. end.tick \in Int /\ Beneath(st.bits, end.tick) /\ m <= end.tick
  <2> HIDE DEF m, ref
  <2>1. CASE short
    <3> DEFINE due_col == ColLiquidated(l.remaining, cpd)
    <3>1. end = EndTick(l, ref, l.remaining, due_col)
      BY <2>1 DEF end
    <3>2. l.debt - l.remaining >= MINIMUM_BRANCH_DEBT
      <4>1. sold.debt = l.debt - l.remaining
        BY <2>1 DEF sold, Sell, HasFields, LoopFields
      <4> QED BY <4>1, <1>7, ScaleAssumption
    <3>3. TickAtRatio(RatioLeft(l, l.remaining, due_col)) >= ref.tick - 1
      BY <2>1, <3>1, <3>2, <1>4, <1>7 DEF Beside
    <3> HIDE DEF due_col, st
    <3> QED BY <3>1, <3>3, <1>4, <1>7, <1>8, EndTickReached
  <2>2. CASE ~short
    <3>1. end.tick = ref.tick + 1
      BY <2>2 DEF end
    <3>2. ref.tick \in Int /\ SetTicks(st.bits) \subseteq Int
      BY <1>8, TickRange
    <3> QED BY <3>1, <3>2, <1>4, <1>8 DEF Reached, Under, Beneath
  <2> QED BY <2>1, <2>2
<1>10. /\ e.status = "liquidated" /\ e.minima_tick = end.tick
       /\ e.connected = here.connected /\ e.connected_minima_tick = here.connected_minima_tick
  <2>1. HasFields(here, BranchFields)
    BY <1>1 DEF BranchesShaped
  <2> HIDE DEF here, c
  <2> QED BY <2>1 DEF HasFields, BranchFields
<1> HIDE DEF e
<1>11. /\ r.store.branches = B /\ r.store.vault = V /\ r.store.ticks = st.ticks
       /\ r.store.bits = st.bits
  BY <1>1, <1>6 DEF HasFields, StoreFields
<1>12. B[c] = e /\ \A b \in BranchIds : b # c => B[b] = st.branches[b]
  <2> HIDE DEF st, c
  <2> QED BY <1>1 DEF B, BranchesShaped
<1>13. V.liquidated = TRUE /\ V.top = end.tick /\ V.current = c
  <2> HIDE DEF st, c
  <2> QED BY <1>1 DEF V, HasFields, VaultFields
<1>14. Heights(B)
  <2>1. EndsHere(st.branches, B, c, end.tick)
    BY <1>10, <1>12 DEF EndsHere
  <2> HIDE DEF st, c
  <2> QED BY <2>1, <1>1, <1>5, <1>9, EndHeights DEF m, here
<1>15. TopPlaced(V, B, st.bits)
  BY <1>9, <1>10, <1>12, <1>13 DEF TopPlaced
<1> QED BY <1>5, <1>11, <1>14, <1>15 DEF High, r, ref

LEMMA MergeHigh ==
  ASSUME NEW l, HasFields(l, LoopFields), Shape(l.store), Running(l), Heights(l.store.branches),
         l.store.branches[l.branch].connected \in BranchIds
  PROVE  LET r == Merge(l)
         IN  /\ r.store.bits = l.store.bits /\ r.store.ticks = l.store.ticks
             /\ r.next = l.next /\ r.first = l.first
             /\ Heights(r.store.branches) /\ Hung(r.store.branches, r.branch)
<1> DEFINE r  == Merge(l)
           st == l.store
           c  == l.branch
           b  == st.branches[c]
           k  == b.connected
           factor == st.branches[k].factor
           link   == DivBigNumber(factor, l.factor)
           failed == l.failed \/ link = BNError
           e  == [b EXCEPT !.status = "merged", !.minima_tick = COLD_TICK, !.partials = 0,
                           !.debt = 0, !.factor = link]
           B  == [st.branches EXCEPT ![c] = e]
<1>1. /\ HasFields(st, StoreFields) /\ BranchesShaped(st.branches)
      /\ c \in BranchIds /\ HasFields(b, BranchFields) /\ Chained(st.branches, c)
      /\ Woods(st.branches, st.vault.total)
  BY DEF Shape, Running, Forest, BranchesShaped
<1>2. k \in BranchIds /\ k # c /\ st.branches[k].status = "liquidated"
  <2>1. k \in 0 .. c - 1 /\ k \in BranchIds /\ c \in BranchIds
    BY <1>1 DEF Chained
  <2>2. k # 0 /\ k # c
    <3> HIDE DEF k, c
    <3> QED BY <2>1, BranchIdsClosed
  <2> QED BY <2>1, <2>2, <1>1 DEF Chained
<1>3. r = [l EXCEPT !.branch = k, !.factor = factor, !.failed = failed,
                    !.store.branches[c] = [@ EXCEPT !.status = "merged",
                       !.minima_tick = COLD_TICK, !.partials = 0, !.debt = 0, !.factor = link]]
  BY DEF Merge
<1>4. Running(r)
  <2>1. l.store.branches[l.branch].connected # 0
    BY <1>2, BranchIdsClosed
  <2> QED BY <2>1, MergeRuns
<1>5. Woods(r.store.branches, r.store.vault.total) /\ Chained(r.store.branches, r.branch)
  BY <1>4 DEF Running, Forest
<1> HIDE DEF r, factor, link, failed
<1>6. /\ r.branch = k /\ r.next = l.next /\ r.first = l.first
      /\ r.store = [st EXCEPT !.branches = B]
  <2> HIDE DEF st, c, k
  <2>1. /\ r.branch = k /\ r.next = l.next /\ r.first = l.first
        /\ r.store = [st EXCEPT !.branches[c] = [@ EXCEPT !.status = "merged",
                        !.minima_tick = COLD_TICK, !.partials = 0, !.debt = 0, !.factor = link]]
    BY <1>3 DEF HasFields, LoopFields, st
  <2>2. r.store = [st EXCEPT !.branches = B]
    BY <2>1, <1>1 DEF HasFields, StoreFields
  <2> HIDE DEF B
  <2> QED BY <2>1, <2>2
<1> HIDE DEF B
<1>7. e.status = "merged"
  <2> HIDE DEF b
  <2> QED BY <1>1 DEF HasFields, BranchFields
<1> HIDE DEF e
<1>8. r.store.branches = B /\ r.store.bits = st.bits /\ r.store.ticks = st.ticks
  BY <1>1, <1>6 DEF HasFields, StoreFields
<1>9. B[c] = e /\ \A d \in BranchIds : d # c => B[d] = st.branches[d]
  <2> HIDE DEF st, c
  <2> QED BY <1>1 DEF B, BranchesShaped
<1>10. Fewer(st.branches, B)
  BY <1>7, <1>9 DEF Fewer, StandsAs
<1>11. Heights(B)
  BY <1>5, <1>8, <1>10, HeightsKept
<1>12. Hung(B, k)
  <2>1. B[k].status = "liquidated"
    BY <1>2, <1>9
  <2> QED BY <2>1, <1>2, <1>11 DEF Heights
<1> QED BY <1>6, <1>8, <1>11, <1>12 DEF r

LEMMA OnwardHigh ==
  ASSUME NEW l, HasFields(l, LoopFields), Shape(l.store), Running(l), NEW lt \in Ticks,
         GatheredHigh(l, lt), NEW debt, NEW col, Reference(l, lt).status # "threshold"
  PROVE  GoingHigh(Onward(l, Reference(l, lt), debt, col), lt)
<1> DEFINE ref  == Reference(l, lt)
           r    == Onward(l, ref, debt, col)
           s1   == Sell(l, debt, col)
           sold == [s1 EXCEPT !.remaining = @ - debt]
           at   == IF ref.status = "liquidated" THEN Merge(sold) ELSE sold
           k    == l.store.branches[l.branch].connected
           m    == l.store.branches[l.branch].connected_minima_tick
<1>1. r = [at EXCEPT !.tick = ref.tick, !.ratio = ref.ratio, !.perfect = (ref.status = "perfect")]
  BY DEF Onward
<1>2. /\ Shows(l.store.bits, l.store.ticks) /\ Heights(l.store.branches)
      /\ Hung(l.store.branches, l.branch) /\ Ahead(l.store.bits, l.next, lt)
  BY DEF GatheredHigh
<1>3. /\ Under(l.store.bits, ref.tick) /\ (ref.status = "perfect" => ref.tick = l.next)
      /\ ref.status \in {"liquidated", "perfect"}
      /\ (ref.status = "liquidated" => k \in BranchIds)
  <2>1. Reached(ref, l.store.bits, m) /\ (ref.status = "perfect" => ref.tick = l.next)
    BY ReferenceHigh
  <2>2. ref.status = "liquidated" => k # 0
    BY ReferenceInTable
  <2>3. k # 0 => k \in BranchIds
    <3>1. k \in 0 .. l.branch - 1 /\ l.branch \in BranchIds
      BY DEF Running, Forest, Chained
    <3>2. \A b \in BranchIds : \A d \in 0 .. b - 1 : d # 0 => d \in BranchIds
      BY StoreAssumption DEF BranchIds
    <3> HIDE DEF k
    <3> QED BY <3>1, <3>2
  <2>4. ref.status \in {"liquidated", "perfect"}
    <3> DEFINE high == m > Greatest(l.next, lt)
    <3>1. CASE high
      BY <3>1 DEF Reference
    <3>2. CASE ~high /\ l.next > lt
      BY <3>2 DEF Reference
    <3>3. CASE ~high /\ ~(l.next > lt)
      <4>1. ref.status = "threshold"
        BY <3>3 DEF Reference
      <4> QED BY <4>1
    <3> QED BY <3>1, <3>2, <3>3
  <2> QED BY <2>1, <2>2, <2>3, <2>4 DEF Reached
<1>4. /\ HasFields(s1, LoopFields) /\ s1.store = l.store /\ s1.branch = l.branch
      /\ s1.tick = l.tick /\ s1.next = l.next
  BY SellKeeps
<1>5. s1.first = l.first
  BY DEF Sell, HasFields, LoopFields
<1> HIDE DEF ref, r, s1
<1>6. /\ HasFields(sold, LoopFields) /\ sold.store = l.store /\ sold.branch = l.branch
      /\ sold.next = l.next /\ sold.tick = l.tick
  BY <1>4 DEF HasFields, LoopFields
<1> HIDE DEF sold
<1>7. Shape(sold.store) /\ Running(sold)
  BY <1>6 DEF Running
<1>8. CASE ref.status = "liquidated"
  <2> DEFINE M == Merge(sold)
  <2>1. at = M /\ sold.store.branches[sold.branch].connected \in BranchIds
    BY <1>3, <1>6, <1>8
  <2>2. HasFields(M, LoopFields)
    <3>1. sold.store.branches[sold.branch].connected # 0
      BY <2>1, BranchIdsClosed
    <3> QED BY <3>1, <1>6, <1>7, MergeRuns
  <2>3. /\ M.store.bits = l.store.bits /\ M.store.ticks = l.store.ticks /\ M.next = l.next
        /\ Heights(M.store.branches) /\ Hung(M.store.branches, M.branch)
    <3>1. Heights(sold.store.branches)
      BY <1>2, <1>6
    <3> QED BY <3>1, <2>1, <1>6, <1>7, MergeHigh
  <2>4. r = [M EXCEPT !.tick = ref.tick, !.ratio = ref.ratio, !.perfect = FALSE]
    BY <1>1, <1>8, <2>1
  <2> HIDE DEF M
  <2>5. /\ r.store = M.store /\ r.branch = M.branch /\ r.next = M.next
        /\ r.tick = ref.tick /\ r.perfect = FALSE
    BY <2>2, <2>4 DEF HasFields, LoopFields
  <2> QED BY <2>3, <2>5, <1>2, <1>3 DEF GoingHigh, r, ref
<1>9. CASE ref.status # "liquidated"
  <2>1. at = sold /\ ref.status = "perfect" /\ ref.tick = l.next
    BY <1>3, <1>9
  <2>2. r = [sold EXCEPT !.tick = ref.tick, !.ratio = ref.ratio, !.perfect = TRUE]
    BY <1>1, <2>1
  <2>3. /\ r.store = sold.store /\ r.branch = sold.branch /\ r.next = sold.next
        /\ r.tick = ref.tick
    BY <1>6, <2>2 DEF HasFields, LoopFields
  <2> QED BY <2>1, <2>3, <1>2, <1>3, <1>6 DEF GoingHigh, r, ref
<1> QED BY <1>8, <1>9

TurnedHigh(l, lt) == ~l.failed => IF l.ended THEN High(l.store) ELSE GoingHigh(l, lt)

LEMMA TurnHigh ==
  ASSUME NEW l, NEW s, NEW total \in Int, Turned(l, s, total), NEW lt \in Ticks,
         TurnedHigh(l, lt), NEW cpd \in Nat, EndsBesideReference(l, lt, cpd)
  PROVE  TurnedHigh(Turn(l, lt, cpd), lt)
<1> DEFINE r    == Turn(l, lt, cpd)
           g    == Gather(l, lt)
           ref  == Reference(g, lt)
           all  == DebtLiquidated(g, ref, cpd)
           col  == ColLiquidated(all, cpd)
           debt == IF all = g.debt THEN all - 1 ELSE all
<1>1. CASE l.ended \/ l.failed
  <2>1. r = l
    BY <1>1 DEF Turn
  <2> QED BY <2>1
<1>2. CASE ~(l.ended \/ l.failed)
  <2>1. /\ HasFields(l, LoopFields) /\ Shape(l.store) /\ Running(l) /\ Going(l, s, total)
        /\ GoingHigh(l, lt)
    BY <1>2 DEF Turned, Turning, TurnedHigh
  <2>2. /\ HasFields(g, LoopFields) /\ Shape(g.store) /\ Running(g)
        /\ g.ended = l.ended /\ g.failed = l.failed
    BY <2>1, GatherRuns
  <2>3. Gathered(g, s, total) /\ GatheredHigh(g, lt)
    BY <2>1, GatherBooks, GatherHigh
  <2>4. LoopNumbers(g) /\ Booked(g.store) /\ g.debt \in Nat /\ g.remaining \in Nat
    BY <2>3 DEF Gathered, LoopBooked, LoopNumbers
  <2>5. (CanSell(g, ref, cpd) /\ all >= g.remaining) => Beside(g, ref, cpd)
    <3> DEFINE rest == ColLiquidated(g.remaining, cpd)
    <3>1. (/\ CanSell(g, ref, cpd) /\ all >= g.remaining
           /\ g.debt - g.remaining >= MINIMUM_BRANCH_DEBT
           /\ EndTick(g, ref, g.remaining, rest).fits)
            => TickAtRatio(RatioLeft(g, g.remaining, rest)) >= ref.tick - 1
      BY <1>2 DEF EndsBesideReference
    <3> HIDE DEF g, ref, all
    <3> QED BY <3>1 DEF Beside
  <2> HIDE DEF g
  <2>6. ref.ratio \in Nat
    BY <2>2, <2>4, ReferenceTyped
  <2>7. CASE ~CanSell(g, ref, cpd)
    <3>1. r = [g EXCEPT !.failed = TRUE]
      BY <1>2, <2>7 DEF Turn, g
    <3> HIDE DEF r
    <3>2. r.failed = TRUE
      BY <3>1, <2>2 DEF HasFields, LoopFields
    <3> QED BY <3>2 DEF TurnedHigh, r
  <2>8. CASE CanSell(g, ref, cpd)
    <3>1. all \in Nat
      <4> HIDE DEF ref
      <4> QED BY <2>4, <2>6, <2>8, DebtLiquidatedTyped
    <3> HIDE DEF all, col
    <3>2. debt >= g.remaining => Beside(g, ref, cpd)
      BY <2>4, <2>5, <2>8, <3>1
    <3> HIDE DEF debt
    <3>3. CASE debt >= g.remaining \/ ref.status = "threshold"
      <4>1. r = EndLiquidation(g, ref, debt, col, cpd)
        BY <1>2, <2>8, <3>3 DEF Turn, g, debt, col, all
      <4>2. ASSUME ~r.failed PROVE High(r.store) /\ r.ended
        <5> HIDE DEF r
        <5>1. ~EndLiquidation(g, Reference(g, lt), debt, col, cpd).failed
          BY <4>1, <4>2
        <5>2. High(EndLiquidation(g, Reference(g, lt), debt, col, cpd).store)
          BY <5>1, <2>2, <2>3, <2>4, <3>2, EndHigh
        <5>3. EndLiquidation(g, Reference(g, lt), debt, col, cpd).ended
          BY <2>2, EndLinked
        <5> QED BY <4>1, <5>2, <5>3
      <4> HIDE DEF r
      <4> QED BY <4>2 DEF TurnedHigh, r
    <3>4. CASE ~(debt >= g.remaining \/ ref.status = "threshold")
      <4>1. r = Onward(g, ref, debt, col)
        BY <1>2, <2>8, <3>4 DEF Turn, g, debt, col, all
      <4>2. GoingHigh(Onward(g, Reference(g, lt), debt, col), lt)
        BY <2>2, <2>3, <3>4, OnwardHigh
      <4>3. Onward(g, Reference(g, lt), debt, col).ended = g.ended
        BY <2>2, OnwardRuns
      <4>4. GoingHigh(r, lt) /\ ~r.ended
        <5> HIDE DEF r
        <5> QED BY <4>1, <4>2, <4>3, <2>2, <1>2
      <4> HIDE DEF r
      <4> QED BY <4>4 DEF TurnedHigh, r
    <3> QED BY <3>3, <3>4
  <2> QED BY <2>7, <2>8
<1> QED BY <1>1, <1>2

AllBeside(l, lt, cpd) ==
  \A n \in 0 .. MaxTurns - 1 : EndsBesideReference(Turns(l, lt, cpd)[n], lt, cpd)

LEMMA LiquidatedHigh ==
  ASSUME NEW l, NEW s, NEW total \in Int, Turned(l, s, total), NEW lt \in Ticks,
         TurnedHigh(l, lt), NEW cpd \in Nat, AllBeside(l, lt, cpd),
         ~Liquidated(l, lt, cpd).failed
  PROVE  High(Liquidated(l, lt, cpd).store)
<1> DEFINE r == Liquidated(l, lt, cpd)
           A == Turns(l, lt, cpd)
<1>1. TurnWalk(A, l, lt, cpd)
  BY LiquidatedWalks
<1>2. \A n \in 0 .. MaxTurns - 1 : EndsBesideReference(A[n], lt, cpd)
  BY DEF AllBeside
<1> HIDE DEF A
<1>3. /\ A[0] = l
      /\ \A n \in 1 .. MaxTurns : A[n] = Turn(A[n - 1], lt, cpd)
      /\ r = [A[MaxTurns] EXCEPT !.failed = @ \/ ~A[MaxTurns].ended]
  BY <1>1 DEF TurnWalk
<1>4. ~r.failed
  OBVIOUS
<1> DEFINE OK(n) == Turned(A[n], s, total) /\ TurnedHigh(A[n], lt)
           bad == {n \in Nat : n <= MaxTurns /\ ~OK(n)}
<1>5. bad = {}
  <2>1. SUFFICES ASSUME bad # {} PROVE FALSE
    OBVIOUS
  <2>2. PICK m \in bad : \A k \in bad : m <= k
    BY <2>1, LeastNatural
  <2>3. m # 0
    BY <2>2, <1>3
  <2>4. /\ m \in 1 .. MaxTurns /\ m - 1 \in Nat /\ m - 1 <= MaxTurns /\ m - 1 \notin bad
        /\ m - 1 \in 0 .. MaxTurns - 1
    BY <2>2, <2>3, MaxTurnsCounts
  <2>5. OK(m - 1) /\ EndsBesideReference(A[m - 1], lt, cpd)
    BY <2>4, <1>2
  <2>6. OK(m)
    BY <2>4, <2>5, <1>3, TurnBooks, TurnHigh
  <2> QED BY <2>2, <2>6
<1> DEFINE last == A[MaxTurns]
<1>6. Turned(last, s, total) /\ TurnedHigh(last, lt)
  BY <1>5, MaxTurnsCounts
<1>7. HasFields(last, LoopFields)
  BY <1>6 DEF Turned, Turning
<1> HIDE DEF r, last
<1>8. r.failed = (last.failed \/ ~last.ended) /\ r.store = last.store
  BY <1>3, <1>7 DEF HasFields, LoopFields, last
<1>9. ~last.failed /\ last.ended
  BY <1>4, <1>8, Zenon
<1>10. High(last.store)
  BY <1>6, <1>9 DEF TurnedHigh
<1> QED BY <1>8, <1>10 DEF r

-----------------------------------------------------------------------------
(* A liquidation from its start.                                           *)

LEMMA StartKeeps ==
  ASSUME NEW s, Linked(s), s.vault.top \in Ticks \union {COLD_TICK}, NEW remaining, NEW absorb
  PROVE  LET l == StartLoop(s, remaining, absorb)
         IN  /\ SameHeights(s, l.store) /\ l.branch = s.vault.current
             /\ l.first /\ ~l.failed /\ ~l.ended
<1> DEFINE b == s.branches[s.vault.current]
           ratio == CASE s.vault.top = COLD_TICK -> 0
                      [] s.vault.liquidated -> PartialsRatio(s.vault.top, b.partials)
                      [] OTHER -> RatioAtTick[s.vault.top]
           next == IF s.vault.liquidated THEN COLD_TICK ELSE s.vault.top
           factor == IF b.factor = BigZero THEN InitialFactor ELSE b.factor
           l0 == [store |-> s, remaining |-> remaining, debt |-> 0, col |-> 0, debt_liq |-> 0,
                  col_liq |-> 0, tick |-> s.vault.top, perfect |-> ~s.vault.liquidated,
                  ratio |-> ratio, next |-> next, branch |-> s.vault.current, first |-> TRUE,
                  failed |-> FALSE, ended |-> FALSE, factor |-> factor]
           l == StartLoop(s, remaining, absorb)
<1>1. l = IF absorb THEN BuyAbsorbed(l0) ELSE l0
  BY DEF StartLoop
<1>2. HasFields(s, StoreFields) /\ HasFields(s.vault, VaultFields)
  BY DEF Linked, Shape
<1> HIDE DEF ratio, next, factor
<1>3. /\ HasFields(l0, LoopFields) /\ l0.store = s /\ l0.branch = s.vault.current
      /\ l0.first = TRUE /\ l0.failed = FALSE /\ l0.ended = FALSE
  BY DEF HasFields, LoopFields
<1> HIDE DEF l0, l
<1>4. CASE l = l0
  BY <1>3, <1>4 DEF SameHeights, StandsAs, l
<1>5. CASE l = BuyAbsorbed(l0)
  <2>1. PICK x1, x2, x3, x4, x5 :
          l = [l0 EXCEPT !.debt_liq = x1, !.col_liq = x2, !.remaining = x3,
                         !.store.vault.absorbed_debt = x4, !.store.vault.absorbed_col = x5]
    BY <1>5 DEF BuyAbsorbed
  <2> DEFINE l1 == [l0 EXCEPT !.debt_liq = x1, !.col_liq = x2, !.remaining = x3]
             l2 == [l1 EXCEPT !.store.vault.absorbed_debt = x4]
             l3 == [l2 EXCEPT !.store.vault.absorbed_col = x5]
             s1 == [s EXCEPT !.vault.absorbed_debt = x4]
             s2 == [s1 EXCEPT !.vault.absorbed_col = x5]
             Alike(k) == /\ HasFields(k, LoopFields) /\ k.branch = l0.branch
                         /\ k.first = l0.first /\ k.failed = l0.failed /\ k.ended = l0.ended
  <2>2. l = l3
    BY <2>1
  <2>3. Alike(l1) /\ l1.store = s
    BY <1>3 DEF HasFields, LoopFields
  <2> HIDE DEF l1
  <2>4. Alike(l2) /\ l2.store = s1
    BY <2>3 DEF HasFields, LoopFields
  <2> HIDE DEF l2, s1
  <2>5. Alike(l3) /\ l3.store = s2
    BY <2>4 DEF HasFields, LoopFields
  <2> HIDE DEF l3
  <2>6. /\ l.branch = s.vault.current /\ l.first = TRUE /\ l.failed = FALSE /\ l.ended = FALSE
        /\ l.store = [s EXCEPT !.vault.absorbed_debt = x4, !.vault.absorbed_col = x5]
    BY <2>2, <2>5, <1>3 DEF s1
  <2> DEFINE st == l.store
  <2> HIDE DEF st
  <2>7. /\ st.bits = s.bits /\ st.ticks = s.ticks /\ st.branches = s.branches
        /\ st.vault = [s.vault EXCEPT !.absorbed_debt = x4, !.absorbed_col = x5]
    BY <2>6, <1>2 DEF HasFields, StoreFields, st
  <2>8. /\ st.vault.liquidated = s.vault.liquidated /\ st.vault.top = s.vault.top
        /\ st.vault.current = s.vault.current
    BY <2>7, <1>2 DEF HasFields, VaultFields
  <2>9. SameHeights(s, st)
    BY <2>7, <2>8 DEF SameHeights, StandsAs
  <2> QED BY <2>6, <2>9 DEF st, l
<1> QED BY <1>1, <1>4, <1>5

LEMMA StartHigh ==
  ASSUME NEW s, Linked(s), High(s), s.vault.top \in Ticks \union {COLD_TICK}, NEW remaining,
         NEW absorb, NEW lt
  PROVE  LET l == StartLoop(s, remaining, absorb)
         IN  High(l.store) /\ (l.tick \in Ticks => TurnedHigh(l, lt))
<1> DEFINE l  == StartLoop(s, remaining, absorb)
           st == l.store
           c  == s.vault.current
<1>1. /\ SameHeights(s, st) /\ l.branch = c /\ l.first /\ ~l.failed /\ ~l.ended
      /\ Linked(st) /\ l.tick = s.vault.top
  BY StartKeeps, StartLinked
<1> HIDE DEF l
<1>2. High(st)
  BY <1>1, SameHigh
<1>3. /\ st.vault.current = c /\ st.vault.top = s.vault.top
      /\ TopPlaced(st.vault, st.branches, st.bits)
  BY <1>1, <1>2 DEF SameHeights, High
<1>4. Hung(st.branches, c)
  <2>1. CASE st.vault.liquidated
    <3>1. c \in BranchIds /\ st.branches[c].status = "liquidated"
      BY <1>1, <1>3, <2>1 DEF Linked, TopLinked, Forest
    <3> QED BY <3>1, <1>2 DEF High, Heights
  <2>2. CASE ~st.vault.liquidated
    BY <1>3, <2>2 DEF TopPlaced
  <2> QED BY <2>1, <2>2
<1>5. ASSUME l.tick \in Ticks PROVE TurnedHigh(l, lt)
  <2>1. Under(st.bits, l.tick)
    BY <1>1, <1>2, <1>3, <1>5, UnderTop, TickRange
  <2> QED BY <1>1, <1>2, <1>4, <2>1 DEF High, TurnedHigh, GoingHigh
<1> QED BY <1>2, <1>5 DEF l

LEMMA LoopOutcomeHigh ==
  ASSUME NEW s, Linked(s), Booked(s), High(s), s.vault.top \in Ticks \union {COLD_TICK},
         NEW amount \in Nat, NEW absorb, NEW price \in Nat \ {0}, PriceHasTicks(price),
         NEW l, l = StartLoop(s, (amount * EXCHANGE_PRICES_PRECISION) \div borrow_ex_price, absorb),
         (l.tick > LiquidationTick(price) /\ l.remaining > 0) =>
           AllBeside(l, LiquidationTick(price), ColPerDebt(price)),
         ~LiquidationOutcome(s, amount, absorb, price).failed
  PROVE  High(LiquidationOutcome(s, amount, absorb, price).store)
<1> DEFINE r == LiquidationOutcome(s, amount, absorb, price)
           tick == LiquidationTick(price)
           remaining == (amount * EXCHANGE_PRICES_PRECISION) \div borrow_ex_price
           cpd == ColPerDebt(price)
<1>1. tick \in Ticks /\ cpd \in Nat
  BY TickAtRatioInTable, ColPerDebtTyped DEF PriceHasTicks, LiquidationTick
<1>2. remaining \in Nat
  <2>1. amount * EXCHANGE_PRICES_PRECISION \in Nat
    BY DebtConstants
  <2> QED BY <2>1, DebtConstants, QuotientNatural
<1>3. r = IF ~(l.tick > tick /\ l.remaining > 0) THEN l
          ELSE IF NothingToLiquidate(l, tick) THEN [l EXCEPT !.failed = TRUE]
          ELSE Liquidated(l, tick, cpd)
  BY DEF LiquidationOutcome
<1>4. l = StartLoop(s, remaining, absorb)
  OBVIOUS
<1> HIDE DEF remaining
<1>5. /\ l.tick = s.vault.top /\ l.remaining \in Nat /\ High(l.store)
      /\ l.tick \in Ticks => /\ Turning(l, s) /\ Turned(l, s, DebtHeld(s))
                             /\ TurnedHigh(l, tick)
  BY <1>2, <1>4, StartLinked, StartBooks, StartHigh
<1>6. (l.tick > tick /\ l.remaining > 0) => AllBeside(l, tick, cpd)
  OBVIOUS
<1>7. ~r.failed
  OBVIOUS
<1> HIDE DEF tick, cpd, r
<1>8. CASE ~(l.tick > tick /\ l.remaining > 0)
  BY <1>3, <1>5, <1>8 DEF r
<1>9. CASE l.tick > tick /\ l.remaining > 0
  <2>1. l.tick \in Ticks
    BY <1>1, <1>5, <1>9, TickRange
  <2>2. Turned(l, s, DebtHeld(s)) /\ HasFields(l, LoopFields) /\ TurnedHigh(l, tick)
    BY <1>5, <2>1 DEF Turning
  <2>3. DebtHeld(s) \in Int
    BY HeldTyped
  <2>4. CASE NothingToLiquidate(l, tick)
    <3>1. r = [l EXCEPT !.failed = TRUE]
      BY <1>3, <1>9, <2>4
    <3>2. r.failed = TRUE
      BY <3>1, <2>2 DEF HasFields, LoopFields
    <3> QED BY <1>7, <3>2
  <2>5. CASE ~NothingToLiquidate(l, tick)
    <3>1. r = Liquidated(l, tick, cpd)
      BY <1>3, <1>9, <2>5
    <3>2. High(Liquidated(l, tick, cpd).store)
      BY <1>1, <1>6, <1>7, <1>9, <2>2, <2>3, <3>1, LiquidatedHigh
    <3> QED BY <3>1, <3>2 DEF r
  <2> QED BY <2>4, <2>5
<1> QED BY <1>8, <1>9

LEMMA AbsorbedHigh ==
  ASSUME Linked(Store), High(Store), NEW price, CanAbsorb(price)
  PROVE  High(Absorbed(price))
<1>1. /\ vault.top \in Ticks /\ Store.vault = vault
      /\ vault.top > MaxTick(price) => AbsorbFits(Store)
  BY StoreFieldsOfStore DEF CanAbsorb
<1>2. MaxTick(price) \in Ticks
  BY TickAtRatioInTable DEF CanAbsorb, PriceHasTicks, MaxTick
<1>3. CASE vault.top > MaxTick(price)
  <2>1. Absorbed(price) = Absorb(Store, MaxTick(price))
    BY <1>3 DEF Absorbed
  <2> QED BY <2>1, <1>1, <1>2, <1>3, AbsorbHigh
<1>4. CASE ~(vault.top > MaxTick(price))
  BY <1>4 DEF Absorbed
<1> QED BY <1>3, <1>4

LEMMA LiquidatesHigh ==
  ASSUME VaultLinked, VaultBooks, High(Store), EndsBeside, Liquidates
  PROVE  High(Store')
<1>1. Linked(Store) /\ Booked(Store)
  BY DEF VaultLinked, VaultBooks
<1>2. ASSUME NEW price \in Prices, AbsorbOnly(price) PROVE High(Store')
  <2> DEFINE s == Absorbed(price)
  <2>1. CanAbsorb(price) /\ Save(s)
    BY <1>2 DEF AbsorbOnly
  <2>2. Linked(s) /\ High(s)
    BY <1>1, <2>1, AbsorbedLinked, AbsorbedHigh
  <2> HIDE DEF s
  <2> QED BY <2>1, <2>2, SavedStore DEF Linked, Shape
<1>3. ASSUME NEW price \in Prices, NEW amount \in LiquidationAmounts, NEW absorb \in BOOLEAN,
             Liquidate(amount, absorb, price)
      PROVE  High(Store')
  <2> DEFINE s == Absorbed(price)
             o == LiquidationOutcome(s, amount, absorb, price)
             r == ReduceTotals(o)
             remaining == (amount * EXCHANGE_PRICES_PRECISION) \div borrow_ex_price
             l == StartLoop(s, remaining, absorb)
  <2>1. CanAbsorb(price) /\ ~o.failed /\ Save(r)
    BY <1>3 DEF Liquidate, Conclude
  <2>2. /\ Linked(s) /\ s.vault.top \in Ticks \union {COLD_TICK} /\ PriceHasTicks(price)
        /\ Booked(s) /\ High(s)
    BY <1>1, <2>1, AbsorbedLinked, AbsorbedBooks, AbsorbedHigh DEF CanAbsorb
  <2>3. price \in Nat \ {0} /\ amount \in Nat
    BY VaultAssumption
  <2>4. (l.tick > LiquidationTick(price) /\ l.remaining > 0) =>
          AllBeside(l, LiquidationTick(price), ColPerDebt(price))
    BY <2>1 DEF EndsBeside, AllBeside
  <2> HIDE DEF s, l
  <2>5. Linked(o.store)
    BY <2>1, <2>2, OutcomeLinked
  <2>6. High(o.store)
    <3>1. l = StartLoop(s, (amount * EXCHANGE_PRICES_PRECISION) \div borrow_ex_price, absorb)
      BY DEF l
    <3> QED BY <2>1, <2>2, <2>3, <2>4, <3>1, LoopOutcomeHigh
  <2> DEFINE w == o.store
             x == w.vault.supply - o.col_liq
             y == w.vault.borrow - o.debt_liq
  <2>7. HasFields(w, StoreFields) /\ HasFields(w.vault, VaultFields)
    BY <2>5 DEF Linked, Shape
  <2> HIDE DEF o
  <2>8. r = WithTotals(w, x, y)
    BY <2>7 DEF ReduceTotals, WithTotals, HasFields, StoreFields, VaultFields
  <2> HIDE DEF w, x, y, r
  <2>9. Linked(w) /\ High(w)
    BY <2>5, <2>6 DEF w
  <2>10. Linked(r) /\ High(r)
    BY <2>8, <2>9, TotalsLinked, TotalsHigh DEF WithTotals
  <2> QED BY <2>1, <2>10, SavedStore DEF Linked, Shape
<1> QED BY <1>2, <1>3 DEF Liquidates

-----------------------------------------------------------------------------
(* The vault under its instructions.                                       *)

LEMMA InitHigh == Init => High(Store)
<1> SUFFICES ASSUME Init PROVE High(Store)
  OBVIOUS
<1>1. /\ vault = EmptyStore.vault /\ bits = NoBits /\ ticks = [t \in Ticks |-> EmptyTick]
      /\ branches = [b \in BranchIds |-> EmptyBranch]
  BY DEF Init, EmptyStore
<1>2. /\ Store.vault = vault /\ Store.ticks = ticks /\ Store.branches = branches
      /\ Store.bits = bits
  BY StoreFieldsOfStore
<1>3. ~vault.liquidated /\ vault.top = COLD_TICK /\ vault.current = 1
  BY <1>1 DEF EmptyStore
<1>4. SetTicks(bits) = {}
  <2>1. \A place \in Places : bits[place] = {}
    BY <1>1 DEF NoBits
  <2> QED BY <2>1, InSetTicks
<1>5. /\ EmptyBranch.status = "not_liquidated" /\ EmptyBranch.connected = 0
      /\ EmptyBranch.connected_minima_tick = COLD_TICK
  BY DEF EmptyBranch
<1>6. 1 \in BranchIds /\ COLD_TICK <= COLD_TICK
  BY BranchIdsClosed, TickWindow
<1>7. Shows(Store.bits, Store.ticks)
  BY <1>1, <1>2, <1>4 DEF Shows, Whole, EmptyTick
<1>8. Heights(Store.branches)
  BY <1>1, <1>2, <1>5 DEF Heights
<1>9. TopPlaced(Store.vault, Store.branches, Store.bits)
  BY <1>1, <1>2, <1>3, <1>4, <1>5, <1>6 DEF TopPlaced, Hung, MinimaOf, Under
<1> QED BY <1>7, <1>8, <1>9 DEF High

LEMMA HighBare ==
  ASSUME NEW s, Linked(s), Booked(s), High(s)
  PROVE  Bare(s)
<1> SUFFICES ASSUME s.vault.liquidated, s.vault.top \in Ticks, s.ticks[s.vault.top].raw_debt # 0,
                    ~s.ticks[s.vault.top].is_liquidated
             PROVE  FALSE
  BY DEF Bare
<1> DEFINE t == s.vault.top
<1>1. s.ticks[t].raw_debt \in Nat
  BY DEF Booked, TickBooked
<1>2. t \in SetTicks(s.bits)
  BY <1>1 DEF High, Shows, Whole
<1>3. t < t /\ t \in Int
  BY <1>2, TickRange DEF High, TopPlaced, Beneath
<1> HIDE DEF t
<1> QED BY <1>3

LEMMA NextHigh ==
  ASSUME VaultLinked, VaultBooks, High(Store), EndsBeside, [Next]_vars
  PROVE  High(Store')
<1>1. CASE UNCHANGED vars
  <2>1. Store' = Store
    BY <1>1 DEF vars, accounts, Store
  <2> QED BY <2>1
<1>2. CASE InitPosition \/ \E p \in PositionIds : ClosePosition(p)
  BY <1>2, OpenedAndClosed
<1>3. CASE Operates
  <2>1. Bare(Store)
    BY HighBare DEF VaultLinked, VaultBooks
  <2>2. PICK p \in PositionIds, amounts \in Amounts : Operate(p, amounts[1], amounts[2])
    BY <1>3 DEF Operates
  <2>3. amounts[1] \in Int /\ amounts[2] \in Int
    <3>1. amounts \in Int \X Int
      BY VaultAssumption
    <3> QED BY <3>1
  <2> QED BY <2>1, <2>2, <2>3, OperateHigh
<1>4. CASE Liquidates
  BY <1>4, LiquidatesHigh
<1> QED BY <1>1, <1>2, <1>3, <1>4 DEF Next

VaultHigh == VaultLinked /\ VaultBooks /\ High(Store)

LEMMA HighIsBare == VaultHigh => TopIsBare
<1> SUFFICES ASSUME VaultHigh PROVE TopIsBare
  OBVIOUS
<1>1. Bare(Store)
  BY HighBare DEF VaultHigh, VaultLinked, VaultBooks
<1> QED BY <1>1, StoreFieldsOfStore DEF Bare, TopIsBare

LEMMA HighShows ==
  ASSUME NEW s, Linked(s), Booked(s), High(s)
  PROVE  SetTicks(s.bits) = {t \in Ticks : s.ticks[t].raw_debt > 0 /\ ~s.ticks[t].is_liquidated}
<1>1. SetTicks(s.bits) \subseteq Ticks
  BY DEF Linked, Shape, IndexOK
<1> QED BY <1>1 DEF High, Shows, Whole

\* The top tick and the branch that stands there, in a store.
Left(br) == {br[b].minima_tick : b \in {x \in BranchIds : br[x].status = "liquidated"}}
TopIs(v, br, b) ==
  /\ v.top = Max({COLD_TICK} \union SetTicks(b) \union Left(br))
  /\ IF v.liquidated
     THEN br[v.current].status = "liquidated" /\ br[v.current].minima_tick = v.top
     ELSE /\ br[v.current].status = "not_liquidated" /\ v.current = v.total
          /\ br[v.current].connected_minima_tick <= v.top

LEMMA HighTop ==
  ASSUME NEW s, Linked(s), High(s)
  PROVE  TopIs(s.vault, s.branches, s.bits)
<1> DEFINE v  == s.vault
           br == s.branches
           b  == s.bits
           c  == v.current
           S  == {COLD_TICK} \union SetTicks(b) \union Left(br)
<1>1. /\ SetTicks(b) \subseteq Ticks /\ Forest(br, v.total, c) /\ TopLinked(v, br)
      /\ Heights(br) /\ TopPlaced(v, br, b)
  BY DEF Linked, Shape, IndexOK, High
<1>2. /\ c \in BranchIds /\ Chained(br, c) /\ v.total \in BranchIds /\ c <= v.total
      /\ \A d \in BranchIds : br[d].status = "liquidated" =>
           Chained(br, d) /\ br[d].minima_tick \in MIN_TICK .. MAX_TICK + 2
      /\ \A d \in BranchIds : d > c => br[d].status # "liquidated"
  BY <1>1 DEF Forest, Woods
<1>3. /\ COLD_TICK \in Int /\ MAX_TICK + 2 \in Int /\ COLD_TICK <= MAX_TICK + 2
      /\ \A t \in Ticks : t \in Int /\ COLD_TICK <= t /\ t <= MAX_TICK + 2
      /\ \A t \in MIN_TICK .. MAX_TICK + 2 : t \in Int /\ COLD_TICK <= t /\ t <= MAX_TICK + 2
  BY TickRange, TickWindow
<1>4. v.top \in Int /\ COLD_TICK <= v.top
  BY <1>1, TickWindow DEF TopLinked
<1> HIDE DEF v, br, b
<1>5. \A x \in Left(br) : \E d \in BranchIds : br[d].status = "liquidated" /\ x = br[d].minima_tick
  BY DEF Left
<1>6. \A x \in S : x \in Int /\ x <= MAX_TICK + 2
  BY <1>1, <1>2, <1>3, <1>5
<1>7. /\ S \in SUBSET Int /\ S # {} /\ COLD_TICK \in S
  BY <1>6
<1>8. \A d \in BranchIds : br[d].status = "liquidated" => br[d].minima_tick <= v.top
  <2>1. CASE v.liquidated
    <3>1. br[c].status = "liquidated" /\ br[c].minima_tick = v.top
      BY <1>1, <2>1 DEF TopLinked, TopPlaced
    <3>2. \A d \in BranchIds : br[d].status = "liquidated" => d <= c /\ d \in Int /\ c \in Int
      BY <1>2 DEF BranchIds
    <3>3. \A d \in BranchIds : br[d].status = "liquidated" => d = c \/ d < c
      BY <3>2
    <3>4. v.top <= v.top
      BY <1>4
    <3> QED BY <1>1, <1>2, <3>1, <3>3, <3>4 DEF Heights
  <2>2. CASE ~v.liquidated
    <3> DEFINE k == br[c].connected
    <3>1. /\ br[c].status = "not_liquidated" /\ Hung(br, c)
          /\ br[c].connected_minima_tick <= v.top
      BY <1>1, <2>2 DEF TopLinked, TopPlaced
    <3>2. /\ k \in 0 .. c - 1
          /\ \A d \in BranchIds : k < d /\ d < c => br[d].status # "liquidated"
          /\ k # 0 => k \in BranchIds /\ br[k].status = "liquidated"
      <4>1. /\ k \in 0 .. c - 1 /\ (k # 0 => br[k].status = "liquidated")
            /\ \A d \in BranchIds : k < d /\ d < c => br[d].status # "liquidated"
        BY <1>2 DEF Chained
      <4>2. \A e \in BranchIds : \A d \in 0 .. e - 1 : d # 0 => d \in BranchIds
        BY StoreAssumption DEF BranchIds
      <4>3. k # 0 => k \in BranchIds
        <5> HIDE DEF k, c
        <5> QED BY <4>1, <4>2, <1>2 DEF c
      <4> QED BY <4>1, <4>3
    <3>3. ASSUME NEW d \in BranchIds, br[d].status = "liquidated"
          PROVE  br[d].minima_tick <= v.top
      <4> HIDE DEF k, c
      <4>1. d \in Nat /\ d # 0 /\ c \in Nat /\ k \in Nat
        BY <1>2, <3>2 DEF BranchIds
      <4>2. d <= c /\ d # c
        BY <1>2, <3>1, <3>3, <4>1 DEF c
      <4>3. d <= k
        BY <3>2, <3>3, <4>1, <4>2
      <4>4. k # 0 /\ (d = k \/ d < k)
        BY <4>1, <4>3
      <4>5. br[c].connected_minima_tick = br[k].minima_tick
        BY <3>1, <4>4 DEF Hung, MinimaOf, k
      <4>6. /\ br[d].minima_tick \in Int /\ br[k].minima_tick \in Int
        BY <1>2, <1>3, <3>2, <3>3, <4>4
      <4>7. br[d].minima_tick <= br[k].minima_tick
        <5>1. CASE d = k
          BY <5>1, <4>6
        <5>2. CASE d < k
          BY <5>2, <1>1, <3>2, <3>3, <4>4 DEF Heights
        <5> QED BY <4>4, <5>1, <5>2
      <4>8. br[k].minima_tick <= v.top
        BY <3>1, <4>5
      <4> QED BY <1>4, <4>6, <4>7, <4>8
    <3> QED BY <3>3
  <2> QED BY <2>1, <2>2
<1>9. \A u \in SetTicks(b) : u <= v.top
  BY <1>1, <1>3, <1>4 DEF TopPlaced, Under, Beneath
<1>10. \A x \in S : x <= v.top
  BY <1>4, <1>5, <1>8, <1>9
<1>11. v.top \in S
  <2>1. CASE v.liquidated
    BY <1>1, <1>2, <2>1 DEF TopLinked, TopPlaced, Left
  <2>2. CASE ~v.liquidated
    BY <1>1, <2>2 DEF TopPlaced
  <2> QED BY <2>1, <2>2
<1>12. Max(S) \in S /\ \A x \in S : x <= Max(S)
  <2> HIDE DEF S
  <2> QED BY <1>3, <1>6, <1>7, MaxIsGreatest
<1>13. v.top = Max(S)
  <2> HIDE DEF S
  <2>1. Max(S) \in Int /\ Max(S) <= v.top /\ v.top <= Max(S)
    BY <1>6, <1>10, <1>11, <1>12
  <2> QED BY <2>1, <1>4
<1>14. IF v.liquidated
       THEN br[c].status = "liquidated" /\ br[c].minima_tick = v.top
       ELSE /\ br[c].status = "not_liquidated" /\ c = v.total
            /\ br[c].connected_minima_tick <= v.top
  <2>1. CASE v.liquidated
    BY <1>1, <2>1 DEF TopLinked, TopPlaced
  <2>2. CASE ~v.liquidated
    <3>1. br[c].status = "not_liquidated" /\ br[c].connected_minima_tick <= v.top
      BY <1>1, <2>2 DEF TopLinked, TopPlaced
    <3>2. c = v.total
      BY <1>1, <1>2, <3>1 DEF Forest
    <3> QED BY <2>2, <3>1, <3>2
  <2> QED BY <2>1, <2>2
<1> QED BY <1>13, <1>14 DEF TopIs, v, br, b, S

LEMMA VaultHighTop == VaultHigh => TopIsHighest
<1> SUFFICES ASSUME VaultHigh PROVE TopIsHighest
  OBVIOUS
<1>1. TopIs(vault, branches, bits)
  BY HighTop, StoreFieldsOfStore DEF VaultHigh, VaultLinked
<1>2. TopIsBare
  BY HighIsBare
<1> QED BY <1>1, <1>2 DEF TopIsHighest, TopIs, Left

LEMMA NextVaultHigh == VaultHigh /\ EndsBeside /\ [Next]_vars => VaultHigh'
<1> SUFFICES ASSUME VaultHigh, EndsBeside, [Next]_vars PROVE VaultHigh'
  OBVIOUS
<1>1. VaultLinked /\ VaultBooks /\ High(Store) /\ TopIsBare
  BY HighIsBare DEF VaultHigh
<1>2. VaultLinked'
  BY <1>1, NextLinked
<1>3. VaultBooks'
  BY <1>1, NextBooks
<1>4. High(Store')
  BY <1>1, NextHigh
<1> QED BY <1>2, <1>3, <1>4 DEF VaultHigh

(* As long as rounding takes no end of a liquidation more than one tick      *)
(* below what it did not reach, which is what end_liquidate makes up for     *)
(* (utils/liquidate.rs:45-51), the ids stay linked, the debts stay numbers   *)
(* the program can store, the index shows every whole tick, every liquidated *)
(* branch is at or above those below it, and nothing stands above the top    *)
(* (user.rs, operate, liquidate and absorb; vault_state.rs, set_top_tick).   *)
THEOREM TopKept == Spec /\ []EndsBeside => []VaultHigh
<1>1. Init => VaultHigh
  BY InitLinked, InitBooks, InitHigh DEF VaultHigh
<1>2. VaultHigh /\ EndsBeside /\ [Next]_vars => VaultHigh'
  BY NextVaultHigh
<1> QED BY <1>1, <1>2, PTL DEF Spec

(* The index has a bit for exactly the ticks whose debt is whole, whatever   *)
(* operations, absorptions and liquidations take from a tick or put there    *)
(* (tick_has_debt.rs, update_tick_has_debt, fetch_next_top_tick, clear_bits).*)
THEOREM IndexKept == Spec /\ []EndsBeside => []IndexShowsDebt
<1>1. VaultHigh => IndexShowsDebt
  BY HighShows, StoreFieldsOfStore DEF VaultHigh, VaultLinked, VaultBooks, IndexShowsDebt
<1>2. Spec /\ []EndsBeside => []VaultHigh
  BY TopKept
<1> QED BY <1>1, <1>2, PTL

(* The vault's top tick is the highest debt there is, whole in a tick or     *)
(* left in a branch, and the current branch is the one that ends there: no   *)
(* debt is ever above the place where the next liquidation starts (user.rs,  *)
(* operate and liquidate; vault_state.rs, set_top_tick; branch.rs).          *)
THEOREM TopStaysHighest == Spec /\ []EndsBeside => []TopIsHighest
<1>1. VaultHigh => TopIsHighest
  BY VaultHighTop
<1>2. Spec /\ []EndsBeside => []VaultHigh
  BY TopKept
<1> QED BY <1>1, <1>2, PTL

(* No whole tick ever stands where a liquidation ended on top, which is what *)
(* the proofs about positions, branches and debts start from.                *)
THEOREM TopStaysBare == Spec /\ []EndsBeside => []TopIsBare
<1>1. VaultHigh => TopIsBare
  BY HighIsBare
<1>2. Spec /\ []EndsBeside => []VaultHigh
  BY TopKept
<1> QED BY <1>1, <1>2, PTL

(* What the proofs about positions, branches and debts assume of the top      *)
(* follows from EndsBeside: no operation changes what another position is worth, *)
(* every liquidated position leads to the branch it ended in, and all the debt *)
(* that was lent stands in ticks and branches or was absorbed (user.rs).       *)
THEOREM VaultSound ==
  Spec /\ []EndsBeside => [](PositionsLead /\ LentIsHeld) /\ OthersKeepTheirs
<1>1. Spec /\ []EndsBeside => []TopIsBare
  BY TopStaysBare
<1>2. Spec /\ []TopIsBare => []PositionsLead
  BY LiquidationsLead
<1>3. Spec /\ []TopIsBare => []LentIsHeld
  BY LentHeld
<1>4. Spec /\ []TopIsBare => OthersKeepTheirs
  BY OthersKept
<1> QED BY <1>1, <1>2, <1>3, <1>4, PTL

-----------------------------------------------------------------------------
(* The other numbers a vault stores: its collateral, and the branch each     *)
(* branch is connected to.                                                  *)

Stored(s) ==
  /\ s.vault.supply \in Nat /\ s.vault.absorbed_col \in Nat
  /\ \A b \in BranchIds : s.branches[b].connected \in 0 .. b - 1

\* The collateral stays, and of the branches only the current one is connected anew.
SameColl(s, r) ==
  r.vault.supply = s.vault.supply /\ r.vault.absorbed_col = s.vault.absorbed_col
LinkOf(br, b) == br[b].connected
OnlyOpens(s, r) ==
  /\ SameColl(s, r)
  /\ \A b \in BranchIds : \/ LinkOf(r.branches, b) = LinkOf(s.branches, b)
                          \/ LinkOf(r.branches, b) = 0 \/ b = r.vault.current

LEMMA OpensStored ==
  ASSUME NEW s, Stored(s), NEW r, Linked(r), OnlyOpens(s, r)
  PROVE  Stored(r)
<1>1. Chained(r.branches, r.vault.current)
  BY DEF Linked, Forest
<1>2. ASSUME NEW b \in BranchIds PROVE r.branches[b].connected \in 0 .. b - 1
  <2>1. 0 \in 0 .. b - 1
    BY StoreAssumption DEF BranchIds
  <2>2. s.branches[b].connected \in 0 .. b - 1
    BY DEF Stored
  <2> QED BY <1>1, <2>1, <2>2 DEF OnlyOpens, LinkOf, Chained
<1> QED BY <1>2 DEF Stored, OnlyOpens, SameColl

LEMMA SetTopTickOpens ==
  ASSUME NEW s, Linked(s)
  PROVE  OnlyOpens(s, SetTopTick(s)) /\ HasFields(SetTopTick(s), StoreFields)
<1> DEFINE r    == SetTopTick(s)
           id   == s.vault.current
           cur  == s.branches[id]
           cut  == ClearBits(s.bits, s.vault.top)
           next == NextTickFrom(cut, PlaceOf(s.vault.top))
<1>1. /\ HasFields(s, StoreFields) /\ HasFields(s.vault, VaultFields)
      /\ BranchesShaped(s.branches)
  BY DEF Linked, Shape
<1>2. CASE cur.connected_minima_tick <= next
  <2>1. r = [s EXCEPT !.bits = cut, !.vault.top = next, !.vault.liquidated = FALSE]
    BY <1>2 DEF SetTopTick
  <2> HIDE DEF r, cut, next
  <2>2. /\ r.branches = s.branches /\ HasFields(r, StoreFields)
        /\ r.vault = [s.vault EXCEPT !.top = next, !.liquidated = FALSE]
    BY <1>1, <2>1 DEF HasFields, StoreFields
  <2>3. SameColl(s, r)
    BY <1>1, <2>2 DEF HasFields, VaultFields, SameColl
  <2> QED BY <2>2, <2>3 DEF OnlyOpens, r
<1>3. CASE ~(cur.connected_minima_tick <= next)
  <2> DEFINE m == cur.connected_minima_tick
             k == cur.connected
  <2>1. r = [s EXCEPT !.bits = cut, !.branches[id] = EmptyBranch,
                      !.vault.liquidated = TRUE, !.vault.top = m,
                      !.vault.current = k, !.vault.total = id - 1]
    BY <1>3 DEF SetTopTick
  <2> HIDE DEF r, cut, next, m, k
  <2>2. /\ r.branches = [s.branches EXCEPT ![id] = EmptyBranch] /\ HasFields(r, StoreFields)
        /\ r.vault = [s.vault EXCEPT !.liquidated = TRUE, !.top = m,
                                     !.current = k, !.total = id - 1]
    BY <1>1, <2>1 DEF HasFields, StoreFields
  <2>3. SameColl(s, r)
    BY <1>1, <2>2 DEF HasFields, VaultFields, SameColl
  <2>4. \A b \in BranchIds : r.branches[b] = IF b = id THEN EmptyBranch ELSE s.branches[b]
    BY <1>1, <2>2 DEF BranchesShaped
  <2>5. EmptyBranch.connected = 0
    BY DEF EmptyBranch
  <2> QED BY <2>2, <2>3, <2>4, <2>5 DEF OnlyOpens, LinkOf, r
<1> QED BY <1>2, <1>3

LEMMA LeaveTickOpens ==
  ASSUME NEW s, Linked(s), NEW m
  PROVE  OnlyOpens(s, LeaveTick(s, m))
<1> DEFINE t    == m.tick
           rest == SaturatingSub(s.ticks[t].raw_debt, m.debt)
           top  == IF t = s.vault.top THEN SetTopTick(s) ELSE s
           r    == LeaveTick(s, m)
<1>1. HasFields(s, StoreFields) /\ OnlyOpens(s, s)
  BY DEF Linked, Shape, OnlyOpens, SameColl
<1>2. HasFields(top, StoreFields) /\ OnlyOpens(s, top)
  BY <1>1, SetTopTickOpens
<1>3. \/ r = [s EXCEPT !.ticks[t].raw_debt = rest]
      \/ r = [top EXCEPT !.ticks[t].raw_debt = 0, !.bits = ClearBit(@, t)]
  BY DEF LeaveTick
<1> HIDE DEF r, top, rest, t
<1>4. \/ r.vault = s.vault /\ r.branches = s.branches
      \/ r.vault = top.vault /\ r.branches = top.branches
  BY <1>1, <1>2, <1>3 DEF HasFields, StoreFields
<1> QED BY <1>1, <1>2, <1>4 DEF OnlyOpens, SameColl, r

LEMMA DetachOpens ==
  ASSUME NEW s, Linked(s), NEW m
  PROVE  OnlyOpens(s, Detach(s, m).store)
<1> DEFINE r      == Detach(s, m).store
           latest == LatestPosition(s, m)
           now    == latest.memory
<1>1. HasFields(s, StoreFields) /\ HasFields(s.vault, VaultFields) /\ BranchesShaped(s.branches)
  BY DEF Linked, Shape
<1>2. \/ r = s \/ r = LeaveTick(s, m)
      \/ r = LeaveBranch(s, latest.branch, now.debt)
      \/ r = [s EXCEPT !.vault.absorbed_dust = @ + m.dust - now.debt]
  BY DEF Detach
<1> HIDE DEF r, latest, now
<1>3. CASE r = s
  BY <1>3 DEF OnlyOpens, SameColl, r
<1>4. CASE r = LeaveTick(s, m)
  BY <1>4, LeaveTickOpens DEF r
<1>5. CASE r = LeaveBranch(s, latest.branch, now.debt)
  <2> DEFINE k == latest.branch
  <2>1. PICK left : r = [s EXCEPT !.branches[k].debt = left]
    BY <1>5 DEF LeaveBranch
  <2> HIDE DEF k
  <2>2. r.branches = [s.branches EXCEPT ![k].debt = left] /\ r.vault = s.vault
    BY <1>1, <2>1 DEF HasFields, StoreFields
  <2>3. ASSUME NEW b \in BranchIds PROVE LinkOf(r.branches, b) = LinkOf(s.branches, b)
    <3>1. HasFields(s.branches[b], BranchFields)
      BY <1>1 DEF BranchesShaped
    <3>2. \/ r.branches[b] = s.branches[b]
          \/ r.branches[b] = [s.branches[b] EXCEPT !.debt = left]
      BY <1>1, <2>2 DEF BranchesShaped
    <3> QED BY <3>1, <3>2 DEF HasFields, BranchFields, LinkOf
  <2> QED BY <2>2, <2>3 DEF OnlyOpens, SameColl, r
<1>6. CASE r = [s EXCEPT !.vault.absorbed_dust = @ + m.dust - now.debt]
  <2>1. PICK x : r = [s EXCEPT !.vault.absorbed_dust = x]
    BY <1>6
  <2>2. r.branches = s.branches /\ r.vault = [s.vault EXCEPT !.absorbed_dust = x]
    BY <1>1, <2>1 DEF HasFields, StoreFields
  <2>3. SameColl(s, r)
    BY <1>1, <2>2 DEF HasFields, VaultFields, SameColl
  <2> QED BY <2>2, <2>3 DEF OnlyOpens, r
<1> QED BY <1>2, <1>3, <1>4, <1>5, <1>6

LEMMA AttachOpens ==
  ASSUME NEW s, Linked(s), NEW col, NEW net
  PROVE  LET r == Attach(s, col, net).store IN r.vault = s.vault /\ r.branches = s.branches
<1> DEFINE r == Attach(s, col, net).store
<1>1. HasFields(s, StoreFields)
  BY DEF Linked, Shape
<1>2. PICK x, y, z : r = [s EXCEPT !.ticks[TargetTick(col, net)] = x, !.tick_ids = y, !.bits = z]
  BY <1>1 DEF Attach, HasFields, StoreFields
<1> HIDE DEF r
<1>3. r.vault = s.vault /\ r.branches = s.branches
  BY <1>1, <1>2 DEF HasFields, StoreFields
<1> QED BY <1>3 DEF r

LEMMA RaiseTopOpens ==
  ASSUME NEW s, Linked(s), NEW tick
  PROVE  OnlyOpens(s, RaiseTop(s, tick))
<1> DEFINE r   == RaiseTop(s, tick)
           id  == s.vault.total + 1
           e   == Opened(s.vault.current, s.vault.top)
<1>1. /\ HasFields(s, StoreFields) /\ HasFields(s.vault, VaultFields)
      /\ BranchesShaped(s.branches)
  BY DEF Linked, Shape
<1>2. CASE tick < s.vault.top
  BY <1>2 DEF RaiseTop, OnlyOpens, SameColl
<1>3. CASE ~(tick < s.vault.top) /\ ~s.vault.liquidated
  <2>1. r = [s EXCEPT !.vault.top = tick]
    BY <1>3 DEF RaiseTop
  <2> HIDE DEF r
  <2>2. r.branches = s.branches /\ r.vault = [s.vault EXCEPT !.top = tick]
    BY <1>1, <2>1 DEF HasFields, StoreFields
  <2>3. SameColl(s, r)
    BY <1>1, <2>2 DEF HasFields, VaultFields, SameColl
  <2> QED BY <2>2, <2>3 DEF OnlyOpens, r
<1>4. CASE ~(tick < s.vault.top) /\ s.vault.liquidated
  <2>1. r = [s EXCEPT !.branches[id] = e, !.vault.top = tick, !.vault.liquidated = FALSE,
                      !.vault.current = id, !.vault.total = id]
    BY <1>4 DEF RaiseTop, Opened
  <2> HIDE DEF r, e
  <2>2. /\ r.branches = [s.branches EXCEPT ![id] = e]
        /\ r.vault = [s.vault EXCEPT !.top = tick, !.liquidated = FALSE, !.current = id,
                                     !.total = id]
    BY <1>1, <2>1 DEF HasFields, StoreFields
  <2>3. SameColl(s, r) /\ r.vault.current = id
    BY <1>1, <2>2 DEF HasFields, VaultFields, SameColl
  <2>4. \A b \in BranchIds : b # id => r.branches[b] = s.branches[b]
    BY <1>1, <2>2 DEF BranchesShaped
  <2> QED BY <2>3, <2>4 DEF OnlyOpens, LinkOf, r
<1> QED BY <1>2, <1>3, <1>4

LEMMA OutcomeOpens ==
  ASSUME NEW s, Linked(s), NEW old, NEW col, NEW debt,
         debt # 0 => CanAttach(s, col, ScaledDebt(debt))
  PROVE  OnlyOpens(s, Outcome(s, old, col, debt).store)
<1> DEFINE out == Outcome(s, old, col, debt)
<1>1. CASE debt = 0
  BY <1>1 DEF Outcome, OnlyOpens, SameColl
<1>2. CASE debt # 0
  <2> DEFINE a == Attach(s, col, ScaledDebt(debt))
  <2>1. out.store = RaiseTop(a.store, a.memory.tick)
    BY <1>2 DEF Outcome
  <2>2. Linked(a.store) /\ a.store.vault = s.vault /\ a.store.branches = s.branches
    BY <1>2, AttachLinked, AttachOpens
  <2> HIDE DEF a, out
  <2>3. OnlyOpens(a.store, out.store)
    BY <2>1, <2>2, RaiseTopOpens
  <2> QED BY <2>2, <2>3 DEF OnlyOpens, SameColl, out
<1> QED BY <1>1, <1>2

LEMMA TotalsStored ==
  ASSUME NEW s, Shape(s), Stored(s), NEW x \in Nat, NEW y, NEW r, r = WithTotals(s, x, y)
  PROVE  Stored(r)
<1>1. HasFields(s, StoreFields) /\ HasFields(s.vault, VaultFields)
  BY DEF Shape
<1>2. r.branches = s.branches /\ r.vault = [s.vault EXCEPT !.supply = x, !.borrow = y]
  BY <1>1 DEF HasFields, StoreFields, WithTotals
<1>3. r.vault.supply = x /\ r.vault.absorbed_col = s.vault.absorbed_col
  BY <1>1, <1>2 DEF HasFields, VaultFields
<1> QED BY <1>2, <1>3 DEF Stored

LEMMA OperateStored ==
  ASSUME VaultLinked, Bare(Store), VaultBooks, Stored(Store), NEW p \in PositionIds,
         NEW new_col \in Int, NEW new_debt \in Int, Operate(p, new_col, new_debt)
  PROVE  Stored(Store')
<1> DEFINE m   == Memory(positions[p])
           d   == Detach(Store, m)
           s   == d.store
           old == d.memory
           col  == NewCollateral(old.col, new_col)
           debt == NewDebt(old.debt, new_debt)
           out  == Outcome(s, old, col, debt)
<1>1. CanDetach(Store, m) /\ Change(p, s, old, new_col, new_debt)
  BY DEF Operate
<1>2. Linked(Store) /\ PositionsLinked(ticks, positions)
  BY DEF VaultLinked
<1>3. Booked(Store) /\ PositionsBooked(positions)
  BY DEF VaultBooks
<1>4. /\ HasFields(m, MemoryFields) /\ m.tick = positions[p].tick
      /\ m.tick_id = positions[p].tick_id
  BY MemoryShaped DEF Memory
<1>5. m.tick = COLD_TICK \/ (m.tick \in Ticks /\ m.tick_id \in 1 .. Store.ticks[m.tick].total_ids)
  BY <1>2, <1>4, StoreFieldsOfStore DEF PositionsLinked
<1>6. MemoryBooked(m)
  BY <1>3, <1>4, <1>5, MemoryBookedOf DEF PositionsBooked
<1> HIDE DEF m
<1>7. Linked(s) /\ HasFields(old, MemoryFields)
  BY <1>1, <1>2, <1>4, <1>5, DetachLinked, DetachedShaped
<1>8. Booked(s) /\ old.col \in Nat /\ old.debt \in Int
  BY <1>1, <1>2, <1>3, <1>4, <1>5, <1>6, DetachBooks
<1>9. Stored(s)
  <2>1. OnlyOpens(Store, s)
    BY <1>2, DetachOpens
  <2> HIDE DEF s
  <2> QED BY <2>1, <1>7, OpensStored
<1> HIDE DEF d, s, old
<1>10. /\ col >= 0 /\ debt >= 0
       /\ (debt # 0 => DebtAllowed(s, old, col, debt, out.memory, CollateralMoved(old.col, new_col),
                                   DebtMoved(old.debt, new_debt)))
       /\ WriteBack(p, old, out.store, out.memory)
  BY <1>1 DEF Change
<1>11. col \in Nat /\ debt \in Nat
  <2>1. col \in Int /\ debt \in Int
    BY <1>8, NewCollateralTyped, NewDebtTyped
  <2> QED BY <1>10, <2>1
<1>12. debt # 0 => CanAttach(s, col, ScaledDebt(debt)) /\ CanRaiseTop(s, out.memory.tick)
  BY <1>10 DEF DebtAllowed
<1> HIDE DEF col, debt
<1>13. Linked(out.store) /\ out.memory.col \in Nat
  BY <1>7, <1>8, <1>11, <1>12, OutcomeBooks DEF MemoryBooked
<1>14. Stored(out.store)
  <2>1. OnlyOpens(s, out.store)
    BY <1>7, <1>12, OutcomeOpens
  <2> HIDE DEF out
  <2> QED BY <2>1, <1>9, <1>13, OpensStored
<1> DEFINE w == out.store
           k == out.memory
           x == w.vault.supply + k.col - old.col
           y == w.vault.borrow + (k.debt - k.dust) - old.debt
           after == UpdateTotals(w, k, old)
<1>15. Linked(w) /\ Stored(w) /\ WriteBack(p, old, w, k) /\ k.col \in Nat
  BY <1>10, <1>13, <1>14
<1> HIDE DEF out, w, k
<1>16. Shape(w) /\ HasFields(w, StoreFields) /\ HasFields(w.vault, VaultFields)
  BY <1>15 DEF Linked, Shape
<1>17. after = WithTotals(w, x, y)
  BY <1>16 DEF UpdateTotals, HasFields, StoreFields, VaultFields, WithTotals
<1>18. Save(after) /\ after.vault.supply >= 0
  BY <1>15 DEF WriteBack
<1>19. x \in Nat
  <2>1. x \in Int
    BY <1>8, <1>15 DEF Stored
  <2>2. after.vault.supply = x
    <3> HIDE DEF x, y, after
    <3>1. after.vault = [w.vault EXCEPT !.supply = x, !.borrow = y]
      BY <1>16, <1>17 DEF HasFields, StoreFields, WithTotals
    <3> QED BY <3>1, <1>16 DEF HasFields, VaultFields
  <2> HIDE DEF x, after
  <2> QED BY <2>1, <2>2, <1>18
<1> HIDE DEF x, y, after
<1>20. Linked(after) /\ Stored(after)
  BY <1>15, <1>16, <1>17, <1>19, TotalsLinked, TotalsStored DEF WithTotals
<1>21. Store' = after
  BY <1>18, <1>20, SavedStore DEF Linked, Shape
<1> QED BY <1>20, <1>21

\* The collateral that an absorption takes over, from ticks and from branches.
LEMMA AbsorbTicksColl ==
  ASSUME NEW s, Linked(s), Booked(s), s.vault.top \in Ticks, NEW max \in Ticks
  PROVE  AbsorbTicks(s, max).col \in Nat
<1> DEFINE above == {t \in TicksFrom(s.bits, PlaceOf(s.vault.top + 1)) : t > max}
           debts == RawDebts(s)
           cols  == [t \in Ticks |-> (debts[t] * ZERO_TICK_SCALED_RATIO) \div RatioAtTick[t]]
<1>1. Within(above, Ticks)
  <2>1. s.vault.top + 1 \in Int /\ MIN_TICK <= s.vault.top + 1 /\ s.vault.top + 1 <= MAX_TICK + 1
    BY TickRange DEF Ticks
  <2>2. PlaceOf(s.vault.top + 1) \in Places
    BY <2>1, PlaceLeadsBack
  <2>3. 0 \in 0 .. ARRAYS - 1 /\ 0 \in 0 .. MAPS - 1
    BY MapConstants
  <2>4. TicksFrom(s.bits, PlaceOf(s.vault.top + 1)) \subseteq SetTicks(s.bits)
    BY <2>2, <2>3, SearchesMeetSetTicks
  <2> QED BY <2>4 DEF IndexOK, Within, Linked, Shape
<1>2. AbsorbTicks(s, max).col = SumFunctionOnSet(cols, above)
  BY DEF AbsorbTicks
<1> HIDE DEF above
<1>3. ASSUME NEW t \in Ticks PROVE cols[t] \in Nat
  <2> DEFINE x == debts[t] * ZERO_TICK_SCALED_RATIO
  <2>1. debts[t] \in Nat /\ RatioAtTick[t] \in Nat \ {0}
    BY BookedCounts, RatioPositive DEF Counted
  <2>2. cols[t] = x \div RatioAtTick[t]
    OBVIOUS
  <2> HIDE DEF debts, cols
  <2>3. x \in Nat
    BY <2>1, TickConstants
  <2> HIDE DEF x
  <2> QED BY <2>1, <2>2, <2>3, QuotientNatural
<1> HIDE DEF cols
<1>4. Counted(cols, Ticks) /\ IsFiniteSet(Ticks)
  BY <1>3, FiniteDomains DEF Counted
<1>5. SumFunctionOnSet(cols, above) \in Nat
  BY <1>1, <1>4, SumJoined
<1> QED BY <1>2, <1>5

ClosingStored(a, s) ==
  /\ a.col \in Nat /\ a.minima \in Ticks \union {COLD_TICK}
  /\ \A b \in BranchIds : LinkOf(a.store.branches, b) = LinkOf(s.branches, b)

LEMMA CloseBranchStored ==
  ASSUME NEW s, NEW a, Closing(a, s), ClosingStored(a, s), NEW total, ClosingBooks(a, total),
         NEW max \in Ticks
  PROVE  ClosingStored(CloseBranch(a, max), s)
<1> DEFINE br == a.store.branches
           id == a.id
           b  == br[id]
           br2 == [br EXCEPT ![id].status = "closed"]
           r  == CloseBranch(a, max)
           col == a.col + (b.debt * ZERO_TICK_SCALED_RATIO) \div PartialsRatio(a.minima, b.partials)
<1>1. CASE a.minima <= max
  BY <1>1 DEF CloseBranch
<1>2. CASE ~(a.minima <= max)
  <2>1. a.minima # COLD_TICK
    <3>1. COLD_TICK <= max
      BY TickRange
    <3> QED BY <3>1, <1>2
  <2>2. /\ id \in BranchIds /\ BranchesShaped(br)
        /\ HasFields(a, ClosingFields) /\ HasFields(a.store, StoreFields)
    BY <2>1 DEF Closing, Tip
  <2>3. a.minima \in Ticks /\ b.debt \in Nat /\ b.partials \in Nat /\ a.col \in Nat
    <3>1. BranchBooked(b)
      BY <2>2 DEF ClosingBooks, Booked
    <3> QED BY <2>1, <3>1, TickConstants DEF ClosingStored, BranchBooked
  <2>4. PICK k :
          r = [a EXCEPT !.store.branches[a.id].status = "closed", !.debt = @ + b.debt, !.col = col,
                        !.id = k, !.minima = b.connected_minima_tick]
    BY <1>2 DEF CloseBranch, Closing, HasFields, ClosingFields
  <2>5. CloseBranch(a, max).minima \in Ticks \union {COLD_TICK}
    BY ClosedInTable
  <2>6. col \in Nat
    <3> DEFINE x == b.debt * ZERO_TICK_SCALED_RATIO
               y == PartialsRatio(a.minima, b.partials)
    <3> HIDE DEF b
    <3>1. x \in Nat /\ y \in Nat \ {0}
      BY <2>3, TickConstants, PartialsRatioPositive
    <3> HIDE DEF x, y
    <3>2. x \div y \in Nat
      BY <3>1, QuotientNatural
    <3> QED BY <2>3, <3>2 DEF x, y
  <2> HIDE DEF r, b, col
  <2>7. r.col = col /\ r.store = [a.store EXCEPT !.branches[a.id].status = "closed"]
    BY <2>2, <2>4 DEF HasFields, ClosingFields
  <2>8. r.store.branches = br2
    BY <2>2, <2>7 DEF HasFields, StoreFields
  <2>9. ASSUME NEW d \in BranchIds PROVE LinkOf(br2, d) = LinkOf(br, d)
    <3>1. HasFields(br[d], BranchFields)
      BY <2>2 DEF BranchesShaped
    <3>2. br2[d] = br[d] \/ br2[d] = [br[d] EXCEPT !.status = "closed"]
      BY <2>2 DEF BranchesShaped
    <3> HIDE DEF br2, br
    <3> QED BY <3>1, <3>2 DEF HasFields, BranchFields, LinkOf
  <2> QED BY <2>5, <2>6, <2>7, <2>8, <2>9 DEF ClosingStored, r
<1> QED BY <1>1, <1>2

LEMMA CloseBranchesStored ==
  ASSUME NEW s, NEW a, Closing(a, s), ClosingStored(a, s), NEW total, ClosingBooks(a, total),
         NEW max \in Ticks
  PROVE  ClosingStored(CloseBranches(a, max), s)
<1>1. PICK A : ClosingWalk(A, a, max)
  BY CloseBranchesWalks
<1>2. /\ A[0] = a
      /\ \A n \in 1 .. MaxBranches : A[n] = CloseBranch(A[n - 1], max)
      /\ CloseBranches(a, max) = A[MaxBranches]
  BY <1>1 DEF ClosingWalk
<1> DEFINE OK(n) == Closing(A[n], s) /\ ClosingBooks(A[n], total) /\ ClosingStored(A[n], s)
           bad == {n \in Nat : n <= MaxBranches /\ ~OK(n)}
<1>3. bad = {}
  <2>1. SUFFICES ASSUME bad # {} PROVE FALSE
    OBVIOUS
  <2>2. PICK m \in bad : \A k \in bad : m <= k
    BY <2>1, LeastNatural
  <2>3. m # 0
    BY <2>2, <1>2
  <2>4. m \in 1 .. MaxBranches /\ m - 1 \in Nat /\ m - 1 <= MaxBranches /\ m - 1 \notin bad
    BY <2>2, <2>3, StoreAssumption
  <2>5. OK(m - 1)
    BY <2>4
  <2>6. OK(m)
    BY <2>4, <2>5, <1>2, CloseBranchCloses, CloseBranchBooks, CloseBranchStored
  <2> QED BY <2>2, <2>6
<1> QED BY <1>2, <1>3, StoreAssumption

LEMMA SettleOpens ==
  ASSUME NEW s, Linked(s), NEW a, Closing(a, s), NEW next
  PROVE  OnlyOpens(a.store, Settle(a, next))
<1> DEFINE r   == Settle(a, next)
           st  == a.store
           br  == st.branches
           liq == s.vault.liquidated
           id  == IF liq THEN s.vault.total + 1 ELSE s.vault.current
<1>1. HasFields(s.vault, VaultFields)
  BY DEF Linked, Shape
<1>2. HasFields(st, StoreFields) /\ st.vault = s.vault /\ BranchesShaped(br)
  BY DEF Closing
<1>3. CASE next >= a.minima
  <2> DEFINE e == Opened(a.id, a.minima)
  <2>1. /\ r.branches = [br EXCEPT ![id] = e]
        /\ r.vault = [s.vault EXCEPT !.top = next, !.liquidated = FALSE, !.current = id,
                                     !.total = IF liq THEN @ + 1 ELSE @]
    BY <1>2, <1>3 DEF Settle, Opened, HasFields, StoreFields
  <2> HIDE DEF r, id, br, e
  <2>2. SameColl(s, r) /\ r.vault.current = id
    BY <1>1, <2>1 DEF HasFields, VaultFields, SameColl
  <2>3. \A b \in BranchIds : b # id => r.branches[b] = br[b]
    BY <1>2, <2>1 DEF BranchesShaped
  <2> QED BY <1>2, <2>2, <2>3 DEF OnlyOpens, SameColl, LinkOf, r, br
<1>4. CASE ~(next >= a.minima)
  <2>1. /\ r.branches = (IF liq THEN br ELSE [br EXCEPT ![id] = EmptyBranch])
        /\ r.vault = [s.vault EXCEPT !.liquidated = TRUE, !.top = a.minima, !.current = a.id,
                                     !.total = IF liq THEN @ ELSE id - 1]
    BY <1>2, <1>4 DEF Settle, HasFields, StoreFields
  <2> HIDE DEF r, id, br
  <2>2. SameColl(s, r)
    BY <1>1, <2>1 DEF HasFields, VaultFields, SameColl
  <2>3. \A b \in BranchIds : r.branches[b] = br[b] \/ r.branches[b] = EmptyBranch
    BY <1>2, <2>1 DEF BranchesShaped
  <2>4. EmptyBranch.connected = 0
    BY DEF EmptyBranch
  <2> QED BY <1>2, <2>2, <2>3, <2>4 DEF OnlyOpens, SameColl, LinkOf, r, br
<1> QED BY <1>3, <1>4

LEMMA AbsorbStored ==
  ASSUME NEW s, Linked(s), Booked(s), High(s), Stored(s), AbsorbFits(s), s.vault.top \in Ticks,
         NEW max \in Ticks
  PROVE  Stored(Absorb(s, max))
<1> DEFINE taken == AbsorbTicks(s, max)
           t    == taken.store
           a    == AbsorbClosed(s, max)
           next == AbsorbNext(s, max)
           st   == Settle(a, next)
           r    == Absorb(s, max)
           a0   == AbsorbStart(s, max)
           cur  == s.branches[s.vault.current]
           all  == taken.debt + LentSum(s)
<1>1. /\ Linked(t) /\ t.vault = s.vault
      /\ Closing(a0, t) /\ Closing(a, t) /\ next \in Ticks \union {COLD_TICK}
  BY AbsorbCloses
<1>2. Booked(t) /\ t.branches = s.branches /\ taken.debt \in Nat /\ taken.col \in Nat
  BY AbsorbTicksBooks, AbsorbTicksColl
<1>3. /\ a0.store = t /\ a0.debt = taken.debt /\ a0.col = taken.col /\ a = CloseBranches(a0, max)
      /\ a0.minima = (IF s.vault.liquidated THEN cur.minima_tick ELSE cur.connected_minima_tick)
  BY DEF AbsorbStart, AbsorbClosed
<1>4. r = [st EXCEPT !.vault.absorbed_debt = @ + a.debt, !.vault.absorbed_col = @ + a.col]
  BY DEF Absorb, AbsorbStart, AbsorbClosed, AbsorbNext
<1> HIDE DEF taken, t, a0, a, next
<1>5. ClosingBooks(a0, all)
  BY <1>2, <1>3, LentSame, HeldTyped DEF ClosingBooks
<1>6. ClosingStored(a0, t)
  <2>1. a0.minima \in Ticks \union {COLD_TICK}
    <3>1. s.vault.liquidated => cur.minima_tick = s.vault.top
      BY DEF High, TopPlaced
    <3>2. cur.connected_minima_tick \in Ticks \union {COLD_TICK}
      BY DEF Linked, Forest, Chained
    <3> QED BY <3>1, <3>2, <1>3
  <2> QED BY <2>1, <1>2, <1>3 DEF ClosingStored
<1> HIDE DEF all
<1>7. ClosingStored(a, t)
  BY <1>1, <1>3, <1>5, <1>6, CloseBranchesStored
<1>8. OnlyOpens(a.store, st) /\ Linked(st)
  <2>1. AbsorbFits(t)
    BY <1>1 DEF AbsorbFits
  <2> QED BY <1>1, <2>1, SettleOpens, SettleLinked
<1>9. Stored(a.store)
  BY <1>1, <1>2, <1>7 DEF Stored, Closing, ClosingStored, LinkOf
<1> HIDE DEF st, r
<1>10. Stored(st)
  BY <1>8, <1>9, OpensStored
<1>11. HasFields(st, StoreFields) /\ HasFields(st.vault, VaultFields)
  BY <1>8 DEF Linked, Shape
<1>12. /\ r.branches = st.branches /\ r.vault.supply = st.vault.supply
       /\ r.vault.absorbed_col = st.vault.absorbed_col + a.col
  <2> DEFINE v == st.vault
             x == v.absorbed_debt + a.debt
             y == v.absorbed_col + a.col
  <2>1. /\ r.branches = st.branches
        /\ r.vault = [v EXCEPT !.absorbed_debt = x, !.absorbed_col = y]
    BY <1>4, <1>11 DEF HasFields, StoreFields, VaultFields
  <2>2. HasFields(v, VaultFields)
    BY <1>11
  <2> HIDE DEF v, x, y
  <2>3. r.vault.absorbed_col = y /\ r.vault.supply = v.supply
    BY <2>1, <2>2 DEF HasFields, VaultFields
  <2> QED BY <2>1, <2>3 DEF v, y
<1> QED BY <1>7, <1>10, <1>12 DEF Stored, ClosingStored, r

LEMMA AbsorbedStored ==
  ASSUME Linked(Store), Booked(Store), High(Store), Stored(Store), NEW price, CanAbsorb(price)
  PROVE  Stored(Absorbed(price))
<1>1. /\ vault.top \in Ticks /\ Store.vault = vault
      /\ vault.top > MaxTick(price) => AbsorbFits(Store)
  BY StoreFieldsOfStore DEF CanAbsorb
<1>2. MaxTick(price) \in Ticks
  BY TickAtRatioInTable DEF CanAbsorb, PriceHasTicks, MaxTick
<1>3. CASE vault.top > MaxTick(price)
  <2>1. Absorbed(price) = Absorb(Store, MaxTick(price))
    BY <1>3 DEF Absorbed
  <2> QED BY <2>1, <1>1, <1>2, <1>3, AbsorbStored
<1>4. CASE ~(vault.top > MaxTick(price))
  BY <1>4 DEF Absorbed
<1> QED BY <1>3, <1>4

(* The turns of a liquidation: the links stay, the collateral sold adds up.   *)
KeepsRest(s, r) ==
  SameColl(s, r) /\ \A b \in BranchIds : LinkOf(r.branches, b) = LinkOf(s.branches, b)

LEMMA KeepsStored ==
  ASSUME NEW s, Stored(s), NEW r, KeepsRest(s, r)
  PROVE  Stored(r)
BY DEF KeepsRest, Stored, SameColl, LinkOf

LEMMA GatherKeeps ==
  ASSUME NEW l, HasFields(l, LoopFields), Shape(l.store), NEW lt
  PROVE  KeepsRest(l.store, Gather(l, lt).store) /\ Gather(l, lt).col_liq = l.col_liq
<1> DEFINE g  == Gather(l, lt)
           st == l.store
           T == IF l.perfect
                THEN [st.ticks EXCEPT ![l.tick].raw_debt = 0, ![l.tick].is_liquidated = TRUE,
                        ![l.tick].liquidation.branch = l.branch,
                        ![l.tick].liquidation.factor = l.factor]
                ELSE st.ticks
<1>1. HasFields(st, StoreFields)
  BY DEF Shape
<1>2. PICK debt, col, index, next :
        g = [l EXCEPT !.debt = debt, !.col = col, !.first = FALSE,
                      !.store.bits = index, !.store.ticks = T, !.next = next]
  BY DEF Gather
<1> HIDE DEF g, T, st
<1>3. g.col_liq = l.col_liq /\ g.store = [st EXCEPT !.bits = index, !.ticks = T]
  BY <1>2 DEF HasFields, LoopFields, st
<1>4. g.store.vault = st.vault /\ g.store.branches = st.branches
  BY <1>1, <1>3 DEF HasFields, StoreFields
<1> QED BY <1>3, <1>4 DEF KeepsRest, SameColl, g, st

LEMMA SellSells ==
  ASSUME NEW l, HasFields(l, LoopFields), NEW debt, NEW col
  PROVE  Sell(l, debt, col).col_liq = l.col_liq + col
<1> DEFINE sold == Sell(l, debt, col)
<1>1. PICK failed, factor : sold = [l EXCEPT !.debt = @ - debt, !.col = @ - col,
                       !.debt_liq = @ + debt, !.col_liq = @ + col, !.factor = factor, !.failed = failed]
  BY DEF Sell
<1> HIDE DEF sold
<1>2. sold.col_liq = l.col_liq + col
  BY <1>1 DEF HasFields, LoopFields
<1> QED BY <1>2 DEF sold

LEMMA BranchKeeps ==
  ASSUME NEW s, Shape(s), NEW c \in BranchIds, NEW e, e.connected = s.branches[c].connected,
         NEW r, r.branches = [s.branches EXCEPT ![c] = e], SameColl(s, r)
  PROVE  KeepsRest(s, r)
<1>1. BranchesShaped(s.branches)
  BY DEF Shape
<1>2. ASSUME NEW b \in BranchIds PROVE LinkOf(r.branches, b) = LinkOf(s.branches, b)
  <2>1. r.branches[b] = IF b = c THEN e ELSE s.branches[b]
    BY <1>1 DEF BranchesShaped
  <2> QED BY <2>1 DEF LinkOf
<1> QED BY <1>2 DEF KeepsRest

LEMMA EndKeeps ==
  ASSUME NEW l, HasFields(l, LoopFields), Shape(l.store), l.branch \in BranchIds, NEW lt,
         l.remaining \in Nat, l.col_liq \in Nat, NEW due \in Nat, NEW col_due \in Nat,
         NEW cpd \in Nat
  PROVE  LET r == EndLiquidation(l, Reference(l, lt), due, col_due, cpd)
         IN  KeepsRest(l.store, r.store) /\ r.col_liq \in Nat
<1> DEFINE ref   == Reference(l, lt)
           r     == EndLiquidation(l, ref, due, col_due, cpd)
           short == due >= l.remaining
           debt  == IF short THEN l.remaining ELSE due
           col   == IF short THEN ColLiquidated(debt, cpd) ELSE col_due
           end   == IF short THEN EndTick(l, ref, debt, col)
                    ELSE [tick |-> ref.tick + 1, partials |-> 1, fits |-> TRUE]
           sold  == Sell(l, debt, col)
           st    == l.store
           c     == l.branch
           here  == st.branches[c]
           e     == [here EXCEPT !.status = "liquidated", !.minima_tick = end.tick,
                        !.partials = end.partials, !.debt = sold.debt, !.factor = sold.factor]
           B     == [st.branches EXCEPT ![c] = e]
           V     == [st.vault EXCEPT !.liquidated = TRUE, !.top = end.tick, !.current = c]
<1>1. /\ HasFields(sold, LoopFields) /\ sold.store = st
      /\ HasFields(st, StoreFields) /\ HasFields(st.vault, VaultFields)
      /\ BranchesShaped(st.branches)
  BY SellKeeps DEF Shape
<1>2. sold.col_liq = l.col_liq + col
  BY SellSells
<1>3. col \in Nat
  <2>1. ColLiquidated(l.remaining, cpd) \in Nat
    BY ColLiquidatedTyped
  <2> QED BY <2>1
<1>4. PICK failed :
        r = [sold EXCEPT !.ended = TRUE, !.failed = failed,
             !.store.branches[c] = [@ EXCEPT !.status = "liquidated", !.minima_tick = end.tick,
                !.partials = end.partials, !.debt = sold.debt, !.factor = sold.factor],
             !.store.vault = [@ EXCEPT !.liquidated = TRUE, !.top = end.tick, !.current = c]]
  BY DEF EndLiquidation
<1> HIDE DEF sold, end, col
<1>5. r.col_liq = sold.col_liq /\ r.store = [st EXCEPT !.branches = B, !.vault = V]
  <2> HIDE DEF st, c
  <2>1. /\ r.col_liq = sold.col_liq
        /\ r.store = [st EXCEPT !.branches[c] = [@ EXCEPT !.status = "liquidated",
                          !.minima_tick = end.tick, !.partials = end.partials, !.debt = sold.debt,
                          !.factor = sold.factor],
                        !.vault = [@ EXCEPT !.liquidated = TRUE, !.top = end.tick, !.current = c]]
    BY <1>1, <1>4 DEF HasFields, LoopFields
  <2>2. r.store = [st EXCEPT !.branches = B, !.vault = V]
    BY <2>1, <1>1 DEF HasFields, StoreFields, here
  <2> HIDE DEF r, B, V
  <2> QED BY <2>1, <2>2
<1> HIDE DEF r, B, V
<1>6. e.connected = here.connected
  <2>1. HasFields(here, BranchFields)
    BY <1>1 DEF BranchesShaped
  <2> HIDE DEF here, c
  <2> QED BY <2>1 DEF HasFields, BranchFields
<1> HIDE DEF e
<1>7. r.store.branches = B /\ r.store.vault = V
  BY <1>1, <1>5 DEF HasFields, StoreFields
<1>8. V.supply = st.vault.supply /\ V.absorbed_col = st.vault.absorbed_col
  <2> HIDE DEF st, c
  <2> QED BY <1>1 DEF V, HasFields, VaultFields
<1>9. KeepsRest(st, r.store)
  <2>1. SameColl(st, r.store) /\ r.store.branches = [st.branches EXCEPT ![c] = e]
    BY <1>7, <1>8 DEF SameColl, B
  <2> HIDE DEF r
  <2> QED BY <2>1, <1>6, BranchKeeps DEF here
<1>10. r.col_liq \in Nat
  BY <1>2, <1>3, <1>5
<1> QED BY <1>9, <1>10 DEF r, ref

LEMMA MergeKeeps ==
  ASSUME NEW l, HasFields(l, LoopFields), Shape(l.store), l.branch \in BranchIds
  PROVE  /\ KeepsRest(l.store, Merge(l).store) /\ Merge(l).col_liq = l.col_liq
         /\ HasFields(Merge(l), LoopFields)
<1> DEFINE r  == Merge(l)
           st == l.store
           c  == l.branch
           b  == st.branches[c]
           k  == b.connected
           factor == st.branches[k].factor
           link   == DivBigNumber(factor, l.factor)
           e  == [b EXCEPT !.status = "merged", !.minima_tick = COLD_TICK, !.partials = 0,
                           !.debt = 0, !.factor = link]
           B  == [st.branches EXCEPT ![c] = e]
<1>1. /\ HasFields(st, StoreFields) /\ BranchesShaped(st.branches)
      /\ c \in BranchIds /\ HasFields(b, BranchFields)
  BY DEF Shape, BranchesShaped
<1>2. PICK failed :
        r = [l EXCEPT !.branch = k, !.factor = factor, !.failed = failed,
                    !.store.branches[c] = [@ EXCEPT !.status = "merged",
                       !.minima_tick = COLD_TICK, !.partials = 0, !.debt = 0, !.factor = link]]
  BY DEF Merge
<1> HIDE DEF r, factor, link
<1>3. /\ r.col_liq = l.col_liq /\ HasFields(r, LoopFields)
      /\ r.store = [st EXCEPT !.branches = B]
  <2> HIDE DEF st, c, k
  <2>1. /\ r.col_liq = l.col_liq /\ HasFields(r, LoopFields)
        /\ r.store = [st EXCEPT !.branches[c] = [@ EXCEPT !.status = "merged",
                        !.minima_tick = COLD_TICK, !.partials = 0, !.debt = 0, !.factor = link]]
    BY <1>2 DEF HasFields, LoopFields, st
  <2>2. r.store = [st EXCEPT !.branches = B]
    BY <2>1, <1>1 DEF HasFields, StoreFields
  <2> HIDE DEF B
  <2> QED BY <2>1, <2>2
<1> HIDE DEF B
<1>4. e.connected = b.connected
  <2> HIDE DEF b
  <2> QED BY <1>1 DEF HasFields, BranchFields
<1> HIDE DEF e
<1>5. r.store.branches = B /\ r.store.vault = st.vault
  BY <1>1, <1>3 DEF HasFields, StoreFields
<1>6. KeepsRest(st, r.store)
  <2>1. SameColl(st, r.store) /\ r.store.branches = [st.branches EXCEPT ![c] = e]
    BY <1>5 DEF SameColl, B
  <2> QED BY <2>1, <1>4, BranchKeeps
<1> QED BY <1>3, <1>6 DEF r

LEMMA OnwardKeeps ==
  ASSUME NEW l, HasFields(l, LoopFields), Shape(l.store), l.branch \in BranchIds,
         l.col_liq \in Nat, NEW ref, NEW debt, NEW col \in Nat
  PROVE  LET r == Onward(l, ref, debt, col)
         IN  KeepsRest(l.store, r.store) /\ r.col_liq \in Nat
<1> DEFINE r    == Onward(l, ref, debt, col)
           s1   == Sell(l, debt, col)
           sold == [s1 EXCEPT !.remaining = @ - debt]
           at   == IF ref.status = "liquidated" THEN Merge(sold) ELSE sold
<1>1. r = [at EXCEPT !.tick = ref.tick, !.ratio = ref.ratio, !.perfect = (ref.status = "perfect")]
  BY DEF Onward
<1>2. /\ HasFields(s1, LoopFields) /\ s1.store = l.store /\ s1.branch = l.branch
      /\ s1.col_liq \in Nat
  BY SellKeeps, SellSells
<1> HIDE DEF r, s1
<1>3. /\ HasFields(sold, LoopFields) /\ sold.store = l.store /\ sold.branch = l.branch
      /\ sold.col_liq = s1.col_liq
  BY <1>2 DEF HasFields, LoopFields
<1> HIDE DEF sold
<1>4. /\ KeepsRest(l.store, at.store) /\ at.col_liq \in Nat /\ HasFields(at, LoopFields)
  <2>1. CASE ref.status = "liquidated"
    BY <2>1, <1>2, <1>3, MergeKeeps
  <2>2. CASE ref.status # "liquidated"
    BY <2>2, <1>2, <1>3 DEF KeepsRest, SameColl
  <2> QED BY <2>1, <2>2
<1> HIDE DEF at
<1>5. r.store = at.store /\ r.col_liq = at.col_liq
  BY <1>1, <1>4 DEF HasFields, LoopFields
<1> QED BY <1>4, <1>5 DEF r

LoopStored(l) == ~l.failed => Stored(l.store) /\ l.col_liq \in Nat

LEMMA TurnStored ==
  ASSUME NEW l, NEW s, NEW total \in Int, Turned(l, s, total), LoopStored(l), NEW lt \in Ticks,
         NEW cpd \in Nat
  PROVE  LoopStored(Turn(l, lt, cpd))
<1> DEFINE r    == Turn(l, lt, cpd)
           g    == Gather(l, lt)
           ref  == Reference(g, lt)
           all  == DebtLiquidated(g, ref, cpd)
           col  == ColLiquidated(all, cpd)
           debt == IF all = g.debt THEN all - 1 ELSE all
<1>1. CASE l.ended \/ l.failed
  <2>1. r = l
    BY <1>1 DEF Turn
  <2> QED BY <2>1
<1>2. CASE ~(l.ended \/ l.failed)
  <2>1. /\ HasFields(l, LoopFields) /\ Shape(l.store) /\ Running(l) /\ Going(l, s, total)
        /\ Stored(l.store) /\ l.col_liq \in Nat
    BY <1>2 DEF Turned, Turning, LoopStored
  <2>2. HasFields(g, LoopFields) /\ Shape(g.store) /\ Running(g)
    BY <2>1, GatherRuns
  <2>3. /\ LoopNumbers(g) /\ Booked(g.store) /\ g.debt \in Nat /\ g.remaining \in Nat
        /\ g.branch \in BranchIds
    BY <2>1, <2>2, GatherBooks DEF Gathered, LoopBooked, LoopNumbers, Running, Forest
  <2>4. Stored(g.store) /\ g.col_liq \in Nat
    <3>1. KeepsRest(l.store, g.store) /\ g.col_liq = l.col_liq
      BY <2>1, GatherKeeps
    <3> HIDE DEF g
    <3> QED BY <2>1, <3>1, KeepsStored
  <2> HIDE DEF g
  <2>5. ref.ratio \in Nat
    BY <2>2, <2>3, ReferenceTyped
  <2>6. CASE ~CanSell(g, ref, cpd)
    <3>1. r = [g EXCEPT !.failed = TRUE]
      BY <1>2, <2>6 DEF Turn, g
    <3> HIDE DEF r
    <3>2. r.failed = TRUE
      BY <3>1, <2>2 DEF HasFields, LoopFields
    <3> QED BY <3>2 DEF LoopStored, r
  <2>7. CASE CanSell(g, ref, cpd)
    <3>1. all \in Nat /\ col \in Nat
      <4>1. all \in Nat
        <5> HIDE DEF ref
        <5> QED BY <2>3, <2>5, <2>7, DebtLiquidatedTyped
      <4> HIDE DEF all
      <4> QED BY <4>1, ColLiquidatedTyped
    <3>2. g.debt # 0
      BY <2>3, <2>7 DEF CanSell
    <3> HIDE DEF all, col
    <3>3. debt \in Nat
      BY <2>3, <3>1, <3>2
    <3> HIDE DEF debt
    <3>4. CASE debt >= g.remaining \/ ref.status = "threshold"
      <4>1. r = EndLiquidation(g, ref, debt, col, cpd)
        BY <1>2, <2>7, <3>4 DEF Turn, g, debt, col, all
      <4>2. /\ KeepsRest(g.store, EndLiquidation(g, Reference(g, lt), debt, col, cpd).store)
            /\ EndLiquidation(g, Reference(g, lt), debt, col, cpd).col_liq \in Nat
        BY <2>2, <2>3, <2>4, <3>1, <3>3, EndKeeps
      <4>3. KeepsRest(g.store, r.store) /\ r.col_liq \in Nat
        BY <4>1, <4>2
      <4> HIDE DEF r
      <4>4. Stored(r.store)
        BY <2>4, <4>3, KeepsStored
      <4> QED BY <4>3, <4>4 DEF LoopStored, r
    <3>5. CASE ~(debt >= g.remaining \/ ref.status = "threshold")
      <4>1. r = Onward(g, ref, debt, col)
        BY <1>2, <2>7, <3>5 DEF Turn, g, debt, col, all
      <4>2. KeepsRest(g.store, r.store) /\ r.col_liq \in Nat
        <5> HIDE DEF r, ref
        <5> QED BY <4>1, <2>2, <2>3, <2>4, <3>1, OnwardKeeps
      <4> HIDE DEF r
      <4>3. Stored(r.store)
        BY <2>4, <4>2, KeepsStored
      <4> QED BY <4>2, <4>3 DEF LoopStored, r
    <3> QED BY <3>4, <3>5
  <2> QED BY <2>6, <2>7
<1> QED BY <1>1, <1>2

LEMMA LiquidatedStored ==
  ASSUME NEW l, NEW s, NEW total \in Int, Turned(l, s, total), LoopStored(l), NEW lt \in Ticks,
         NEW cpd \in Nat, ~Liquidated(l, lt, cpd).failed
  PROVE  Stored(Liquidated(l, lt, cpd).store) /\ Liquidated(l, lt, cpd).col_liq \in Nat
<1> DEFINE r == Liquidated(l, lt, cpd)
           A == Turns(l, lt, cpd)
<1>1. TurnWalk(A, l, lt, cpd)
  BY LiquidatedWalks
<1> HIDE DEF A
<1>2. /\ A[0] = l
      /\ \A n \in 1 .. MaxTurns : A[n] = Turn(A[n - 1], lt, cpd)
      /\ r = [A[MaxTurns] EXCEPT !.failed = @ \/ ~A[MaxTurns].ended]
  BY <1>1 DEF TurnWalk
<1>3. ~r.failed
  OBVIOUS
<1> DEFINE OK(n) == Turned(A[n], s, total) /\ LoopStored(A[n])
           bad == {n \in Nat : n <= MaxTurns /\ ~OK(n)}
<1>4. bad = {}
  <2>1. SUFFICES ASSUME bad # {} PROVE FALSE
    OBVIOUS
  <2>2. PICK m \in bad : \A k \in bad : m <= k
    BY <2>1, LeastNatural
  <2>3. m # 0
    BY <2>2, <1>2
  <2>4. m \in 1 .. MaxTurns /\ m - 1 \in Nat /\ m - 1 <= MaxTurns /\ m - 1 \notin bad
    BY <2>2, <2>3, MaxTurnsCounts
  <2>5. OK(m - 1)
    BY <2>4
  <2>6. OK(m)
    BY <2>4, <2>5, <1>2, TurnBooks, TurnStored
  <2> QED BY <2>2, <2>6
<1> DEFINE last == A[MaxTurns]
<1>5. Turned(last, s, total) /\ LoopStored(last)
  BY <1>4, MaxTurnsCounts
<1>6. HasFields(last, LoopFields)
  BY <1>5 DEF Turned, Turning
<1> HIDE DEF r, last
<1>7. /\ r.failed = (last.failed \/ ~last.ended) /\ r.store = last.store
      /\ r.col_liq = last.col_liq
  BY <1>2, <1>6 DEF HasFields, LoopFields, last
<1>8. ~last.failed
  BY <1>3, <1>7, Zenon
<1>9. Stored(last.store) /\ last.col_liq \in Nat
  BY <1>5, <1>8 DEF LoopStored
<1> QED BY <1>7, <1>9 DEF r

LEMMA ShareBelow ==
  ASSUME NEW a \in Nat, NEW x \in Nat, NEW d \in Nat \ {0}, x < d
  PROVE  (a * x) \div d \in Nat /\ a - (a * x) \div d \in Nat
<1> DEFINE y == a * x
           q == y \div d
<1>1. y \in Nat
  OBVIOUS
<1>2. y <= a * d
  OBVIOUS
<1> HIDE DEF y
<1>3. q \in Nat /\ d * q <= y
  BY <1>1, QuotientBelow
<1> HIDE DEF q
<1>4. q <= a
  <2>1. SUFFICES ASSUME a + 1 <= q PROVE FALSE
    BY <1>3
  <2>2. d * (a + 1) <= d * q
    BY <1>3, <2>1
  <2>3. d * (a + 1) = a * d + d /\ a * d \in Nat /\ d * q \in Nat
    BY <1>3
  <2> QED BY <1>1, <1>2, <1>3, <2>2, <2>3
<1> QED BY <1>3, <1>4 DEF q, y

LEMMA StartStored ==
  ASSUME NEW s, Linked(s), Booked(s), Stored(s), NEW remaining \in Nat, NEW absorb
  PROVE  LET l == StartLoop(s, remaining, absorb)
         IN  Stored(l.store) /\ l.col_liq \in Nat
<1> DEFINE b == s.branches[s.vault.current]
           ratio == CASE s.vault.top = COLD_TICK -> 0
                      [] s.vault.liquidated -> PartialsRatio(s.vault.top, b.partials)
                      [] OTHER -> RatioAtTick[s.vault.top]
           next == IF s.vault.liquidated THEN COLD_TICK ELSE s.vault.top
           factor == IF b.factor = BigZero THEN InitialFactor ELSE b.factor
           l0 == [store |-> s, remaining |-> remaining, debt |-> 0, col |-> 0, debt_liq |-> 0,
                  col_liq |-> 0, tick |-> s.vault.top, perfect |-> ~s.vault.liquidated,
                  ratio |-> ratio, next |-> next, branch |-> s.vault.current, first |-> TRUE,
                  failed |-> FALSE, ended |-> FALSE, factor |-> factor]
           l == StartLoop(s, remaining, absorb)
           v == s.vault
<1>1. l = IF absorb THEN BuyAbsorbed(l0) ELSE l0
  BY DEF StartLoop
<1>2. /\ HasFields(s, StoreFields) /\ HasFields(v, VaultFields)
      /\ v.absorbed_debt \in Nat /\ v.absorbed_col \in Nat /\ v.supply \in Nat
  BY DEF Linked, Shape, Booked, VaultBooked, Stored
<1> HIDE DEF ratio, next, factor
<1>3. HasFields(l0, LoopFields) /\ l0.store = s /\ l0.remaining = remaining /\ l0.col_liq = 0
  BY DEF HasFields, LoopFields
<1> HIDE DEF l0, l
<1>4. CASE l = l0
  BY <1>3, <1>4 DEF l
<1>5. CASE l = BuyAbsorbed(l0)
  <2>1. PICK x1, x2, x3, x4, x5 :
          BuysAbsorbed(l0, l, x1, x2, x3, x4, x5) /\ x2 \in Nat /\ x5 \in Nat
    <3> DEFINE c == (v.absorbed_col * remaining) \div v.absorbed_debt
    <3>1. CASE v.absorbed_debt > remaining
      <4>1. BuysAbsorbed(l0, l, remaining, c, 0, v.absorbed_debt - remaining,
                         v.absorbed_col - c)
        BY <1>3, <1>5, <3>1 DEF BuyAbsorbed, BuysAbsorbed
      <4>2. c \in Nat /\ v.absorbed_col - c \in Nat
        <5> HIDE DEF v
        <5> QED BY <1>2, <3>1, ShareBelow
      <4> HIDE DEF c
      <4> QED BY <4>1, <4>2
    <3>2. CASE ~(v.absorbed_debt > remaining)
      <4>1. BuysAbsorbed(l0, l, v.absorbed_debt, v.absorbed_col, remaining - v.absorbed_debt,
                         0, 0)
        BY <1>3, <1>5, <3>2 DEF BuyAbsorbed, BuysAbsorbed
      <4> QED BY <4>1, <1>2
    <3> QED BY <3>1, <3>2
  <2> DEFINE l1 == [l0 EXCEPT !.debt_liq = x1, !.col_liq = x2, !.remaining = x3]
             l2 == [l1 EXCEPT !.store.vault.absorbed_debt = x4]
             l3 == [l2 EXCEPT !.store.vault.absorbed_col = x5]
             s1 == [s EXCEPT !.vault.absorbed_debt = x4]
             s2 == [s1 EXCEPT !.vault.absorbed_col = x5]
             Alike(k) == HasFields(k, LoopFields) /\ k.col_liq = x2
  <2>2. l = l3
    BY <2>1 DEF BuysAbsorbed
  <2>3. Alike(l1) /\ l1.store = s
    BY <1>3 DEF HasFields, LoopFields
  <2> HIDE DEF l1
  <2>4. Alike(l2) /\ l2.store = s1
    BY <2>3 DEF HasFields, LoopFields
  <2> HIDE DEF l2, s1
  <2>5. Alike(l3) /\ l3.store = s2
    BY <2>4 DEF HasFields, LoopFields
  <2> HIDE DEF l3
  <2>6. /\ l.col_liq = x2
        /\ l.store = [s EXCEPT !.vault.absorbed_debt = x4, !.vault.absorbed_col = x5]
    BY <2>2, <2>5 DEF s1
  <2> DEFINE st == l.store
  <2> HIDE DEF st, v
  <2>7. /\ st.branches = s.branches
        /\ st.vault = [v EXCEPT !.absorbed_debt = x4, !.absorbed_col = x5]
    BY <2>6, <1>2 DEF HasFields, StoreFields, st, v
  <2>8. st.vault.supply = v.supply /\ st.vault.absorbed_col = x5
    BY <2>7, <1>2 DEF HasFields, VaultFields
  <2>9. Stored(st)
    BY <2>1, <2>7, <2>8, <1>2 DEF Stored
  <2> QED BY <2>1, <2>6, <2>9 DEF st, l
<1> QED BY <1>1, <1>4, <1>5

LEMMA LoopOutcomeStored ==
  ASSUME NEW s, Linked(s), Booked(s), Stored(s), s.vault.top \in Ticks \union {COLD_TICK},
         NEW amount \in Nat, NEW absorb, NEW price \in Nat \ {0}, PriceHasTicks(price),
         ~LiquidationOutcome(s, amount, absorb, price).failed
  PROVE  LET r == LiquidationOutcome(s, amount, absorb, price)
         IN  Stored(r.store) /\ r.col_liq \in Nat
<1> DEFINE r == LiquidationOutcome(s, amount, absorb, price)
           tick == LiquidationTick(price)
           remaining == (amount * EXCHANGE_PRICES_PRECISION) \div borrow_ex_price
           l == StartLoop(s, remaining, absorb)
           cpd == ColPerDebt(price)
<1>1. tick \in Ticks /\ cpd \in Nat
  BY TickAtRatioInTable, ColPerDebtTyped DEF PriceHasTicks, LiquidationTick
<1>2. remaining \in Nat
  <2>1. amount * EXCHANGE_PRICES_PRECISION \in Nat
    BY DebtConstants
  <2> QED BY <2>1, DebtConstants, QuotientNatural
<1>3. r = IF ~(l.tick > tick /\ l.remaining > 0) THEN l
          ELSE IF NothingToLiquidate(l, tick) THEN [l EXCEPT !.failed = TRUE]
          ELSE Liquidated(l, tick, cpd)
  BY DEF LiquidationOutcome
<1> HIDE DEF remaining
<1>4. /\ l.tick = s.vault.top /\ Stored(l.store) /\ l.col_liq \in Nat
      /\ l.tick \in Ticks => Turning(l, s) /\ Turned(l, s, DebtHeld(s))
  BY <1>2, StartLinked, StartBooks, StartStored
<1> HIDE DEF l, tick, cpd
<1>5. CASE ~(l.tick > tick /\ l.remaining > 0)
  BY <1>3, <1>4, <1>5
<1>6. CASE l.tick > tick /\ l.remaining > 0
  <2>1. l.tick \in Ticks
    BY <1>1, <1>4, <1>6, TickRange
  <2>2. Turned(l, s, DebtHeld(s)) /\ HasFields(l, LoopFields) /\ LoopStored(l)
    BY <1>4, <2>1 DEF Turning, LoopStored
  <2>3. ~r.failed
    OBVIOUS
  <2>4. DebtHeld(s) \in Int
    BY HeldTyped
  <2> HIDE DEF r
  <2>5. CASE NothingToLiquidate(l, tick)
    <3>1. r = [l EXCEPT !.failed = TRUE]
      BY <1>3, <1>6, <2>5
    <3>2. r.failed = TRUE
      BY <3>1, <2>2 DEF HasFields, LoopFields
    <3> QED BY <2>3, <3>2
  <2>6. CASE ~NothingToLiquidate(l, tick)
    <3>1. r = Liquidated(l, tick, cpd)
      BY <1>3, <1>6, <2>6
    <3>2. Stored(Liquidated(l, tick, cpd).store) /\ Liquidated(l, tick, cpd).col_liq \in Nat
      BY <1>1, <2>2, <2>3, <2>4, <3>1, LiquidatedStored
    <3> QED BY <3>1, <3>2 DEF r
  <2> QED BY <2>5, <2>6
<1> QED BY <1>5, <1>6

LEMMA LiquidatesStored ==
  ASSUME VaultLinked, VaultBooks, High(Store), Stored(Store), Liquidates
  PROVE  Stored(Store')
<1>1. Linked(Store) /\ Booked(Store)
  BY DEF VaultLinked, VaultBooks
<1>2. ASSUME NEW price \in Prices, AbsorbOnly(price) PROVE Stored(Store')
  <2> DEFINE s == Absorbed(price)
  <2>1. CanAbsorb(price) /\ Save(s)
    BY <1>2 DEF AbsorbOnly
  <2>2. Linked(s) /\ Stored(s)
    BY <1>1, <2>1, AbsorbedLinked, AbsorbedStored
  <2> HIDE DEF s
  <2> QED BY <2>1, <2>2, SavedStore DEF Linked, Shape
<1>3. ASSUME NEW price \in Prices, NEW amount \in LiquidationAmounts, NEW absorb \in BOOLEAN,
             Liquidate(amount, absorb, price)
      PROVE  Stored(Store')
  <2> DEFINE s == Absorbed(price)
             o == LiquidationOutcome(s, amount, absorb, price)
             r == ReduceTotals(o)
  <2>1. CanAbsorb(price) /\ ~o.failed /\ TotalsFit(o) /\ Save(r)
    BY <1>3 DEF Liquidate, Conclude
  <2>2. /\ Linked(s) /\ s.vault.top \in Ticks \union {COLD_TICK} /\ PriceHasTicks(price)
        /\ Booked(s) /\ Stored(s)
    BY <1>1, <2>1, AbsorbedLinked, AbsorbedBooks, AbsorbedStored DEF CanAbsorb
  <2>3. price \in Nat \ {0} /\ amount \in Nat
    BY VaultAssumption
  <2> HIDE DEF s
  <2>4. Linked(o.store)
    BY <2>1, <2>2, OutcomeLinked
  <2>5. Stored(o.store) /\ o.col_liq \in Nat
    BY <2>1, <2>2, <2>3, LoopOutcomeStored
  <2> DEFINE w == o.store
             x == w.vault.supply - o.col_liq
             y == w.vault.borrow - o.debt_liq
  <2>6. HasFields(w, StoreFields) /\ HasFields(w.vault, VaultFields)
    BY <2>4 DEF Linked, Shape
  <2>7. x \in Nat
    BY <2>1, <2>5 DEF TotalsFit, Stored
  <2> HIDE DEF o
  <2>8. r = WithTotals(w, x, y)
    BY <2>6 DEF ReduceTotals, WithTotals, HasFields, StoreFields, VaultFields
  <2> HIDE DEF w, x, y, r
  <2>9. Linked(w) /\ Stored(w) /\ Shape(w)
    BY <2>4, <2>5 DEF w, Linked
  <2>10. Linked(r) /\ Stored(r)
    BY <2>7, <2>8, <2>9, TotalsLinked, TotalsStored DEF WithTotals
  <2> QED BY <2>1, <2>10, SavedStore DEF Linked, Shape
<1> QED BY <1>2, <1>3 DEF Liquidates

LEMMA InitStored == Init => Stored(Store)
<1> SUFFICES ASSUME Init PROVE Stored(Store)
  OBVIOUS
<1>1. vault = EmptyStore.vault /\ branches = [b \in BranchIds |-> EmptyBranch]
  BY DEF Init, EmptyStore
<1>2. Store.vault = vault /\ Store.branches = branches
  BY StoreFieldsOfStore
<1>3. vault.supply = 0 /\ vault.absorbed_col = 0
  BY <1>1 DEF EmptyStore
<1>4. ASSUME NEW b \in BranchIds PROVE branches[b].connected \in 0 .. b - 1
  <2>1. branches[b].connected = 0
    BY <1>1 DEF EmptyBranch
  <2>2. 0 \in 0 .. b - 1
    BY StoreAssumption DEF BranchIds
  <2> QED BY <2>1, <2>2
<1> QED BY <1>2, <1>3, <1>4 DEF Stored

LEMMA NextStored ==
  ASSUME VaultHigh, Stored(Store), [Next]_vars
  PROVE  Stored(Store')
<1>1. VaultLinked /\ VaultBooks /\ High(Store)
  BY DEF VaultHigh
<1>2. CASE UNCHANGED vars
  <2>1. Store' = Store
    BY <1>2 DEF vars, accounts, Store
  <2> QED BY <2>1
<1>3. CASE InitPosition \/ \E p \in PositionIds : ClosePosition(p)
  BY <1>1, <1>3, OpenedAndClosed
<1>4. CASE Operates
  <2>1. Bare(Store)
    BY <1>1, HighBare DEF VaultLinked, VaultBooks
  <2>2. PICK p \in PositionIds, amounts \in Amounts : Operate(p, amounts[1], amounts[2])
    BY <1>4 DEF Operates
  <2>3. amounts[1] \in Int /\ amounts[2] \in Int
    <3>1. amounts \in Int \X Int
      BY VaultAssumption
    <3> QED BY <3>1
  <2> QED BY <1>1, <2>1, <2>2, <2>3, OperateStored
<1>5. CASE Liquidates
  BY <1>1, <1>5, LiquidatesStored
<1> QED BY <1>2, <1>3, <1>4, <1>5 DEF Next

\* The top tick has a ratio.
TopInTable == vault.top <= MAX_TICK

LEMMA TypesFollow == VaultHigh /\ Stored(Store) /\ TopInTable => VaultTypeOK
<1> SUFFICES ASSUME VaultHigh, Stored(Store), TopInTable PROVE VaultTypeOK
  OBVIOUS
<1>1. /\ Linked(Store) /\ PositionsLinked(ticks, positions)
      /\ Booked(Store) /\ PositionsBooked(positions)
  BY DEF VaultHigh, VaultLinked, VaultBooks
<1>2. Store.vault = vault /\ Store.ticks = ticks /\ Store.branches = branches
  BY StoreFieldsOfStore
<1>3. vault.top \in Ticks \union {COLD_TICK}
  <2>1. vault.top \in COLD_TICK .. MAX_TICK + 2
    BY <1>1, <1>2 DEF Linked, TopLinked
  <2> QED BY <2>1, TickRange DEF TopInTable, Ticks
<1>4. vault.current \in BranchIds /\ vault.total \in BranchIds /\ vault.current <= vault.total
  BY <1>1, <1>2 DEF Linked, Forest, Woods
<1>5. {vault.supply, vault.borrow, vault.absorbed_debt, vault.absorbed_col,
       vault.absorbed_dust} \subseteq Nat
  BY <1>1, <1>2 DEF Stored, Booked, VaultBooked
<1>6. ASSUME NEW t \in Ticks
      PROVE  /\ ticks[t].raw_debt \in Nat /\ ticks[t].total_ids \in 0 .. MaxTickIds
             /\ ticks[t].liquidation.factor \in BigNumbers
  BY <1>1, <1>2 DEF Booked, TickBooked, Linked, Shape, TicksShaped
<1>7. ASSUME NEW b \in BranchIds
      PROVE  /\ branches[b].debt \in Nat /\ branches[b].connected \in 0 .. b - 1
             /\ branches[b].partials \in 0 .. X30 - 1 /\ branches[b].factor \in BigNumbers
  BY <1>1, <1>2 DEF Stored, Booked, BranchBooked
<1>8. ASSUME NEW p \in PositionIds
      PROVE  /\ positions[p].supply \in Nat /\ positions[p].dust \in Nat
             /\ positions[p].tick \in Ticks \union {COLD_TICK}
  BY <1>1 DEF PositionsLinked, PositionsBooked, PositionBooked
<1> QED BY <1>3, <1>4, <1>5, <1>6, <1>7, <1>8 DEF VaultTypeOK

(* Every number in the accounts of the vault is one its type can hold: no     *)
(* subtraction of a liquidation, an absorption or an operation goes below     *)
(* zero, the factors stay normalised, every branch is connected to an older   *)
(* one (vault_state.rs; branch.rs; tick.rs; position.rs).  Only the top tick   *)
(* may leave the table, by what rounding adds to the last ratio in it; what   *)
(* starts from such a top fails (user.rs, liquidate).                         *)
THEOREM VaultTyped == Spec /\ []EndsBeside => [](TopInTable => VaultTypeOK)
<1> DEFINE Inv == VaultHigh /\ Stored(Store)
<1>1. Init => Inv
  BY InitLinked, InitBooks, InitHigh, InitStored DEF VaultHigh
<1>2. Inv /\ EndsBeside /\ [Next]_vars => Inv'
  <2> SUFFICES ASSUME Inv, EndsBeside, [Next]_vars PROVE Inv'
    OBVIOUS
  <2>1. VaultHigh' /\ Stored(Store')
    BY NextVaultHigh, NextStored
  <2> QED BY <2>1
<1>3. Inv => (TopInTable => VaultTypeOK)
  BY TypesFollow
<1> HIDE DEF Inv
<1> QED BY <1>1, <1>2, <1>3, PTL DEF Spec
=============================================================================

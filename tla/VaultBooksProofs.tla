-------------------------- MODULE VaultBooksProofs --------------------------
(***************************************************************************)
(* The books of a vault, for every scale, every number of positions, ticks *)
(* and branches and every price: what its accounts can hold, and that the  *)
(* debt it lent is found in its ticks and branches.  Booked(s) says the    *)
(* first of a store and Balanced, over the totals of what is in them, the  *)
(* second; both go through a liquidation turn by turn.  The last part      *)
(* bounds what operations wear away from a tick, for every behaviour.      *)
(***************************************************************************)
EXTENDS VaultProofs

-----------------------------------------------------------------------------
(* Sums.  Weight counts the pairs <<x, i>> with i in 1 .. f[x], so that a   *)
(* sum is split and joined as a finite set is.                             *)

Weight(f, S) == Cardinality(UNION {{x} \X (1 .. f[x]) : x \in S})

LEMMA UnitsFinite ==
  ASSUME NEW f, NEW S, IsFiniteSet(S), \A x \in S : f[x] \in Nat
  PROVE  IsFiniteSet(UNION {{x} \X (1 .. f[x]) : x \in S}) /\ Weight(f, S) \in Nat
<1> DEFINE parts == {{x} \X (1 .. f[x]) : x \in S}
           part == [x \in S |-> {x} \X (1 .. f[x])]
<1>1. \A x \in S : IsFiniteSet({x} \X (1 .. f[x]))
  <2> TAKE x \in S
  <2>1. IsFiniteSet({x})
    BY FS_Singleton
  <2>2. f[x] \in Int /\ 1 \in Int
    OBVIOUS
  <2>3. IsFiniteSet(1 .. f[x])
    BY <2>2, FS_Interval
  <2> QED BY <2>1, <2>3, FS_Product
<1>2. part \in Surjection(S, parts)
  BY DEF Surjection
<1>3. IsFiniteSet(parts)
  BY <1>2, FS_Surjection
<1>4. \A T \in parts : IsFiniteSet(T)
  BY <1>1
<1> HIDE DEF parts
<1>5. IsFiniteSet(UNION parts)
  BY <1>3, <1>4, FS_UNION
<1> QED BY <1>5, FS_CardinalityType DEF parts, Weight

LEMMA WeightOfNone ==
  ASSUME NEW f
  PROVE  Weight(f, {}) = 0
<1>1. UNION {{x} \X (1 .. f[x]) : x \in {}} = {}
  OBVIOUS
<1> QED BY <1>1, FS_EmptySet DEF Weight

LEMMA WeightOfOne ==
  ASSUME NEW f, NEW x, f[x] \in Nat
  PROVE  Weight(f, {x}) = f[x]
<1>1. UNION {{y} \X (1 .. f[y]) : y \in {x}} = {x} \X (1 .. f[x])
  OBVIOUS
<1>2. IsFiniteSet({x}) /\ Cardinality({x}) = 1
  BY FS_Singleton
<1>3. /\ IsFiniteSet(1 .. f[x])
      /\ Cardinality(1 .. f[x]) = IF 1 > f[x] THEN 0 ELSE f[x] - 1 + 1
  <2>1. f[x] \in Int /\ 1 \in Int
    OBVIOUS
  <2> QED BY <2>1, FS_Interval
<1>4. Cardinality(1 .. f[x]) = f[x]
  BY <1>3
<1>5. Cardinality({x} \X (1 .. f[x])) = Cardinality({x}) * Cardinality(1 .. f[x])
  BY <1>2, <1>3, FS_Product
<1>6. 1 * f[x] = f[x]
  OBVIOUS
<1> QED BY <1>1, <1>2, <1>4, <1>5, <1>6 DEF Weight

LEMMA WeightJoined ==
  ASSUME NEW f, NEW A, NEW B, IsFiniteSet(A), IsFiniteSet(B), A \cap B = {},
         \A x \in A \cup B : f[x] \in Nat
  PROVE  Weight(f, A \cup B) = Weight(f, A) + Weight(f, B)
<1> DEFINE P == UNION {{x} \X (1 .. f[x]) : x \in A}
           Q == UNION {{x} \X (1 .. f[x]) : x \in B}
<1>1. /\ IsFiniteSet(P) /\ Weight(f, A) \in Nat
      /\ IsFiniteSet(Q) /\ Weight(f, B) \in Nat
  BY UnitsFinite
<1>2. UNION {{x} \X (1 .. f[x]) : x \in A \cup B} = P \cup Q
  OBVIOUS
<1>3. P \cap Q = {}
  OBVIOUS
<1>4. /\ Weight(f, A \cup B) = Cardinality(P \cup Q)
      /\ Weight(f, A) = Cardinality(P) /\ Weight(f, B) = Cardinality(Q)
  BY <1>2 DEF Weight
<1> HIDE DEF P, Q
<1>5. Cardinality(P \cup Q) = Cardinality(P) + Cardinality(Q) - Cardinality(P \cap Q)
  BY <1>1, FS_Union
<1>6. Cardinality(P \cap Q) = 0
  BY <1>3, FS_EmptySet
<1> QED BY <1>1, <1>2, <1>4, <1>5, <1>6

LEMMA WeightAgrees ==
  ASSUME NEW f, NEW g, NEW S, \A x \in S : f[x] = g[x]
  PROVE  Weight(f, S) = Weight(g, S)
<1>1. {{x} \X (1 .. f[x]) : x \in S} = {{x} \X (1 .. g[x]) : x \in S}
  OBVIOUS
<1> QED BY <1>1 DEF Weight

(* The function that the fold of the community modules is computed by.      *)
Folding(f, S, g) ==
  g = [s \in SUBSET S |->
         IF s = {} THEN 0 ELSE f[CHOOSE x \in s : TRUE] + g[s \ {CHOOSE x \in s : TRUE}]]
FoldOf(f, S) == CHOOSE g : Folding(f, S, g)

LEMMA SumIsFold ==
  ASSUME NEW f, NEW S
  PROVE  SumFunctionOnSet(f, S) = FoldOf(f, S)[S]
BY DEF SumFunctionOnSet, FoldFunctionOnSet, MapThenFoldSet, FoldOf, Folding

LEMMA FoldExists ==
  ASSUME NEW f, NEW S, NEW w, Folding(f, S, w)
  PROVE  Folding(f, S, FoldOf(f, S))
BY Zenon DEF FoldOf

LEMMA SumIsWeight ==
  ASSUME NEW f, NEW S, IsFiniteSet(S), \A x \in S : f[x] \in Nat
  PROVE  SumFunctionOnSet(f, S) = Weight(f, S)
<1> DEFINE pick(s) == CHOOSE x \in s : TRUE
           Folds(g) == g = [s \in SUBSET S |->
                              IF s = {} THEN 0 ELSE f[pick(s)] + g[s \ {pick(s)}]]
           w == [s \in SUBSET S |-> Weight(f, s)]
<1>1. ASSUME NEW s \in SUBSET S, s # {}
      PROVE  pick(s) \in s /\ Weight(f, s) = f[pick(s)] + Weight(f, s \ {pick(s)})
  <2>1. pick(s) \in s
    BY <1>1
  <2> DEFINE x == pick(s)
  <2> HIDE DEF x
  <2>2. x \in s
    BY <2>1 DEF x
  <2>3. IsFiniteSet(s \ {x}) /\ IsFiniteSet({x}) /\ s = {x} \cup (s \ {x})
    <3>1. IsFiniteSet(s)
      BY FS_Subset
    <3>2. IsFiniteSet(s \ {x})
      BY <3>1, FS_Subset
    <3> QED BY <2>2, <3>2, FS_Singleton
  <2>4. Weight(f, {x} \cup (s \ {x})) = Weight(f, {x}) + Weight(f, s \ {x})
    <3>1. {x} \cap (s \ {x}) = {} /\ \A y \in {x} \cup (s \ {x}) : f[y] \in Nat
      BY <2>2
    <3> QED BY <2>3, <3>1, WeightJoined
  <2>5. Weight(f, {x}) = f[x]
    BY <2>2, WeightOfOne
  <2> QED BY <2>1, <2>3, <2>4, <2>5 DEF x
<1>2. Folds(w)
  <2>1. ASSUME NEW s \in SUBSET S
        PROVE  w[s] = IF s = {} THEN 0 ELSE f[pick(s)] + w[s \ {pick(s)}]
    <3>1. CASE s = {}
      BY <3>1, WeightOfNone
    <3>2. CASE s # {}
      <4>1. s \ {pick(s)} \in SUBSET S
        OBVIOUS
      <4>2. w[s \ {pick(s)}] = Weight(f, s \ {pick(s)}) /\ w[s] = Weight(f, s)
        BY <4>1
      <4> HIDE DEF w, pick
      <4> QED BY <1>1, <3>2, <4>2
    <3> QED BY <3>1, <3>2
  <2>2. w = [s \in SUBSET S |-> w[s]]
    OBVIOUS
  <2> HIDE DEF w, pick
  <2>3. [s \in SUBSET S |-> w[s]]
          = [s \in SUBSET S |-> IF s = {} THEN 0 ELSE f[pick(s)] + w[s \ {pick(s)}]]
    BY <2>1, Zenon
  <2> QED BY <2>2, <2>3
<1> DEFINE iter == FoldOf(f, S)
<1>3. SumFunctionOnSet(f, S) = iter[S]
  BY SumIsFold
<1>4. Folds(iter)
  <2>1. Folding(f, S, w)
    BY <1>2 DEF Folding
  <2>2. Folding(f, S, iter)
    BY <2>1, FoldExists
  <2> QED BY <2>2 DEF Folding
<1>5. \A s \in SUBSET S : iter[s] = IF s = {} THEN 0 ELSE f[pick(s)] + iter[s \ {pick(s)}]
  <2> DEFINE step == [s \in SUBSET S |-> IF s = {} THEN 0 ELSE f[pick(s)] + iter[s \ {pick(s)}]]
  <2>1. iter = step
    BY <1>4
  <2>2. \A s \in SUBSET S : step[s] = IF s = {} THEN 0 ELSE f[pick(s)] + iter[s \ {pick(s)}]
    OBVIOUS
  <2> HIDE DEF step, pick, Folds
  <2> QED BY <2>1, <2>2
<1> HIDE DEF Folds, pick
<1> DEFINE bad == {n \in Nat : \E s \in SUBSET S : Cardinality(s) = n /\ iter[s] # Weight(f, s)}
<1>6. bad = {}
  <2>1. SUFFICES ASSUME bad # {} PROVE FALSE
    OBVIOUS
  <2>2. PICK n \in bad : \A k \in bad : n <= k
    BY <2>1, LeastNatural
  <2>3. PICK s \in SUBSET S : Cardinality(s) = n /\ iter[s] # Weight(f, s)
    BY <2>2
  <2>4. s # {}
    BY <2>3, <1>5, WeightOfNone
  <2>5. pick(s) \in s
    BY <2>4, <1>1
  <2>6. IsFiniteSet(s)
    BY FS_Subset
  <2>7. Cardinality(s \ {pick(s)}) = n - 1 /\ n - 1 \in Nat
    <3>1. IsFiniteSet(s \ {pick(s)}) /\ Cardinality(s \ {pick(s)}) = Cardinality(s) - 1
      BY <2>5, <2>6, FS_RemoveElement
    <3> QED BY <2>3, <3>1, FS_CardinalityType
  <2>8. n - 1 \notin bad
    BY <2>2
  <2>9. iter[s \ {pick(s)}] = Weight(f, s \ {pick(s)})
    <3>1. s \ {pick(s)} \in SUBSET S
      OBVIOUS
    <3> QED BY <2>7, <2>8, <3>1
  <2> QED BY <2>3, <2>4, <2>9, <1>1, <1>5
<1>7. iter[S] = Weight(f, S)
  <2>1. S \in SUBSET S /\ Cardinality(S) \in Nat
    BY FS_CardinalityType
  <2> QED BY <2>1, <1>6
<1> QED BY <1>3, <1>7

Counted(f, S) == \A x \in S : f[x] \in Nat
Within(A, S) == A \subseteq S

LEMMA SumNatural ==
  ASSUME NEW f, NEW S, IsFiniteSet(S), Counted(f, S)
  PROVE  SumFunctionOnSet(f, S) = Weight(f, S) /\ SumFunctionOnSet(f, S) \in Nat
BY SumIsWeight, UnitsFinite DEF Counted

LEMMA SumJoined ==
  ASSUME NEW f, NEW S, IsFiniteSet(S), NEW A, Within(A, S), Counted(f, S)
  PROVE  /\ SumFunctionOnSet(f, S) = SumFunctionOnSet(f, A) + SumFunctionOnSet(f, S \ A)
         /\ SumFunctionOnSet(f, S) \in Nat /\ SumFunctionOnSet(f, A) \in Nat
         /\ SumFunctionOnSet(f, S \ A) \in Nat
<1>1. IsFiniteSet(A) /\ IsFiniteSet(S \ A)
  <2>1. S \ A \in SUBSET S /\ A \in SUBSET S
    BY DEF Within
  <2> QED BY <2>1, FS_Subset
<1>2. A \cup (S \ A) = S /\ A \cap (S \ A) = {}
  BY DEF Within
<1>3. Weight(f, A \cup (S \ A)) = Weight(f, A) + Weight(f, S \ A)
  BY <1>1, <1>2, WeightJoined DEF Counted
<1>4. Weight(f, S) = Weight(f, A) + Weight(f, S \ A)
  BY <1>2, <1>3
<1>5. Counted(f, A) /\ Counted(f, S \ A)
  BY DEF Counted, Within
<1> QED BY <1>1, <1>4, <1>5, SumNatural

LEMMA SumAgrees ==
  ASSUME NEW f, NEW g, NEW S, IsFiniteSet(S), Counted(f, S), \A x \in S : f[x] = g[x]
  PROVE  SumFunctionOnSet(f, S) = SumFunctionOnSet(g, S)
<1>1. Counted(g, S)
  BY DEF Counted
<1>2. Weight(f, S) = Weight(g, S)
  BY WeightAgrees
<1> QED BY <1>1, <1>2, SumNatural

LEMMA SumOfOne ==
  ASSUME NEW f, NEW x, f[x] \in Nat
  PROVE  SumFunctionOnSet(f, {x}) = f[x]
<1>1. IsFiniteSet({x}) /\ Counted(f, {x})
  BY FS_Singleton DEF Counted
<1> QED BY <1>1, SumNatural, WeightOfOne

LEMMA SumOfZeros ==
  ASSUME NEW f, NEW S, IsFiniteSet(S), \A x \in S : f[x] = 0
  PROVE  SumFunctionOnSet(f, S) = 0
<1>1. Counted(f, S)
  BY DEF Counted
<1>2. \A x \in S : {x} \X (1 .. f[x]) = {}
  <2>1. 1 .. 0 = {}
    OBVIOUS
  <2> QED BY <2>1
<1>3. UNION {{x} \X (1 .. f[x]) : x \in S} = {}
  BY <1>2
<1>4. Weight(f, S) = 0
  BY <1>3, FS_EmptySet DEF Weight
<1> QED BY <1>1, <1>4, SumNatural

(* One value, or the values of some elements, change.                       *)
LEMMA SumChanged ==
  ASSUME NEW f, NEW g, NEW S, IsFiniteSet(S), NEW x \in S,
         Counted(f, S), g[x] \in Nat, \A y \in S : y # x => g[y] = f[y]
  PROVE  /\ SumFunctionOnSet(g, S) = SumFunctionOnSet(f, S) - f[x] + g[x]
         /\ SumFunctionOnSet(f, S) \in Nat /\ SumFunctionOnSet(g, S) \in Nat
         /\ f[x] <= SumFunctionOnSet(f, S)
<1> DEFINE rest == S \ {x}
<1>1. Within({x}, S) /\ IsFiniteSet(rest)
  <2>1. rest \in SUBSET S /\ {x} \subseteq S
    OBVIOUS
  <2> QED BY <2>1, FS_Subset DEF Within
<1>2. Counted(g, S) /\ Counted(f, rest) /\ f[x] \in Nat /\ \A y \in rest : f[y] = g[y]
  BY DEF Counted
<1>3. SumFunctionOnSet(f, rest) = SumFunctionOnSet(g, rest)
  <2> HIDE DEF rest
  <2> QED BY <1>1, <1>2, SumAgrees
<1>4. /\ SumFunctionOnSet(f, S) = SumFunctionOnSet(f, {x}) + SumFunctionOnSet(f, rest)
      /\ SumFunctionOnSet(f, S) \in Nat /\ SumFunctionOnSet(f, rest) \in Nat
  BY <1>1, SumJoined
<1>5. /\ SumFunctionOnSet(g, S) = SumFunctionOnSet(g, {x}) + SumFunctionOnSet(g, rest)
      /\ SumFunctionOnSet(g, S) \in Nat
  BY <1>1, <1>2, SumJoined
<1>6. SumFunctionOnSet(f, {x}) = f[x] /\ SumFunctionOnSet(g, {x}) = g[x]
  BY <1>2, SumOfOne
<1> HIDE DEF rest
<1> QED BY <1>2, <1>3, <1>4, <1>5, <1>6

LEMMA SumCleared ==
  ASSUME NEW f, NEW g, NEW S, IsFiniteSet(S), NEW A, Within(A, S),
         Counted(f, S), \A y \in S : g[y] = IF y \in A THEN 0 ELSE f[y]
  PROVE  /\ SumFunctionOnSet(f, S) = SumFunctionOnSet(g, S) + SumFunctionOnSet(f, A)
         /\ SumFunctionOnSet(g, S) \in Nat /\ SumFunctionOnSet(f, A) \in Nat
<1> DEFINE rest == S \ A
<1>1. IsFiniteSet(rest) /\ IsFiniteSet(A)
  <2>1. rest \in SUBSET S /\ A \in SUBSET S
    BY DEF Within
  <2> QED BY <2>1, FS_Subset
<1>2. Counted(g, S) /\ Counted(f, rest) /\ \A y \in rest : f[y] = g[y]
  BY DEF Counted
<1>3. SumFunctionOnSet(f, rest) = SumFunctionOnSet(g, rest)
  <2> HIDE DEF rest
  <2> QED BY <1>1, <1>2, SumAgrees
<1>4. SumFunctionOnSet(g, A) = 0
  <2>1. \A y \in A : g[y] = 0
    BY DEF Within
  <2> QED BY <2>1, <1>1, SumOfZeros
<1>5. /\ SumFunctionOnSet(f, S) = SumFunctionOnSet(f, A) + SumFunctionOnSet(f, rest)
      /\ SumFunctionOnSet(f, A) \in Nat /\ SumFunctionOnSet(f, rest) \in Nat
  BY SumJoined
<1>6. /\ SumFunctionOnSet(g, S) = SumFunctionOnSet(g, A) + SumFunctionOnSet(g, rest)
      /\ SumFunctionOnSet(g, S) \in Nat
  BY <1>2, SumJoined
<1> HIDE DEF rest
<1> QED BY <1>3, <1>4, <1>5, <1>6

LEMMA SumOfFunction ==
  ASSUME NEW f
  PROVE  SumFunction(f) = SumFunctionOnSet(f, DOMAIN f)
BY DEF SumFunction, FoldFunction, SumFunctionOnSet

-----------------------------------------------------------------------------
(* Powers of two and ratios are what their recursions say.                  *)

LEMMA BitsTyped ==
  /\ COEFFICIENT_SIZE \in Nat \ {0} /\ PRECISION \in Nat \ {0, 1} /\ COEFFICIENT_SIZE <= PRECISION
  /\ BITS \in Nat /\ BITS = COEFFICIENT_SIZE + PRECISION
BY BigNumberAssumption DEF BITS

LEMMA TwoToDoubles ==
  /\ TwoTo[0] = 1
  /\ \A k \in 1 .. BITS : TwoTo[k] = 2 * TwoTo[k - 1]
<1> DEFINE Walks(A, m) == A = [k \in 0 .. m |-> IF k = 0 THEN 1 ELSE 2 * A[k - 1]]
           bad == {m \in Nat : ~ \E A : Walks(A, m)}
<1>1. \E A : Walks(A, 0)
  <2> DEFINE A == [k \in 0 .. 0 |-> 1]
  <2>1. \A k \in 0 .. 0 : k = 0
    OBVIOUS
  <2>2. A = [k \in 0 .. 0 |-> IF k = 0 THEN 1 ELSE 2 * A[k - 1]]
    BY <2>1
  <2> QED BY <2>2
<1>2. ASSUME NEW m \in Nat, NEW A, Walks(A, m)
      PROVE  /\ \A k \in 0 .. m : A[k] = IF k = 0 THEN 1 ELSE 2 * A[k - 1]
             /\ \E B : Walks(B, m + 1)
  <2> DEFINE B == [k \in 0 .. m + 1 |-> IF k = 0 THEN 1 ELSE 2 * A[k - 1]]
             R == [k \in 0 .. m |-> IF k = 0 THEN 1 ELSE 2 * A[k - 1]]
  <2>1. ASSUME NEW k \in 0 .. m
        PROVE  A[k] = (IF k = 0 THEN 1 ELSE 2 * A[k - 1]) /\ B[k] = A[k]
    <3>1. A = R
      BY <1>2
    <3>2. R[k] = IF k = 0 THEN 1 ELSE 2 * A[k - 1]
      OBVIOUS
    <3>3. B[k] = IF k = 0 THEN 1 ELSE 2 * A[k - 1]
      OBVIOUS
    <3> HIDE DEF R, B
    <3> QED BY <3>1, <3>2, <3>3
  <2>2. \A k \in 0 .. m + 1 : k # 0 => B[k - 1] = A[k - 1]
    <3>1. \A k \in 0 .. m + 1 : k # 0 => k - 1 \in 0 .. m
      OBVIOUS
    <3> HIDE DEF B
    <3> QED BY <2>1, <3>1
  <2>3. B = [k \in 0 .. m + 1 |-> IF k = 0 THEN 1 ELSE 2 * B[k - 1]]
    BY <2>2
  <2> QED BY <2>1, <2>3
<1> HIDE DEF Walks
<1>3. bad = {}
  <2>1. SUFFICES ASSUME bad # {} PROVE FALSE
    OBVIOUS
  <2>2. PICK m \in bad : \A k \in bad : m <= k
    BY <2>1, LeastNatural
  <2>3. m # 0
    BY <2>2, <1>1
  <2>4. m - 1 \in Nat /\ m - 1 \notin bad
    BY <2>2, <2>3
  <2>5. m - 1 + 1 = m
    BY <2>2
  <2> QED BY <2>2, <2>4, <2>5, <1>2
<1>4. BITS \in Nat /\ \E C : Walks(C, BITS)
  BY <1>3, BitsTyped
<1> DEFINE B == CHOOSE C : Walks(C, BITS)
<1>5. TwoTo = [k \in 0 .. BITS |-> B[k]]
  BY DEF TwoTo, Walks
<1>6. Walks(B, BITS)
  BY <1>4
<1> HIDE DEF B
<1>7. \A k \in 0 .. BITS : B[k] = IF k = 0 THEN 1 ELSE 2 * B[k - 1]
  BY <1>2, <1>4, <1>6
<1>8. \A k \in 0 .. BITS : TwoTo[k] = B[k]
  BY <1>5
<1>9. 0 \in 0 .. BITS /\ \A k \in 1 .. BITS : k \in 0 .. BITS /\ k # 0 /\ k - 1 \in 0 .. BITS
  BY <1>4
<1> QED BY <1>7, <1>8, <1>9

LEMMA TwoToPositive == \A k \in 0 .. BITS : TwoTo[k] \in Nat \ {0}
<1> DEFINE bad == {k \in Nat : k <= BITS /\ TwoTo[k] \notin Nat \ {0}}
<1>1. bad = {}
  <2>1. SUFFICES ASSUME bad # {} PROVE FALSE
    OBVIOUS
  <2>2. PICK k \in bad : \A j \in bad : k <= j
    BY <2>1, LeastNatural
  <2>3. k # 0
    BY <2>2, TwoToDoubles
  <2>4. k \in 1 .. BITS /\ k - 1 \in Nat /\ k - 1 \notin bad /\ k - 1 <= BITS
    BY <2>2, <2>3, BitsTyped
  <2>5. TwoTo[k] = 2 * TwoTo[k - 1] /\ TwoTo[k - 1] \in Nat \ {0}
    BY <2>4, TwoToDoubles
  <2> QED BY <2>2, <2>5
<1> QED BY <1>1, BitsTyped

LEMMA BitLengthTyped ==
  ASSUME NEW n
  PROVE  BitLength(n) \in 0 .. BITS
<1> DEFINE S == {k \in 0 .. BITS - 1 : TwoTo[k] <= n}
<1>1. IsFiniteSet(0 .. BITS - 1) /\ Cardinality(0 .. BITS - 1) = BITS
  <2>1. 0 \in Int /\ BITS - 1 \in Int
    BY BitsTyped
  <2>2. /\ IsFiniteSet(0 .. BITS - 1)
        /\ Cardinality(0 .. BITS - 1) = IF 0 > BITS - 1 THEN 0 ELSE BITS - 1 - 0 + 1
    BY <2>1, FS_Interval
  <2> QED BY <2>2, BitsTyped
<1>2. IsFiniteSet(S) /\ Cardinality(S) <= Cardinality(0 .. BITS - 1)
  BY <1>1, FS_Subset
<1>3. Cardinality(S) \in Nat
  BY <1>2, FS_CardinalityType
<1> QED BY <1>1, <1>2, <1>3, BitsTyped DEF BitLength

LEMMA TwoToProduct ==
  ASSUME NEW a \in Nat, NEW b \in Nat, a + b <= BITS
  PROVE  TwoTo[a + b] = TwoTo[a] * TwoTo[b]
<1> DEFINE bad == {k \in Nat : a + k <= BITS /\ TwoTo[a + k] # TwoTo[a] * TwoTo[k]}
<1>1. bad = {}
  <2>1. SUFFICES ASSUME bad # {} PROVE FALSE
    OBVIOUS
  <2>2. PICK k \in bad : \A j \in bad : k <= j
    BY <2>1, LeastNatural
  <2>3. k # 0
    <3>1. a \in 0 .. BITS
      BY BitsTyped
    <3>2. TwoTo[a] \in Nat /\ TwoTo[0] = 1
      BY <3>1, TwoToPositive, TwoToDoubles
    <3>3. a + 0 = a
      OBVIOUS
    <3>4. TwoTo[a + 0] = TwoTo[a] * TwoTo[0]
      BY <3>2, <3>3
    <3> QED BY <2>2, <3>4
  <2>4. /\ k - 1 \in Nat /\ k - 1 \notin bad /\ a + (k - 1) <= BITS
        /\ k \in 1 .. BITS /\ a + k \in 1 .. BITS /\ a + k - 1 = a + (k - 1)
        /\ a \in 0 .. BITS /\ k - 1 \in 0 .. BITS
    BY <2>2, <2>3, BitsTyped
  <2>5. TwoTo[a + (k - 1)] = TwoTo[a] * TwoTo[k - 1]
    BY <2>4
  <2>6. TwoTo[k] = 2 * TwoTo[k - 1] /\ TwoTo[a + k] = 2 * TwoTo[a + (k - 1)]
    BY <2>4, TwoToDoubles
  <2>7. TwoTo[a] \in Nat /\ TwoTo[k - 1] \in Nat
    BY <2>4, TwoToPositive
  <2>8. TwoTo[a + k] = TwoTo[a] * TwoTo[k]
    <3> DEFINE x == TwoTo[a]
               y == TwoTo[k - 1]
    <3>1. x \in Nat /\ y \in Nat
      BY <2>7
    <3> HIDE DEF x, y
    <3>2. 2 * (x * y) = x * (2 * y)
      BY <3>1
    <3> QED BY <3>2, <2>5, <2>6 DEF x, y
  <2> QED BY <2>2, <2>8
<1> QED BY <1>1

LEMMA TwoToGrows ==
  ASSUME NEW a \in 0 .. BITS, NEW b \in 0 .. BITS, a <= b
  PROVE  TwoTo[a] <= TwoTo[b]
<1>1. b - a \in Nat /\ a \in Nat /\ a + (b - a) = b /\ b - a \in 0 .. BITS
  BY BitsTyped
<1>2. TwoTo[b] = TwoTo[a] * TwoTo[b - a]
  BY <1>1, TwoToProduct, BitsTyped
<1> DEFINE x == TwoTo[a]
           y == TwoTo[b - a]
<1>3. x \in Nat \ {0} /\ y \in Nat \ {0}
  BY <1>1, TwoToPositive
<1> HIDE DEF x, y
<1>4. x <= x * y
  BY <1>3
<1> QED BY <1>2, <1>4 DEF x, y

(* BitLength is the number of bits: the power below a number and the one     *)
(* above it.                                                                 *)
LEMMA BitLengthBounds ==
  ASSUME NEW n \in Nat, n < TwoTo[BITS], NEW k \in 0 .. BITS - 1, TwoTo[k] <= n
  PROVE  /\ BitLength(n) \in k + 1 .. BITS
         /\ TwoTo[BitLength(n) - 1] <= n /\ n < TwoTo[BitLength(n)]
<1> DEFINE S == {j \in 0 .. BITS - 1 : TwoTo[j] <= n}
           m == Max(S)
<1>1. BITS \in Nat /\ BITS - 1 \in Int
  BY BitsTyped
<1>2. S \in SUBSET Int /\ k \in S /\ \A j \in S : j <= BITS - 1
  BY <1>1
<1>3. m \in S /\ \A j \in S : j <= m
  <2>1. S # {}
    BY <1>2
  <2> HIDE DEF S
  <2> QED BY <1>1, <1>2, <2>1, MaxIsGreatest
<1> HIDE DEF m
<1>4. m \in 0 .. BITS - 1 /\ TwoTo[m] <= n /\ k <= m
  BY <1>2, <1>3
<1>5. S = 0 .. m
  <2>1. ASSUME NEW j \in 0 .. m PROVE j \in S
    <3>1. j \in 0 .. BITS /\ m \in 0 .. BITS /\ j <= m /\ j \in 0 .. BITS - 1
      BY <1>1, <1>4
    <3>2. TwoTo[j] <= TwoTo[m]
      BY <3>1, TwoToGrows
    <3>3. TwoTo[j] \in Nat /\ TwoTo[m] \in Nat
      BY <3>1, TwoToPositive
    <3> QED BY <3>1, <3>2, <3>3, <1>4
  <2>2. ASSUME NEW j \in S PROVE j \in 0 .. m
    BY <1>3
  <2> QED BY <2>1, <2>2
<1>6. Cardinality(0 .. m) = m + 1
  <2>1. 0 \in Int /\ m \in Int /\ ~(0 > m)
    BY <1>4
  <2>2. Cardinality(0 .. m) = IF 0 > m THEN 0 ELSE m - 0 + 1
    BY <2>1, FS_Interval
  <2> QED BY <2>1, <2>2
<1>7. BitLength(n) = m + 1
  BY <1>5, <1>6 DEF BitLength
<1>8. n < TwoTo[m + 1]
  <2>1. CASE m = BITS - 1
    <3>1. m + 1 = BITS
      BY <2>1, <1>1
    <3> QED BY <3>1
  <2>2. CASE m # BITS - 1
    <3>1. m + 1 \in 0 .. BITS - 1 /\ m + 1 \in 0 .. BITS /\ m \in Int
      BY <2>2, <1>1, <1>4
    <3>2. m + 1 \notin S
      BY <1>3, <3>1
    <3>3. ~(TwoTo[m + 1] <= n)
      BY <3>1, <3>2
    <3>4. TwoTo[m + 1] \in Nat
      BY <3>1, TwoToPositive
    <3> QED BY <3>3, <3>4
  <2> QED BY <2>1, <2>2
<1>9. m + 1 \in k + 1 .. BITS /\ m + 1 - 1 = m
  BY <1>1, <1>4
<1> QED BY <1>4, <1>7, <1>8, <1>9

LEMMA DivCeilTyped ==
  ASSUME NEW a \in Nat, NEW b \in Nat \ {0}
  PROVE  DivCeil(a, b) \in Nat /\ (a # 0 => DivCeil(a, b) # 0)
BY DEF DivCeil

RatioStep(R, t) ==
  CASE t = 0 -> ZERO_TICK_SCALED_RATIO
    [] t > 0 -> DivCeil(R[t - 1] * TICK_SPACING, FOUR_DECIMALS)
    [] OTHER -> (R[t + 1] * FOUR_DECIMALS) \div TICK_SPACING

(* The ticks at most m away from zero.                                      *)
Around(m) == {t \in Ticks : -m <= t /\ t <= m}

IsRatios(A) == A = [t \in Ticks |-> RatioStep(A, t)]
Ratios == CHOOSE A : IsRatios(A)

LEMMA RatiosAreChosen == RatioAtTick = [t \in Ticks |-> Ratios[t]]
BY DEF RatioAtTick, Ratios, IsRatios, RatioStep

LEMMA RatioSteps == \A t \in Ticks : RatioAtTick[t] = RatioStep(RatioAtTick, t)
<1> DEFINE Walks(A, m) == A = [t \in Around(m) |-> RatioStep(A, t)]
           bad == {m \in Nat : ~ \E A : Walks(A, m)}
<1>1. \E A : Walks(A, 0)
  <2> DEFINE A == [t \in Around(0) |-> ZERO_TICK_SCALED_RATIO]
  <2>1. \A t \in Around(0) : t = 0
    BY TickRange DEF Around
  <2>2. \A t \in Around(0) : RatioStep(A, t) = ZERO_TICK_SCALED_RATIO
    BY <2>1 DEF RatioStep
  <2> QED BY <2>2
<1>2. ASSUME NEW m \in Nat, NEW A, Walks(A, m)
      PROVE  /\ \A t \in Around(m) : A[t] = RatioStep(A, t)
             /\ \E B : Walks(B, m + 1)
  <2> DEFINE B == [t \in Around(m + 1) |-> RatioStep(A, t)]
             R == [t \in Around(m) |-> RatioStep(A, t)]
  <2>1. Around(m) \subseteq Around(m + 1)
    <3>1. \A t \in Around(m) : t \in Int /\ t \in Ticks /\ -m <= t /\ t <= m
      BY TickRange DEF Around
    <3>2. \A t \in Around(m) : -(m + 1) <= t /\ t <= m + 1
      BY <3>1
    <3> QED BY <3>1, <3>2 DEF Around
  <2>2. ASSUME NEW t \in Around(m)
        PROVE  A[t] = RatioStep(A, t) /\ B[t] = A[t]
    <3>1. A = R
      BY <1>2
    <3>2. R[t] = RatioStep(A, t)
      OBVIOUS
    <3>3. B[t] = RatioStep(A, t)
      BY <2>1
    <3> HIDE DEF R, B
    <3> QED BY <3>1, <3>2, <3>3
  <2>3. ASSUME NEW t \in Around(m + 1)
        PROVE  RatioStep(B, t) = RatioStep(A, t)
    <3> HIDE DEF B
    <3>1. t \in Int /\ MIN_TICK <= t /\ t <= MAX_TICK /\ -(m + 1) <= t /\ t <= m + 1
      BY DEF Around, Ticks
    <3>2. CASE t = 0
      BY <3>2 DEF RatioStep
    <3>3. CASE t > 0
      <4>1. t - 1 \in Around(m)
        BY <3>1, <3>3, TickAssumption DEF Around, Ticks
      <4> QED BY <4>1, <3>1, <3>3, <2>2 DEF RatioStep
    <3>4. CASE t < 0
      <4>1. t + 1 \in Around(m)
        BY <3>1, <3>4, TickAssumption DEF Around, Ticks
      <4> QED BY <4>1, <3>1, <3>4, <2>2 DEF RatioStep
    <3> QED BY <3>1, <3>2, <3>3, <3>4
  <2>4. B = [t \in Around(m + 1) |-> RatioStep(B, t)]
    <3>1. [t \in Around(m + 1) |-> RatioStep(B, t)] = [t \in Around(m + 1) |-> RatioStep(A, t)]
      <4> HIDE DEF B
      <4> QED BY <2>3, Zenon
    <3> QED BY <3>1
  <2> QED BY <2>2, <2>4
<1> HIDE DEF Walks
<1>3. bad = {}
  <2>1. SUFFICES ASSUME bad # {} PROVE FALSE
    OBVIOUS
  <2>2. PICK m \in bad : \A k \in bad : m <= k
    BY <2>1, LeastNatural
  <2>3. m # 0
    BY <2>2, <1>1
  <2>4. m - 1 \in Nat /\ m - 1 \notin bad
    BY <2>2, <2>3
  <2>5. m - 1 + 1 = m
    BY <2>2
  <2> QED BY <2>2, <2>4, <2>5, <1>2
<1>4. PICK m \in Nat : Ticks = Around(m)
  <2>1. MIN_TICK \in Int /\ MAX_TICK \in Int /\ MIN_TICK <= 0 /\ 0 <= MAX_TICK
    BY TickAssumption
  <2>2. MAX_TICK - MIN_TICK \in Nat /\ Ticks = Around(MAX_TICK - MIN_TICK)
    BY <2>1 DEF Around, Ticks
  <2> QED BY <2>2
<1>5. \E C : Walks(C, m)
  BY <1>3
<1>6. \E C : IsRatios(C)
  <2>1. PICK C : C = [t \in Around(m) |-> RatioStep(C, t)]
    BY <1>5 DEF Walks
  <2> QED BY <2>1, <1>4 DEF IsRatios
<1> DEFINE B == Ratios
<1>7. IsRatios(B)
  BY <1>6, Zenon DEF Ratios
<1> HIDE DEF B
<1>8. \A t \in Ticks : B[t] = RatioStep(B, t)
  <2> DEFINE R == [t \in Ticks |-> RatioStep(B, t)]
  <2>1. B = R
    BY <1>7 DEF IsRatios
  <2>2. \A t \in Ticks : R[t] = RatioStep(B, t)
    OBVIOUS
  <2> HIDE DEF R
  <2> QED BY <2>1, <2>2
<1>9. \A t \in Ticks : RatioAtTick[t] = B[t]
  BY RatiosAreChosen DEF B
<1>10. ASSUME NEW t \in Ticks
       PROVE  RatioStep(RatioAtTick, t) = RatioStep(B, t)
  <2>1. t \in Int /\ MIN_TICK <= t /\ t <= MAX_TICK
    BY TickRange DEF Ticks
  <2>2. t > 0 => t - 1 \in Ticks
    BY <2>1, TickAssumption DEF Ticks
  <2>3. t < 0 => t + 1 \in Ticks
    BY <2>1, TickAssumption DEF Ticks
  <2> QED BY <2>1, <2>2, <2>3, <1>9 DEF RatioStep
<1> QED BY <1>8, <1>9, <1>10

LEMMA TickConstants ==
  /\ MIN_TICK \in Int /\ MAX_TICK \in Int /\ MIN_TICK <= 0 /\ 0 <= MAX_TICK
  /\ ZERO_TICK_SCALED_RATIO \in Nat \ {0} /\ FOUR_DECIMALS \in Nat \ {0}
  /\ TICK_SPACING \in Nat \ {0} /\ FOUR_DECIMALS < TICK_SPACING /\ X30 \in Nat \ {0, 1}
BY TickAssumption

LEMMA QuotientNatural ==
  ASSUME NEW a \in Nat, NEW b \in Nat \ {0}
  PROVE  a \div b \in Nat
OBVIOUS

LEMMA QuotientBelow ==
  ASSUME NEW a \in Nat, NEW b \in Nat \ {0}, NEW q, q = a \div b
  PROVE  q \in Nat /\ b * q <= a /\ a < b * q + b
<1>1. a = b * (a \div b) + (a % b) /\ a % b \in 0 .. b - 1 /\ a \div b \in Nat
  BY QuotientAndRest
<1>2. b * q \in Nat
  BY <1>1
<1> QED BY <1>1, <1>2

LEMMA RatioPositive ==
  ASSUME NEW t \in Ticks
  PROVE  RatioAtTick[t] \in Nat \ {0} /\ OneTickLess(RatioAtTick[t]) \in Nat \ {0}
<1> DEFINE bad == {m \in Nat : \E u \in Ticks : (u = m \/ u = -m) /\ RatioAtTick[u] \notin Nat}
<1>1. ASSUME NEW u \in Ticks, u > 0 => RatioAtTick[u - 1] \in Nat,
             u < 0 => RatioAtTick[u + 1] \in Nat
      PROVE  RatioAtTick[u] \in Nat
  <2>1. RatioAtTick[u] = RatioStep(RatioAtTick, u) /\ u \in Int
    BY RatioSteps, TickRange
  <2>2. CASE u = 0
    BY <2>1, <2>2, TickConstants DEF RatioStep
  <2>3. CASE u > 0
    <3>1. RatioAtTick[u - 1] * TICK_SPACING \in Nat
      BY <1>1, <2>3, TickConstants
    <3> QED BY <2>1, <2>3, <3>1, TickConstants, DivCeilTyped DEF RatioStep
  <2>4. CASE u < 0
    <3>1. RatioAtTick[u + 1] * FOUR_DECIMALS \in Nat
      BY <1>1, <2>4, TickConstants
    <3> QED BY <2>1, <2>4, <3>1, TickConstants, QuotientNatural DEF RatioStep
  <2> QED BY <2>1, <2>2, <2>3, <2>4
<1>2. bad = {}
  <2>1. SUFFICES ASSUME bad # {} PROVE FALSE
    OBVIOUS
  <2>2. PICK m \in bad : \A k \in bad : m <= k
    BY <2>1, LeastNatural
  <2>3. PICK u \in Ticks : (u = m \/ u = -m) /\ RatioAtTick[u] \notin Nat
    BY <2>2
  <2>4. u \in Int /\ MIN_TICK <= u /\ u <= MAX_TICK /\ m \in Nat
    BY TickRange DEF Ticks
  <2>5. CASE u > 0
    <3>1. u - 1 \in Ticks /\ m - 1 \in Nat /\ m - 1 \notin bad /\ u - 1 = m - 1
      BY <2>2, <2>3, <2>4, <2>5, TickConstants DEF Ticks
    <3>2. RatioAtTick[u - 1] \in Nat
      BY <3>1
    <3> QED BY <2>3, <2>4, <2>5, <3>2, <1>1
  <2>6. CASE u < 0
    <3>1. u + 1 \in Ticks /\ m - 1 \in Nat /\ m - 1 \notin bad /\ u + 1 = -(m - 1)
      BY <2>2, <2>3, <2>4, <2>6, TickConstants DEF Ticks
    <3>2. RatioAtTick[u + 1] \in Nat
      BY <3>1
    <3> QED BY <2>3, <2>4, <2>6, <3>2, <1>1
  <2>7. CASE u = 0
    BY <2>3, <2>7, <1>1
  <2> QED BY <2>4, <2>5, <2>6, <2>7
<1>3. RatioAtTick[t] \in Nat
  <2>1. t \in Int
    BY TickRange
  <2>2. CASE t >= 0
    BY <2>1, <2>2, <1>2
  <2>3. CASE t < 0
    <3>1. -t \in Nat /\ t = -(-t)
      BY <2>1, <2>3
    <3> QED BY <3>1, <1>2
  <2> QED BY <2>1, <2>2, <2>3
<1> DEFINE r    == RatioAtTick[t]
           less == OneTickLess(r)
<1>4. less * (TICK_SPACING - FOUR_DECIMALS) >= FOUR_DECIMALS
  BY RatioAssumption
<1>5. less \in Nat /\ (r = 0 => less = 0)
  <2> HIDE DEF r
  <2>1. r \in Nat /\ r * FOUR_DECIMALS \in Nat /\ (r = 0 => r * FOUR_DECIMALS = 0)
    BY <1>3, TickConstants DEF r
  <2> QED BY <2>1, TickConstants, QuotientNatural DEF OneTickLess
<1> HIDE DEF less, r
<1>6. less # 0
  <2>1. 0 * (TICK_SPACING - FOUR_DECIMALS) = 0
    BY TickConstants
  <2> QED BY <1>4, <2>1, TickConstants
<1> QED BY <1>3, <1>5, <1>6 DEF r, less

LEMMA OneTickLessBelow ==
  ASSUME NEW r \in Nat
  PROVE  OneTickLess(r) \in Nat /\ OneTickLess(r) <= r
<1> DEFINE a == r * FOUR_DECIMALS
           q == a \div TICK_SPACING
<1>1. a \in Nat /\ a <= r * TICK_SPACING
  BY TickConstants
<1>2. q \in Nat /\ TICK_SPACING * q <= a
  <2>1. a \in Nat /\ q = a \div TICK_SPACING
    BY <1>1
  <2> HIDE DEF q, a
  <2> QED BY <2>1, TickConstants, QuotientBelow
<1>3. q <= r
  <2> HIDE DEF q
  <2>1. TICK_SPACING * q <= TICK_SPACING * r
    BY <1>1, <1>2, TickConstants
  <2> QED BY <2>1, <1>2, TickConstants
<1> QED BY <1>2, <1>3 DEF OneTickLess

LEMMA PartialsRatioPositive ==
  ASSUME NEW t \in Ticks, NEW partials \in Nat
  PROVE  PartialsRatio(t, partials) \in Nat \ {0}
<1> DEFINE r    == RatioAtTick[t]
           less == OneTickLess(r)
<1>1. r \in Nat \ {0} /\ less \in Nat \ {0}
  BY RatioPositive
<1>2. less <= r
  BY <1>1, OneTickLessBelow
<1> HIDE DEF less, r
<1>3. (r - less) * partials \in Nat
  BY <1>1, <1>2
<1>4. ((r - less) * partials) \div X30 \in Nat
  BY <1>3, TickConstants, QuotientNatural
<1>5. less + ((r - less) * partials) \div X30 \in Nat \ {0}
  BY <1>1, <1>4
<1> QED BY <1>5 DEF PartialsRatio, r, less

(* A whole tick lies above the one below it.                                *)
LEMMA RatioRises ==
  ASSUME NEW t \in Ticks
  PROVE  LET r  == RatioAtTick[t]
             up == (r * TICK_SPACING) \div FOUR_DECIMALS
         IN  r \in Nat /\ up \in Nat /\ r < up
<1> DEFINE r  == RatioAtTick[t]
           up == (r * TICK_SPACING) \div FOUR_DECIMALS
           less == OneTickLess(r)
           d == TICK_SPACING - FOUR_DECIMALS
<1>1. r \in Nat /\ less \in Nat /\ less <= r /\ d \in Nat /\ less * d >= FOUR_DECIMALS
  BY RatioPositive, OneTickLessBelow, TickConstants, RatioAssumption
<1> HIDE DEF r, less
<1>2. r * d >= FOUR_DECIMALS
  <2> HIDE DEF d
  <2>1. less * d <= r * d
    BY <1>1
  <2> QED BY <2>1, <1>1, TickConstants
<1>3. r * TICK_SPACING >= FOUR_DECIMALS * r + FOUR_DECIMALS
  <2>1. r * d = r * TICK_SPACING - FOUR_DECIMALS * r
    BY <1>1, TickConstants
  <2> QED BY <2>1, <1>1, <1>2, TickConstants
<1>4. up \in Nat /\ r * TICK_SPACING < FOUR_DECIMALS * up + FOUR_DECIMALS
  <2> DEFINE a == r * TICK_SPACING
  <2>1. a \in Nat /\ up = a \div FOUR_DECIMALS
    BY <1>1, TickConstants
  <2> HIDE DEF up, a
  <2>2. up \in Nat /\ a < FOUR_DECIMALS * up + FOUR_DECIMALS
    BY <2>1, TickConstants, QuotientBelow
  <2> QED BY <2>2 DEF a
<1> HIDE DEF up
<1>5. FOUR_DECIMALS * r < FOUR_DECIMALS * up
  BY <1>1, <1>3, <1>4, TickConstants
<1>6. r < up
  BY <1>1, <1>4, <1>5, TickConstants
<1> QED BY <1>1, <1>4, <1>6 DEF r, up

-----------------------------------------------------------------------------
(* The amounts of a store, and the debt it holds.                           *)

FactorOK(f) == f.coefficient \in Nat /\ f.exponent \in Int

TickBooked(tick) ==
  /\ tick.raw_debt \in Nat
  /\ tick.is_liquidated \/ tick.total_ids = 0 => tick.raw_debt = 0
  /\ tick.liquidation.factor \in BigNumbers
BranchBooked(b) == b.debt \in Nat /\ b.partials \in 0 .. X30 - 1 /\ b.factor \in BigNumbers
VaultBooked(v) == v.absorbed_debt \in Nat /\ v.absorbed_dust \in Nat /\ v.borrow \in Nat

Booked(s) ==
  /\ VaultBooked(s.vault)
  /\ \A t \in Ticks : TickBooked(s.ticks[t])
  /\ \A b \in BranchIds : BranchBooked(s.branches[b])
  /\ \A r \in Records : s.tick_ids[r].factor \in BigNumbers

Lent(b) == IF b.status = "liquidated" THEN b.debt ELSE 0
RawSum(s) == SumFunction(RawDebts(s))
LentSum(s) == SumFunction(BranchDebts(s))

LEMMA FiniteDomains ==
  /\ IsFiniteSet(Ticks) /\ IsFiniteSet(BranchIds) /\ IsFiniteSet(PositionIds)
<1>1. /\ MIN_TICK \in Int /\ MAX_TICK \in Int /\ 1 \in Int /\ MaxBranches \in Int
      /\ MaxPositions \in Int
  BY TickAssumption, StoreAssumption, VaultAssumption
<1> QED BY <1>1, FS_Interval DEF Ticks, BranchIds, PositionIds

LEMMA HeldIsSum ==
  ASSUME NEW s
  PROVE  /\ DebtHeld(s) = s.vault.absorbed_debt + RawSum(s) + LentSum(s)
         /\ RawSum(s) = SumFunctionOnSet(RawDebts(s), Ticks)
         /\ LentSum(s) = SumFunctionOnSet(BranchDebts(s), BranchIds)
         /\ \A t \in Ticks : RawDebts(s)[t] = s.ticks[t].raw_debt
         /\ \A b \in BranchIds : BranchDebts(s)[b] = Lent(s.branches[b])
<1>1. DOMAIN RawDebts(s) = Ticks /\ DOMAIN BranchDebts(s) = BranchIds
  BY DEF RawDebts, BranchDebts
<1>2. DebtHeld(s) = s.vault.absorbed_debt + RawSum(s) + LentSum(s)
  BY DEF DebtHeld, RawSum, LentSum
<1>3. /\ RawSum(s) = SumFunctionOnSet(RawDebts(s), Ticks)
      /\ LentSum(s) = SumFunctionOnSet(BranchDebts(s), BranchIds)
  BY <1>1, SumOfFunction DEF RawSum, LentSum
<1>4. /\ \A t \in Ticks : RawDebts(s)[t] = s.ticks[t].raw_debt
      /\ \A b \in BranchIds : BranchDebts(s)[b] = Lent(s.branches[b])
  BY DEF RawDebts, BranchDebts, Lent
<1> QED BY <1>2, <1>3, <1>4

LEMMA BookedCounts ==
  ASSUME NEW s, Booked(s)
  PROVE  /\ Counted(RawDebts(s), Ticks) /\ Counted(BranchDebts(s), BranchIds)
         /\ \A b \in BranchIds : Lent(s.branches[b]) \in Nat
<1>1. \A t \in Ticks : s.ticks[t].raw_debt \in Nat
  BY DEF Booked, TickBooked
<1>2. \A b \in BranchIds : Lent(s.branches[b]) \in Nat
  BY DEF Booked, BranchBooked, Lent
<1>3. /\ \A t \in Ticks : RawDebts(s)[t] \in Nat
      /\ \A b \in BranchIds : BranchDebts(s)[b] \in Nat
  BY <1>1, <1>2, HeldIsSum
<1> QED BY <1>2, <1>3 DEF Counted

LEMMA HeldTyped ==
  ASSUME NEW s, Booked(s)
  PROVE  RawSum(s) \in Nat /\ LentSum(s) \in Nat /\ DebtHeld(s) \in Nat
<1>1. RawSum(s) \in Nat /\ LentSum(s) \in Nat
  BY BookedCounts, FiniteDomains, HeldIsSum, SumNatural
<1>2. s.vault.absorbed_debt \in Nat
  BY DEF Booked, VaultBooked
<1> QED BY <1>1, <1>2, HeldIsSum

LEMMA RawSame ==
  ASSUME NEW s, NEW r, \A t \in Ticks : r.ticks[t].raw_debt = s.ticks[t].raw_debt
  PROVE  RawSum(r) = RawSum(s)
<1>1. RawDebts(r) = RawDebts(s)
  BY DEF RawDebts
<1> QED BY <1>1 DEF RawSum

LEMMA LentSame ==
  ASSUME NEW s, NEW r, \A b \in BranchIds : Lent(r.branches[b]) = Lent(s.branches[b])
  PROVE  LentSum(r) = LentSum(s)
<1>1. BranchDebts(r) = BranchDebts(s)
  BY DEF BranchDebts, Lent
<1> QED BY <1>1 DEF LentSum

OtherRaws(s, r, x) == \A t \in Ticks : t # x => r.ticks[t].raw_debt = s.ticks[t].raw_debt
OtherLent(s, r, x) ==
  \A b \in BranchIds : b # x => Lent(r.branches[b]) = Lent(s.branches[b])

LEMMA RawChanged ==
  ASSUME NEW s, NEW r, Booked(s), NEW x \in Ticks, r.ticks[x].raw_debt \in Nat,
         OtherRaws(s, r, x)
  PROVE  /\ RawSum(r) = RawSum(s) - s.ticks[x].raw_debt + r.ticks[x].raw_debt
         /\ RawSum(r) \in Nat /\ RawSum(s) \in Nat
<1>1. Counted(RawDebts(s), Ticks) /\ IsFiniteSet(Ticks)
  BY BookedCounts, FiniteDomains
<1>2. /\ RawDebts(r)[x] \in Nat
      /\ \A t \in Ticks : t # x => RawDebts(r)[t] = RawDebts(s)[t]
  BY HeldIsSum DEF OtherRaws
<1> DEFINE f == RawDebts(s)
           g == RawDebts(r)
<1> HIDE DEF f, g
<1>3. /\ SumFunctionOnSet(g, Ticks) = SumFunctionOnSet(f, Ticks) - f[x] + g[x]
      /\ SumFunctionOnSet(f, Ticks) \in Nat /\ SumFunctionOnSet(g, Ticks) \in Nat
  BY <1>1, <1>2, SumChanged DEF f, g
<1> QED BY <1>3, HeldIsSum DEF f, g

LEMMA LentChanged ==
  ASSUME NEW s, NEW r, Booked(s), NEW x \in BranchIds, Lent(r.branches[x]) \in Nat,
         OtherLent(s, r, x)
  PROVE  /\ LentSum(r) = LentSum(s) - Lent(s.branches[x]) + Lent(r.branches[x])
         /\ LentSum(r) \in Nat /\ LentSum(s) \in Nat
<1>1. Counted(BranchDebts(s), BranchIds) /\ IsFiniteSet(BranchIds)
  BY BookedCounts, FiniteDomains
<1>2. /\ BranchDebts(r)[x] \in Nat
      /\ \A b \in BranchIds : b # x => BranchDebts(r)[b] = BranchDebts(s)[b]
  BY HeldIsSum DEF OtherLent
<1> DEFINE f == BranchDebts(s)
           g == BranchDebts(r)
<1> HIDE DEF f, g
<1>3. /\ SumFunctionOnSet(g, BranchIds) = SumFunctionOnSet(f, BranchIds) - f[x] + g[x]
      /\ SumFunctionOnSet(f, BranchIds) \in Nat /\ SumFunctionOnSet(g, BranchIds) \in Nat
  BY <1>1, <1>2, SumChanged DEF f, g
<1> QED BY <1>3, HeldIsSum DEF f, g

(* Branches that were never liquidated may be opened or given back.          *)
Vacant(b) == b.status = "not_liquidated" /\ BranchBooked(b)
SameBooks(s, r) ==
  /\ r.ticks = s.ticks /\ r.tick_ids = s.tick_ids
  /\ r.vault.absorbed_debt = s.vault.absorbed_debt
  /\ r.vault.absorbed_dust = s.vault.absorbed_dust /\ r.vault.borrow = s.vault.borrow
  /\ \A b \in BranchIds : \/ r.branches[b] = s.branches[b]
                          \/ Vacant(r.branches[b]) /\ s.branches[b].status = "not_liquidated"

LEMMA BigZeroOK == BigZero \in BigNumbers /\ 0 \in 0 .. X30 - 1
BY TickAssumption DEF BigNumbers

LEMMA SameBooksKept ==
  ASSUME NEW s, Booked(s), NEW r, SameBooks(s, r)
  PROVE  Booked(r) /\ DebtHeld(r) = DebtHeld(s)
<1>1. \A b \in BranchIds : Lent(r.branches[b]) = Lent(s.branches[b])
  BY DEF SameBooks, Vacant, Lent
<1>2. LentSum(r) = LentSum(s) /\ RawSum(r) = RawSum(s)
  BY <1>1, LentSame, RawSame DEF SameBooks
<1>3. Booked(r)
  BY DEF Booked, SameBooks, Vacant, VaultBooked
<1> QED BY <1>2, <1>3, HeldIsSum DEF SameBooks

-----------------------------------------------------------------------------
(* operate: what a position takes out of its tick or branch.                *)

LEMMA DebtConstants ==
  /\ MINIMUM_TICK_DEBT \in Nat \ {0} /\ MINIMUM_BRANCH_DEBT \in Nat /\ MIN_DEBT \in Nat
  /\ BILLION \in Nat \ {0} /\ EXCHANGE_PRICES_PRECISION \in Nat \ {0}
  /\ supply_ex_price \in Nat \ {0} /\ borrow_ex_price \in Nat \ {0}
  /\ RATE_PRECISION \in Nat \ {0} /\ THREE_DECIMALS \in Nat \ {0}
  /\ liquidation_penalty \in Nat /\ borrow_fee \in Nat
BY ScaleAssumption

LEMMA VacantEmpty == Vacant(EmptyBranch)
BY BigZeroOK DEF Vacant, EmptyBranch, BranchBooked

LEMMA SetTopTickBooks ==
  ASSUME NEW s, Linked(s), ~s.vault.liquidated
  PROVE  SameBooks(s, SetTopTick(s))
<1> DEFINE r    == SetTopTick(s)
           id   == s.vault.current
           cur  == s.branches[id]
           cut  == ClearBits(s.bits, s.vault.top)
           next == NextTickFrom(cut, PlaceOf(s.vault.top))
<1>1. /\ HasFields(s, StoreFields) /\ HasFields(s.vault, VaultFields)
      /\ BranchesShaped(s.branches) /\ cur.status = "not_liquidated"
  BY DEF Linked, Shape, TopLinked
<1> HIDE DEF cut, next
<1>2. CASE cur.connected_minima_tick <= next
  <2>1. r = [s EXCEPT !.bits = cut, !.vault.top = next, !.vault.liquidated = FALSE]
    BY <1>2 DEF SetTopTick, cut, next
  <2> HIDE DEF r
  <2>2. /\ r.ticks = s.ticks /\ r.tick_ids = s.tick_ids /\ r.branches = s.branches
        /\ r.vault = [s.vault EXCEPT !.top = next, !.liquidated = FALSE]
    BY <1>1, <2>1 DEF HasFields, StoreFields
  <2>3. /\ r.vault.absorbed_debt = s.vault.absorbed_debt
        /\ r.vault.absorbed_dust = s.vault.absorbed_dust /\ r.vault.borrow = s.vault.borrow
    BY <1>1, <2>2 DEF HasFields, VaultFields
  <2> QED BY <2>2, <2>3 DEF SameBooks, r
<1>3. CASE ~(cur.connected_minima_tick <= next)
  <2>1. r = [s EXCEPT !.bits = cut, !.branches[id] = EmptyBranch,
                      !.vault.liquidated = TRUE, !.vault.top = cur.connected_minima_tick,
                      !.vault.current = cur.connected, !.vault.total = id - 1]
    BY <1>3 DEF SetTopTick, cut, next
  <2> HIDE DEF r
  <2>2. /\ r.ticks = s.ticks /\ r.tick_ids = s.tick_ids
        /\ r.branches = [s.branches EXCEPT ![id] = EmptyBranch]
        /\ r.vault = [s.vault EXCEPT !.liquidated = TRUE, !.top = cur.connected_minima_tick,
                                     !.current = cur.connected, !.total = id - 1]
    BY <1>1, <2>1 DEF HasFields, StoreFields
  <2>3. /\ r.vault.absorbed_debt = s.vault.absorbed_debt
        /\ r.vault.absorbed_dust = s.vault.absorbed_dust /\ r.vault.borrow = s.vault.borrow
    BY <1>1, <2>2 DEF HasFields, VaultFields
  <2>4. \A b \in BranchIds : r.branches[b] = IF b = id THEN EmptyBranch ELSE s.branches[b]
    BY <1>1, <2>2 DEF BranchesShaped
  <2>5. \A b \in BranchIds : \/ r.branches[b] = s.branches[b]
                             \/ Vacant(r.branches[b]) /\ s.branches[b].status = "not_liquidated"
    BY <1>1, <2>4, VacantEmpty
  <2> QED BY <2>2, <2>3, <2>5 DEF SameBooks, r
<1> QED BY <1>2, <1>3

(* A tick gets another debt, which must be none where it was liquidated.     *)
MayHold(tick, x) == x = 0 \/ (~tick.is_liquidated /\ tick.total_ids # 0)
RawWritten(s, r, t, x) ==
  /\ r.vault = s.vault /\ r.ticks = [s.ticks EXCEPT ![t].raw_debt = x]
  /\ r.tick_ids = s.tick_ids /\ r.branches = s.branches

LEMMA RawDebtBooks ==
  ASSUME NEW s, Linked(s), Booked(s), NEW t \in Ticks, NEW x \in Nat,
         MayHold(s.ticks[t], x), NEW r, RawWritten(s, r, t, x)
  PROVE  /\ Booked(r) /\ r.vault = s.vault
         /\ DebtHeld(r) = DebtHeld(s) - s.ticks[t].raw_debt + x
<1> DEFINE ts == [s.ticks EXCEPT ![t].raw_debt = x]
<1>1. TicksShaped(s.ticks)
  BY DEF Linked, Shape
<1>2. /\ r.vault = s.vault /\ r.ticks = ts /\ r.tick_ids = s.tick_ids
      /\ r.branches = s.branches
  BY DEF RawWritten
<1>3. /\ HasFields(s.ticks[t], TickFields)
      /\ ts[t] = [s.ticks[t] EXCEPT !.raw_debt = x]
      /\ \A u \in Ticks : u # t => ts[u] = s.ticks[u]
  BY <1>1 DEF TicksShaped
<1> HIDE DEF ts
<1>4. /\ ts[t].raw_debt = x /\ ts[t].is_liquidated = s.ticks[t].is_liquidated
      /\ ts[t].total_ids = s.ticks[t].total_ids /\ ts[t].liquidation = s.ticks[t].liquidation
  BY <1>3 DEF HasFields, TickFields
<1>5. Booked(r)
  <2>1. ASSUME NEW u \in Ticks PROVE TickBooked(ts[u])
    <3>1. CASE u = t
      BY <1>4, <3>1 DEF Booked, TickBooked, MayHold
    <3>2. CASE u # t
      BY <1>3, <3>2 DEF Booked
    <3> QED BY <3>1, <3>2
  <2> QED BY <1>2, <2>1 DEF Booked
<1>6. RawSum(r) = RawSum(s) - s.ticks[t].raw_debt + x /\ RawSum(r) \in Nat /\ RawSum(s) \in Nat
  <2>1. r.ticks[t].raw_debt = x /\ OtherRaws(s, r, t)
    BY <1>2, <1>3, <1>4 DEF OtherRaws
  <2> QED BY <2>1, RawChanged
<1>7. LentSum(r) = LentSum(s) /\ LentSum(s) \in Nat
  BY <1>2, LentSame, HeldTyped
<1>8. s.vault.absorbed_debt \in Nat /\ s.ticks[t].raw_debt \in Nat
  BY DEF Booked, VaultBooked, TickBooked
<1>9. /\ DebtHeld(r) = s.vault.absorbed_debt + RawSum(r) + LentSum(r)
      /\ DebtHeld(s) = s.vault.absorbed_debt + RawSum(s) + LentSum(s)
  BY <1>2, HeldIsSum
<1> QED BY <1>2, <1>5, <1>6, <1>7, <1>8, <1>9

(* What leaves a tick is the debt of the position, and a rest below the      *)
(* minimum.                                                                 *)
LEMMA LeaveTickBooks ==
  ASSUME NEW s, Linked(s), Bare(s), Booked(s), NEW m, m.tick \in Ticks, m.debt \in Nat,
         s.ticks[m.tick].raw_debt # 0, ~s.ticks[m.tick].is_liquidated
  PROVE  LET r == LeaveTick(s, m)
         IN  /\ Booked(r) /\ r.vault.absorbed_dust = s.vault.absorbed_dust
             /\ r.vault.borrow = s.vault.borrow
             /\ DebtHeld(r) + m.debt + (MINIMUM_TICK_DEBT - 1) >= DebtHeld(s)
<1> DEFINE raw  == s.ticks[m.tick].raw_debt
           rest == SaturatingSub(raw, m.debt)
           top  == IF m.tick = s.vault.top THEN SetTopTick(s) ELSE s
           r    == LeaveTick(s, m)
<1>1. /\ raw \in Nat /\ raw # 0 /\ s.ticks[m.tick].total_ids # 0
      /\ rest \in Nat /\ ((rest = 0 /\ raw <= m.debt) \/ rest = raw - m.debt)
  BY DEF Booked, TickBooked, SaturatingSub
<1>2. /\ Linked(top) /\ Booked(top) /\ top.ticks = s.ticks /\ DebtHeld(top) = DebtHeld(s)
      /\ top.vault.absorbed_dust = s.vault.absorbed_dust /\ top.vault.borrow = s.vault.borrow
  <2>1. CASE m.tick = s.vault.top
    <3>1. ~s.vault.liquidated /\ s.vault.top \in Ticks
      BY <2>1 DEF Bare
    <3>2. SameBooks(s, SetTopTick(s)) /\ Linked(SetTopTick(s))
      BY <3>1, SetTopTickBooks, SetTopTickLinked
    <3>3. Booked(SetTopTick(s)) /\ DebtHeld(SetTopTick(s)) = DebtHeld(s)
      BY <3>2, SameBooksKept
    <3> QED BY <2>1, <3>2, <3>3 DEF SameBooks
  <2>2. CASE m.tick # s.vault.top
    BY <2>2
  <2> QED BY <2>1, <2>2
<1>3. CASE rest >= MINIMUM_TICK_DEBT
  <2>1. r = [s EXCEPT !.ticks[m.tick].raw_debt = rest]
    BY <1>3 DEF LeaveTick
  <2> HIDE DEF r, rest
  <2>2. /\ Booked(r) /\ r.vault = s.vault
        /\ DebtHeld(r) = DebtHeld(s) - s.ticks[m.tick].raw_debt + rest
    <3>1. HasFields(s, StoreFields)
      BY DEF Linked, Shape
    <3>2. RawWritten(s, r, m.tick, rest)
      BY <2>1, <3>1 DEF HasFields, StoreFields, RawWritten
    <3>3. MayHold(s.ticks[m.tick], rest)
      BY <1>1 DEF MayHold
    <3> QED BY <1>1, <3>2, <3>3, RawDebtBooks
  <2>3. rest = raw - m.debt
    BY <1>1, <1>3, DebtConstants
  <2> QED BY <1>1, <2>2, <2>3, HeldTyped, DebtConstants DEF r
<1>4. CASE ~(rest >= MINIMUM_TICK_DEBT)
  <2>1. r = [top EXCEPT !.ticks[m.tick].raw_debt = 0, !.bits = ClearBit(@, m.tick)]
    BY <1>4 DEF LeaveTick
  <2> HIDE DEF r, rest, top
  <2>2. RawWritten(top, r, m.tick, 0) /\ MayHold(top.ticks[m.tick], 0)
    <3>1. HasFields(top, StoreFields)
      BY <1>2 DEF Linked, Shape
    <3> QED BY <2>1, <3>1 DEF HasFields, StoreFields, RawWritten, MayHold
  <2>3. /\ Booked(r) /\ r.vault = top.vault
        /\ DebtHeld(r) = DebtHeld(top) - top.ticks[m.tick].raw_debt + 0
    BY <1>2, <2>2, RawDebtBooks
  <2>4. raw <= m.debt + (MINIMUM_TICK_DEBT - 1)
    BY <1>1, <1>4, DebtConstants
  <2> QED BY <1>1, <1>2, <2>3, <2>4, HeldTyped, DebtConstants DEF r
<1> QED BY <1>3, <1>4

LEMMA LeaveBranchBooks ==
  ASSUME NEW s, Linked(s), Booked(s), NEW branch \in BranchIds, NEW debt \in Nat
  PROVE  LET r == LeaveBranch(s, branch, debt)
         IN  /\ Booked(r) /\ r.vault = s.vault /\ DebtHeld(r) + debt >= DebtHeld(s)
<1> DEFINE r    == LeaveBranch(s, branch, debt)
           old  == s.branches[branch]
           left == IF debt + MINIMUM_BRANCH_DEBT > old.debt
                   THEN MINIMUM_BRANCH_DEBT ELSE old.debt - debt
<1>1. HasFields(s, StoreFields) /\ BranchesShaped(s.branches) /\ HasFields(old, BranchFields)
  BY DEF Linked, Shape, BranchesShaped
<1>2. old.debt \in Nat /\ left \in Nat /\ left + debt >= old.debt
  BY DebtConstants DEF Booked, BranchBooked
<1>3. r = [s EXCEPT !.branches[branch].debt = left]
  BY DEF LeaveBranch
<1> HIDE DEF r, left
<1>4. /\ r.branches = [s.branches EXCEPT ![branch].debt = left]
      /\ r.vault = s.vault /\ r.ticks = s.ticks /\ r.tick_ids = s.tick_ids
  BY <1>1, <1>3 DEF HasFields, StoreFields
<1>5. /\ r.branches[branch] = [old EXCEPT !.debt = left]
      /\ \A b \in BranchIds : b # branch => r.branches[b] = s.branches[b]
  BY <1>1, <1>4 DEF BranchesShaped
<1> HIDE DEF old
<1>6. /\ r.branches[branch].status = old.status /\ r.branches[branch].debt = left
      /\ r.branches[branch].partials = old.partials /\ r.branches[branch].factor = old.factor
  BY <1>1, <1>5 DEF HasFields, BranchFields
<1>7. Booked(r)
  <2>1. ASSUME NEW b \in BranchIds PROVE BranchBooked(r.branches[b])
    <3>1. CASE b = branch
      BY <1>2, <1>6, <3>1 DEF Booked, BranchBooked, old
    <3>2. CASE b # branch
      BY <1>5, <3>2 DEF Booked
    <3> QED BY <3>1, <3>2
  <2> QED BY <1>4, <2>1 DEF Booked
<1>8. /\ LentSum(r) = LentSum(s) - Lent(s.branches[branch]) + Lent(r.branches[branch])
      /\ LentSum(r) \in Nat /\ LentSum(s) \in Nat
  <2>1. Lent(r.branches[branch]) \in Nat
    BY <1>7, BookedCounts
  <2>2. OtherLent(s, r, branch)
    BY <1>5 DEF OtherLent
  <2> QED BY <2>1, <2>2, LentChanged
<1>9. Lent(r.branches[branch]) + debt >= Lent(s.branches[branch])
  BY <1>2, <1>6 DEF Lent, old
<1>10. RawSum(r) = RawSum(s) /\ RawSum(s) \in Nat
  BY <1>4, RawSame, HeldTyped
<1>11. s.vault.absorbed_debt \in Nat /\ Lent(s.branches[branch]) \in Nat
       /\ Lent(r.branches[branch]) \in Nat
  BY <1>7, BookedCounts DEF Booked, VaultBooked
<1>12. /\ DebtHeld(r) = s.vault.absorbed_debt + RawSum(r) + LentSum(r)
       /\ DebtHeld(s) = s.vault.absorbed_debt + RawSum(s) + LentSum(s)
  BY <1>4, HeldIsSum
<1> QED BY <1>4, <1>7, <1>8, <1>9, <1>10, <1>11, <1>12 DEF r

-----------------------------------------------------------------------------
(* The tick of a ratio has no more than that ratio, and the factors of the  *)
(* branches stay factors or become the error.                               *)

LEMMA TickAtRatioBelow ==
  ASSUME NEW ratio, HasTick(ratio)
  PROVE  TickAtRatio(ratio) \in Ticks /\ RatioAtTick[TickAtRatio(ratio)] <= ratio
<1> DEFINE below == {t \in Ticks : RatioAtTick[t] <= ratio}
<1>1. MIN_TICK \in below
  BY TickAssumption DEF HasTick, Ticks
<1>2. below \in SUBSET Int /\ \A x \in below : x <= MAX_TICK
  BY TickRange
<1>3. PICK m \in below : \A x \in below : x <= m
  BY <1>1, <1>2, TickRange, GreatestElement
<1>4. TickAtRatio(ratio) \in below
  BY <1>3 DEF TickAtRatio
<1> QED BY <1>4

FactorOrError(f) == f = BNError \/ FactorOK(f)

LEMMA BigIsFactor ==
  ASSUME NEW c \in Nat, NEW e \in Int
  PROVE  FactorOK(Big(c, e))
BY DEF FactorOK, Big

LEMMA ConstantFactors ==
  /\ FactorOK(BigZero) /\ FactorOK(InitialFactor) /\ FactorOK(MaxMask)
  /\ COEFFICIENT_MAX \in Nat /\ TwoPowerPrecision \in Nat \ {0}
<1>1. COEFFICIENT_SIZE \in 0 .. BITS /\ PRECISION \in 0 .. BITS
  BY BitsTyped
<1>2. TwoTo[COEFFICIENT_SIZE] \in Nat \ {0} /\ TwoTo[PRECISION] \in Nat \ {0}
  BY <1>1, TwoToPositive
<1>3. COEFFICIENT_MAX \in Nat
  BY <1>2 DEF COEFFICIENT_MAX
<1>4. DECIMALS \in Int /\ EXPONENT_MAX \in Int
  BY BigNumberAssumption
<1> QED BY <1>2, <1>3, <1>4, BigIsFactor DEF BigZero, InitialFactor, MaxMask, TwoPowerPrecision

LEMMA ErrorIsNoFactor == ~FactorOK(BNError)
BY DEF FactorOK, BNError, Big

LEMMA MulBigNumberTyped ==
  ASSUME NEW f, FactorOrError(f), NEW g, FactorOK(g)
  PROVE  FactorOrError(MulBigNumber(f, g))
<1>1. CASE f = BNError
  BY <1>1 DEF MulBigNumber, FactorOrError
<1>2. CASE FactorOK(f)
  <2> DEFINE product  == f.coefficient * g.coefficient
             overflow == IF product > TwoTo[2 * COEFFICIENT_SIZE - 1] - 1
                         THEN COEFFICIENT_SIZE ELSE COEFFICIENT_SIZE - 1
             exponent == f.exponent + g.exponent + overflow - DECIMALS
  <2>1. product \in Nat
    BY <1>2 DEF FactorOK
  <2>2. overflow \in 0 .. BITS
    BY BitsTyped
  <2>3. exponent \in Int
    BY <1>2, <2>2, BigNumberAssumption DEF FactorOK
  <2> HIDE DEF product, overflow, exponent
  <2>4. TwoTo[overflow] \in Nat \ {0}
    BY <2>2, TwoToPositive
  <2>5. product \div TwoTo[overflow] \in Nat
    BY <2>1, <2>4, QuotientNatural
  <2>6. FactorOK(Big(product \div TwoTo[overflow], exponent))
    BY <2>3, <2>5, BigIsFactor
  <2>7. MulBigNumber(f, g) \in {BNError, MaxMask, Big(product \div TwoTo[overflow], exponent)}
    BY DEF MulBigNumber, product, overflow, exponent
  <2> QED BY <2>6, <2>7, ConstantFactors DEF FactorOrError
<1> QED BY <1>1, <1>2 DEF FactorOrError

(* What the program stores of a number is normal: the leading bit of its     *)
(* coefficient is set, or it is zero.                                        *)
BigOrError(f) == f = BNError \/ f \in BigNumbers

LEMMA Sizes ==
  /\ COEFFICIENT_SIZE \in Nat \ {0} /\ COEFFICIENT_SIZE - 1 \in Nat
  /\ COEFFICIENT_SIZE \in 0 .. BITS /\ COEFFICIENT_SIZE - 1 \in 0 .. BITS
  /\ TwoTo[COEFFICIENT_SIZE] \in Nat \ {0} /\ TwoTo[COEFFICIENT_SIZE - 1] \in Nat \ {0}
  /\ TwoTo[COEFFICIENT_SIZE] = 2 * TwoTo[COEFFICIENT_SIZE - 1]
  /\ COEFFICIENT_MAX = TwoTo[COEFFICIENT_SIZE] - 1
  /\ PRECISION \in 0 .. BITS /\ TwoPowerPrecision = TwoTo[PRECISION]
  /\ TwoTo[PRECISION] \in Nat \ {0}
  /\ TwoTo[BITS] = TwoTo[COEFFICIENT_SIZE] * TwoTo[PRECISION]
<1>1. /\ COEFFICIENT_SIZE \in Nat \ {0} /\ COEFFICIENT_SIZE - 1 \in Nat
      /\ COEFFICIENT_SIZE \in 0 .. BITS /\ COEFFICIENT_SIZE - 1 \in 0 .. BITS
      /\ COEFFICIENT_SIZE \in 1 .. BITS /\ PRECISION \in 0 .. BITS /\ PRECISION \in Nat
      /\ BITS = COEFFICIENT_SIZE + PRECISION
  BY BitsTyped
<1>2. /\ TwoTo[COEFFICIENT_SIZE] \in Nat \ {0} /\ TwoTo[COEFFICIENT_SIZE - 1] \in Nat \ {0}
      /\ TwoTo[PRECISION] \in Nat \ {0}
  BY <1>1, TwoToPositive
<1>3. TwoTo[COEFFICIENT_SIZE] = 2 * TwoTo[COEFFICIENT_SIZE - 1]
  BY <1>1, TwoToDoubles
<1>4. TwoTo[BITS] = TwoTo[COEFFICIENT_SIZE] * TwoTo[PRECISION]
  <2>1. COEFFICIENT_SIZE + PRECISION <= BITS
    BY <1>1
  <2> QED BY <1>1, <2>1, TwoToProduct
<1> QED BY <1>1, <1>2, <1>3, <1>4 DEF COEFFICIENT_MAX, TwoPowerPrecision

LEMMA BigParts ==
  ASSUME NEW f \in BigNumbers, f # BigZero
  PROVE  /\ f.coefficient \in TwoTo[COEFFICIENT_SIZE - 1] .. TwoTo[COEFFICIENT_SIZE] - 1
         /\ f.coefficient \in Nat \ {0} /\ f.exponent \in 1 .. EXPONENT_MAX
<1>1. f \in [coefficient : TwoTo[COEFFICIENT_SIZE - 1] .. COEFFICIENT_MAX,
             exponent : 1 .. EXPONENT_MAX]
  BY DEF BigNumbers
<1> QED BY <1>1, Sizes

LEMMA BigNormal ==
  ASSUME NEW c \in TwoTo[COEFFICIENT_SIZE - 1] .. TwoTo[COEFFICIENT_SIZE] - 1,
         NEW e \in 1 .. EXPONENT_MAX
  PROVE  Big(c, e) \in BigNumbers
BY Sizes DEF BigNumbers, Big

LEMMA BigNumbersAreFactors ==
  /\ \A f \in BigNumbers : FactorOK(f)
  /\ BigZero \in BigNumbers /\ InitialFactor \in BigNumbers
  /\ BNError \notin BigNumbers
<1>1. ASSUME NEW f \in BigNumbers PROVE FactorOK(f)
  <2>1. CASE f = BigZero
    BY <2>1, ConstantFactors
  <2>2. CASE f # BigZero
    <3>1. f.coefficient \in Nat /\ f.exponent \in 1 .. EXPONENT_MAX
      BY <2>2, BigParts
    <3>2. EXPONENT_MAX \in Nat
      BY BigNumberAssumption
    <3> QED BY <3>1, <3>2 DEF FactorOK
  <2> QED BY <2>1, <2>2
<1>2. InitialFactor \in BigNumbers
  <2>1. DECIMALS \in 1 .. EXPONENT_MAX
    BY BigNumberAssumption
  <2>2. COEFFICIENT_MAX \in TwoTo[COEFFICIENT_SIZE - 1] .. TwoTo[COEFFICIENT_SIZE] - 1
    BY Sizes
  <2> QED BY <2>1, <2>2, BigNormal DEF InitialFactor
<1>3. BigZero \in BigNumbers
  BY DEF BigNumbers
<1> QED BY <1>1, <1>2, <1>3, ErrorIsNoFactor

LEMMA NormalQuotient ==
  ASSUME NEW n \in Nat, NEW k \in 0 .. BITS,
         TwoTo[COEFFICIENT_SIZE - 1] * TwoTo[k] <= n, n < TwoTo[COEFFICIENT_SIZE] * TwoTo[k]
  PROVE  n \div TwoTo[k] \in TwoTo[COEFFICIENT_SIZE - 1] .. TwoTo[COEFFICIENT_SIZE] - 1
<1> DEFINE lo == TwoTo[COEFFICIENT_SIZE - 1]
           hi == TwoTo[COEFFICIENT_SIZE]
           d  == TwoTo[k]
           q  == n \div d
<1>1. lo \in Nat /\ hi \in Nat /\ d \in Nat \ {0} /\ lo * d <= n /\ n < hi * d
  BY Sizes, TwoToPositive
<1> HIDE DEF lo, hi, d
<1>2. q \in Nat /\ d * q <= n /\ n < d * q + d
  BY <1>1, QuotientBelow
<1> HIDE DEF q
<1>3. lo <= q
  <2>1. SUFFICES ASSUME q + 1 <= lo PROVE FALSE
    BY <1>1, <1>2
  <2>2. (q + 1) * d <= lo * d
    BY <1>1, <1>2, <2>1
  <2>3. (q + 1) * d = d * q + d
    BY <1>1, <1>2
  <2>4. d * q \in Nat /\ lo * d \in Nat
    BY <1>1, <1>2
  <2> QED BY <1>1, <1>2, <2>2, <2>3, <2>4
<1>4. q + 1 <= hi
  <2>1. SUFFICES ASSUME hi <= q PROVE FALSE
    BY <1>1, <1>2
  <2>2. hi * d <= q * d
    BY <1>1, <1>2, <2>1
  <2>3. q * d = d * q /\ d * q \in Nat /\ hi * d \in Nat
    BY <1>1, <1>2
  <2> QED BY <1>1, <1>2, <2>2, <2>3
<1>5. q \in lo .. hi - 1
  BY <1>1, <1>2, <1>3, <1>4
<1> QED BY <1>5 DEF q, d, lo, hi

(* The factor of a branch stays normal when a part of its debt is sold.      *)
LEMMA MulDivBigNumberTyped ==
  ASSUME NEW f \in BigNumbers, NEW number \in Nat, number <= TwoPowerPrecision
  PROVE  BigOrError(MulDivBigNumber(f, number))
<1>1. CASE f = BigZero \/ number = 0
  BY <1>1, BigNumbersAreFactors DEF MulDivBigNumber, BigOrError
<1>2. CASE f # BigZero /\ number # 0
  <2> DEFINE n == f.coefficient * number
             shift == SaturatingSub(BitLength(n), COEFFICIENT_SIZE)
             exponent == f.exponent + shift - PRECISION
             lo == TwoTo[COEFFICIENT_SIZE - 1]
             hi == TwoTo[COEFFICIENT_SIZE]
  <2>1. /\ f.coefficient \in Nat /\ lo <= f.coefficient /\ f.coefficient < hi
        /\ lo \in Nat /\ hi \in Nat
    <3>1. f.coefficient \in lo .. hi - 1
      BY <1>2, BigParts
    <3> QED BY <3>1, Sizes
  <2>2. n \in Nat /\ lo <= n /\ n < TwoTo[BITS]
    <3> DEFINE c == f.coefficient
               w == TwoTo[PRECISION]
               l == lo
               h == hi
    <3>1. /\ c \in Nat /\ l \in Nat /\ h \in Nat /\ w \in Nat \ {0} /\ l <= c /\ c < h
          /\ number \in Nat \ {0} /\ number <= w /\ TwoTo[BITS] = h * w
      BY <1>2, <2>1, Sizes
    <3> HIDE DEF c, w, l, h
    <3>2. c * number \in Nat /\ c <= c * number
      BY <3>1
    <3>3. c * number <= c * w /\ c * w < h * w
      BY <3>1
    <3>4. c * w \in Nat /\ h * w \in Nat
      BY <3>1
    <3>5. c * number < h * w /\ l <= c * number
      BY <3>1, <3>2, <3>3, <3>4
    <3> QED BY <3>1, <3>2, <3>5 DEF c, w, l, h
  <2>3. /\ BitLength(n) \in COEFFICIENT_SIZE .. BITS
        /\ TwoTo[BitLength(n) - 1] <= n /\ n < TwoTo[BitLength(n)]
    <3> DEFINE k == COEFFICIENT_SIZE - 1
    <3>1. k \in 0 .. BITS - 1 /\ TwoTo[k] <= n /\ k + 1 = COEFFICIENT_SIZE
      BY <2>2, BitsTyped
    <3> HIDE DEF n, k
    <3> QED BY <2>2, <3>1, BitLengthBounds
  <2> HIDE DEF n
  <2> DEFINE L == BitLength(n)
  <2>4. /\ shift = L - COEFFICIENT_SIZE /\ shift \in 0 .. BITS /\ shift \in Nat
        /\ L = COEFFICIENT_SIZE + shift /\ L - 1 = (COEFFICIENT_SIZE - 1) + shift
        /\ L <= BITS
    BY <2>3, BitsTyped DEF SaturatingSub
  <2> HIDE DEF L, shift
  <2>5. TwoTo[L] = hi * TwoTo[shift] /\ TwoTo[L - 1] = lo * TwoTo[shift]
    <3>1. TwoTo[COEFFICIENT_SIZE + shift] = TwoTo[COEFFICIENT_SIZE] * TwoTo[shift]
      BY <2>4, Sizes, TwoToProduct
    <3>2. (COEFFICIENT_SIZE - 1) + shift <= BITS
      BY <2>4, Sizes, BitsTyped
    <3>3. TwoTo[(COEFFICIENT_SIZE - 1) + shift] = TwoTo[COEFFICIENT_SIZE - 1] * TwoTo[shift]
      BY <2>4, <3>2, Sizes, TwoToProduct
    <3> QED BY <2>4, <3>1, <3>3
  <2>6. n \div TwoTo[shift] \in lo .. hi - 1
    BY <2>2, <2>3, <2>4, <2>5, NormalQuotient DEF L
  <2> HIDE DEF exponent
  <2>7. MulDivBigNumber(f, number) =
          IF exponent \notin 1 .. EXPONENT_MAX THEN BNError
          ELSE Big(n \div TwoTo[shift], exponent)
    BY <1>2 DEF MulDivBigNumber, n, shift, exponent
  <2> QED BY <2>6, <2>7, BigNormal DEF BigOrError
<1> QED BY <1>1, <1>2

(* So does the factor that a branch leaves behind when it merges.            *)
LEMMA DivBigNumberTyped ==
  ASSUME NEW f \in BigNumbers, NEW g \in BigNumbers
  PROVE  BigOrError(DivBigNumber(f, g))
<1>1. CASE f = BigZero \/ g.coefficient = 0
  BY <1>1, BigNumbersAreFactors DEF DivBigNumber, BigOrError
<1>2. CASE f # BigZero /\ g.coefficient # 0
  <2> DEFINE w == TwoPowerPrecision
             q == (f.coefficient * w) \div g.coefficient
             overflow == (IF q \div w = 1 THEN PRECISION + 1 ELSE PRECISION) - COEFFICIENT_SIZE
             exponent == f.exponent + DECIMALS + overflow - (g.exponent + PRECISION)
             lo == TwoTo[COEFFICIENT_SIZE - 1]
             hi == TwoTo[COEFFICIENT_SIZE]
             c == f.coefficient
             d == g.coefficient
  <2>1. g # BigZero
    BY <1>2 DEF BigZero, Big
  <2>2. /\ c \in Nat \ {0} /\ lo <= c /\ c < hi /\ d \in Nat \ {0} /\ lo <= d /\ d < hi
        /\ lo \in Nat \ {0} /\ hi = 2 * lo /\ hi \in Nat
        /\ w \in Nat \ {0}
    <3>1. c \in lo .. hi - 1 /\ d \in lo .. hi - 1
      BY <1>2, <2>1, BigParts
    <3> QED BY <3>1, Sizes
  <2>3. PRECISION \in Nat \ {0, 1} /\ COEFFICIENT_SIZE \in Nat \ {0} /\ COEFFICIENT_SIZE <= PRECISION
    BY BitsTyped
  <2> DEFINE half == TwoTo[PRECISION - 1]
  <2>4. half \in Nat \ {0} /\ w = 2 * half
    <3>1. PRECISION \in 1 .. BITS /\ PRECISION - 1 \in 0 .. BITS
      BY BitsTyped
    <3> QED BY <3>1, TwoToPositive, TwoToDoubles, Sizes
  <2> HIDE DEF w, lo, hi, c, d, half
  <2>5. q \in Nat /\ half <= q /\ q < 2 * w
    <3>1. c * w \in Nat
      BY <2>2
    <3>2. q \in Nat /\ d * q <= c * w /\ c * w < d * q + d
      BY <2>2, <3>1, QuotientBelow DEF c, d
    <3> HIDE DEF q
    <3>3. half <= q
      <4>1. SUFFICES ASSUME q + 1 <= half PROVE FALSE
        BY <2>4, <3>2
      <4>2. d * (q + 1) <= d * half
        BY <2>2, <2>4, <3>2, <4>1
      <4>3. d * half <= (2 * lo) * half
        BY <2>2, <2>4
      <4>4. (2 * lo) * half = lo * w /\ lo * w <= c * w
        BY <2>2, <2>4
      <4>5. d * (q + 1) = d * q + d /\ d * q \in Nat /\ lo * w \in Nat /\ d * half \in Nat
        BY <2>2, <2>4, <3>2
      <4> QED BY <3>1, <3>2, <4>2, <4>3, <4>4, <4>5, <2>2
    <3>4. q < 2 * w
      <4>1. SUFFICES ASSUME 2 * w <= q PROVE FALSE
        BY <2>2, <3>2
      <4>2. d * (2 * w) <= d * q
        BY <2>2, <3>2, <4>1
      <4>3. lo * (2 * w) <= d * (2 * w)
        BY <2>2
      <4>4. lo * (2 * w) = hi * w /\ c * w < hi * w
        BY <2>2
      <4>5. d * q \in Nat /\ hi * w \in Nat /\ d * (2 * w) \in Nat
        BY <2>2, <3>2
      <4> QED BY <3>1, <3>2, <4>2, <4>3, <4>4, <4>5
    <3> QED BY <3>2, <3>3, <3>4
  <2> HIDE DEF q
  <2>6. /\ overflow \in 0 .. BITS
        /\ lo * TwoTo[overflow] <= q /\ q < hi * TwoTo[overflow]
    <3>1. CASE q \div w = 1
      <4>1. overflow = PRECISION + 1 - COEFFICIENT_SIZE /\ overflow \in Nat /\ overflow \in 0 .. BITS
            /\ (COEFFICIENT_SIZE - 1) + overflow = PRECISION /\ PRECISION <= BITS
            /\ COEFFICIENT_SIZE + overflow = PRECISION + 1 /\ PRECISION + 1 \in 1 .. BITS
        BY <2>3, <3>1, BitsTyped
      <4> HIDE DEF overflow
      <4>2. TwoTo[PRECISION] = lo * TwoTo[overflow]
        BY <4>1, Sizes, TwoToProduct DEF lo
      <4>3. TwoTo[PRECISION + 1] = hi * TwoTo[overflow]
        <5>1. PRECISION + 1 <= BITS
          BY <4>1
        <5> QED BY <4>1, <5>1, Sizes, TwoToProduct DEF hi
      <4>4. TwoTo[PRECISION + 1] = 2 * w /\ TwoTo[PRECISION] = w
        <5>1. PRECISION + 1 - 1 = PRECISION
          BY <2>3
        <5> QED BY <4>1, <5>1, TwoToDoubles, Sizes DEF w
      <4>5. w <= q
        BY <2>2, <2>5, <3>1, QuotientBelow
      <4> QED BY <4>1, <4>2, <4>3, <4>4, <4>5, <2>5
    <3>2. CASE q \div w # 1
      <4>1. overflow = PRECISION - COEFFICIENT_SIZE /\ overflow \in Nat /\ overflow \in 0 .. BITS
            /\ (COEFFICIENT_SIZE - 1) + overflow = PRECISION - 1 /\ PRECISION - 1 <= BITS
            /\ COEFFICIENT_SIZE + overflow = PRECISION /\ PRECISION <= BITS
        BY <2>3, <3>2, BitsTyped
      <4> HIDE DEF overflow
      <4>2. half = lo * TwoTo[overflow]
        BY <4>1, Sizes, TwoToProduct DEF lo, half
      <4>3. w = hi * TwoTo[overflow]
        BY <4>1, Sizes, TwoToProduct DEF hi, w
      <4>4. q < w
        <5>1. q \div w \in Nat /\ w * (q \div w) <= q /\ q < w * (q \div w) + w
          BY <2>2, <2>5, QuotientBelow
        <5> DEFINE z == q \div w
        <5>2. z \in Nat /\ w * z <= q /\ z # 1 /\ q < w * z + w
          BY <5>1, <3>2
        <5> HIDE DEF z
        <5>3. z < 2
          <6>1. SUFFICES ASSUME 2 <= z PROVE FALSE
            BY <5>2
          <6>2. w * 2 <= w * z
            BY <6>1, <5>2, <2>2
          <6>3. w * 2 = 2 * w /\ w * z \in Nat
            BY <2>2, <5>2
          <6> QED BY <6>2, <6>3, <5>2, <2>2, <2>5
        <5>4. z = 0
          BY <5>2, <5>3
        <5>5. w * z = 0
          BY <5>4, <2>2
        <5> QED BY <5>2, <5>5, <2>2
      <4> QED BY <4>1, <4>2, <4>3, <4>4, <2>5
    <3> QED BY <3>1, <3>2
  <2> HIDE DEF overflow
  <2>7. q \div TwoTo[overflow] \in lo .. hi - 1
    BY <2>5, <2>6, NormalQuotient DEF lo, hi
  <2> HIDE DEF exponent
  <2>8. DivBigNumber(f, g) =
          IF exponent \notin 1 .. EXPONENT_MAX THEN BNError
          ELSE Big(q \div TwoTo[overflow], exponent)
    BY <1>2 DEF DivBigNumber, q, w, overflow, exponent
  <2> QED BY <2>7, <2>8, BigNormal DEF BigOrError, lo, hi
<1> QED BY <1>1, <1>2

(* The debt that is left of a number by two factors.                        *)
LEMMA MulDivNormalTyped ==
  ASSUME NEW n \in Nat, NEW f, FactorOK(f), NEW g, FactorOK(g), MulDivNormalDefined(f, g)
  PROVE  MulDivNormal(n, f, g) \in Nat
<1> DEFINE shift == g.exponent - f.exponent
<1>1. CASE f = BigZero \/ g = BigZero \/ shift \notin 0 .. COEFFICIENT_SIZE + 2
  BY <1>1 DEF MulDivNormal
<1>2. CASE ~(f = BigZero \/ g = BigZero \/ shift \notin 0 .. COEFFICIENT_SIZE + 2)
  <2>1. g.coefficient \in Nat \ {0}
    BY <1>2 DEF MulDivNormalDefined, FactorOK
  <2>2. shift \in 0 .. BITS
    BY <1>2, BitsTyped
  <2> HIDE DEF shift
  <2>3. n * f.coefficient \in Nat /\ TwoTo[shift] \in Nat \ {0}
    BY <2>2, TwoToPositive DEF FactorOK
  <2>4. g.coefficient * TwoTo[shift] \in Nat \ {0}
    BY <2>1, <2>3
  <2>5. (n * f.coefficient) \div (g.coefficient * TwoTo[shift]) \in Nat
    BY <2>3, <2>4, QuotientNatural
  <2> QED BY <1>2, <2>5 DEF MulDivNormal, shift
<1> QED BY <1>1, <1>2

FactorsOK(br) == \A b \in BranchIds : FactorOK(br[b].factor)

LEMMA ConnectFactor ==
  ASSUME NEW br, NEW total, NEW c, Forest(br, total, c), FactorsOK(br),
         NEW factor, FactorOK(factor),
         NEW branch \in BranchIds, br[branch].status # "not_liquidated"
  PROVE  FactorOrError(Connect(br, branch, factor).factor)
<1> DEFINE start == [branch |-> branch, factor |-> factor, wiped |-> FALSE]
           Step(A, n) == IF n = 0 THEN start ELSE Onto(br, A[n - 1])
           Fine(at) == /\ at.branch \in BranchIds /\ br[at.branch].status # "not_liquidated"
                       /\ at = [branch |-> at.branch, factor |-> at.factor, wiped |-> at.wiped]
                       /\ FactorOrError(at.factor)
<1>1. PICK A : /\ A = [n \in 0 .. MaxBranches |-> Step(A, n)]
               /\ Connect(br, branch, factor) = A[MaxBranches]
  BY ConnectWalks
<1>2. ASSUME NEW n \in 0 .. MaxBranches PROVE A[n] = Step(A, n)
  <2> DEFINE F == [k \in 0 .. MaxBranches |-> Step(A, k)]
  <2>1. F[n] = Step(A, n)
    OBVIOUS
  <2>2. A = F
    BY <1>1
  <2> HIDE DEF F, Step
  <2> QED BY <2>1, <2>2
<1>3. Fine(start)
  BY DEF FactorOrError
<1>4. ASSUME NEW at, Fine(at) PROVE Fine(Onto(br, at))
  <2> DEFINE b    == br[at.branch]
             next == MulBigNumber(at.factor, b.factor)
             on   == Onto(br, at)
  <2>1. /\ on.branch \in BranchIds /\ br[on.branch].status # "not_liquidated"
        /\ on = [branch |-> on.branch, factor |-> on.factor, wiped |-> on.wiped]
    <3>1. KeepsBranches(br, br)
      BY DEF KeepsBranches, SameLinks
    <3> QED BY <1>4, <3>1, ForestLeads, OneStepOn
  <2>2. FactorOrError(next)
    BY <1>4, MulBigNumberTyped DEF FactorsOK
  <2>3. on.factor \in {at.factor, MaxMask, next}
    <3>1. CASE at.wiped \/ b.status # "merged"
      BY <3>1 DEF Onto
    <3>2. CASE ~(at.wiped \/ b.status # "merged") /\ next = MaxMask
      <4>1. on = [at EXCEPT !.factor = MaxMask, !.wiped = TRUE]
        BY <3>2 DEF Onto
      <4>2. on.factor = MaxMask
        BY <4>1, <1>4
      <4> QED BY <4>2
    <3>3. CASE ~(at.wiped \/ b.status # "merged") /\ next # MaxMask
      BY <3>3 DEF Onto
    <3> QED BY <3>1, <3>2, <3>3
  <2>4. FactorOrError(on.factor)
    BY <1>4, <2>2, <2>3, ConstantFactors DEF FactorOrError
  <2> QED BY <2>1, <2>4
<1> HIDE DEF Fine, start
<1> DEFINE bad == {n \in Nat : n <= MaxBranches /\ ~Fine(A[n])}
<1>5. bad = {}
  <2>1. SUFFICES ASSUME bad # {} PROVE FALSE
    OBVIOUS
  <2>2. PICK m \in bad : \A k \in bad : m <= k
    BY <2>1, LeastNatural
  <2>3. m \in 0 .. MaxBranches
    BY <2>2, StoreAssumption
  <2>4. CASE m = 0
    <3>1. A[0] = start
      BY <2>3, <2>4, <1>2
    <3> QED BY <3>1, <2>2, <2>4, <1>3
  <2>5. CASE m # 0
    <3>1. m - 1 \in Nat /\ m - 1 <= MaxBranches /\ m - 1 \notin bad
      BY <2>2, <2>3, <2>5, StoreAssumption
    <3>2. Fine(A[m - 1])
      BY <3>1
    <3>3. A[m] = Onto(br, A[m - 1])
      BY <2>3, <2>5, <1>2
    <3>4. Fine(Onto(br, A[m - 1]))
      BY <3>2, <1>4
    <3> QED BY <3>3, <3>4, <2>2
  <2> QED BY <2>4, <2>5
<1>6. Fine(A[MaxBranches])
  BY <1>5, StoreAssumption
<1> QED BY <1>1, <1>6 DEF Fine

(* What fetch_latest_position leaves of a position are amounts, in a branch  *)
(* that exists.                                                             *)
LEMMA MarginTyped ==
  ASSUME NEW a \in Nat, NEW b \in Nat
  PROVE  DebtAfterMargin(a, b) \in Nat
<1>1. b * (FOUR_DECIMALS - 1) \in Nat
  BY TickConstants
<1>2. (b * (FOUR_DECIMALS - 1)) \div FOUR_DECIMALS \in Nat
  BY <1>1, TickConstants, QuotientNatural
<1> QED BY <1>2 DEF DebtAfterMargin

LEMMA StandingFactor ==
  ASSUME NEW s, Shape(s), Booked(s), NEW t \in Ticks, NEW i \in 1 .. s.ticks[t].total_ids
  PROVE  FactorOK(Standing(s, t, i).factor)
<1>1. CASE s.ticks[t].total_ids = i
  BY <1>1, BigNumbersAreFactors DEF Standing, Booked, TickBooked
<1>2. CASE s.ticks[t].total_ids # i
  <2>1. i \in 1 .. MaxTickIds
    BY StoreAssumption DEF Shape, TicksShaped
  <2>2. Record(t, i) \in Records
    BY <2>1 DEF Records
  <2> QED BY <1>2, <2>2, BigNumbersAreFactors DEF Standing, Booked
<1> QED BY <1>1, <1>2

LEMMA LatestTyped ==
  ASSUME NEW s, Linked(s), Booked(s), NEW m, HasFields(m, MemoryFields), m.tick \in Ticks,
         m.tick_id \in 1 .. s.ticks[m.tick].total_ids, m.debt \in Nat,
         WasLiquidated(s, m), LatestDefined(s, m)
  PROVE  LET latest == LatestPosition(s, m)
         IN  /\ latest.memory.debt \in Nat /\ latest.memory.col \in Nat
             /\ latest.memory.dust = m.dust
             /\ latest.memory.debt > 0 => latest.branch \in BranchIds
<1> DEFINE q     == LiquidationOf(s, m)
           end   == Connect(s.branches, q.branch, q.factor)
           base  == s.branches[end.branch]
           left  == MulDivNormal(m.debt, base.factor, end.factor)
           debt  == DebtAfterMargin(m.debt, left)
           wiped == [m EXCEPT !.col = 0, !.debt = 0, !.tick = COLD_TICK]
           ratio == PartialsRatio(base.minima_tick, base.partials)
           col   == (debt * ZERO_TICK_SCALED_RATIO) \div ratio
           kept  == [m EXCEPT !.debt = debt, !.tick = base.minima_tick, !.col = col]
           latest == LatestPosition(s, m)
<1>1. wiped.debt = 0 /\ wiped.col = 0 /\ wiped.dust = m.dust
  BY DEF HasFields, MemoryFields
<1>2. kept.debt = debt /\ kept.col = col /\ kept.dust = m.dust
  <2> HIDE DEF debt, col, base
  <2> QED BY DEF HasFields, MemoryFields
<1>3. CASE q.fully
  <2>1. latest = [branch |-> q.branch, memory |-> wiped]
    BY <1>3 DEF LatestPosition
  <2> HIDE DEF wiped, latest
  <2> QED BY <2>1, <1>1 DEF latest
<1>4. CASE ~q.fully /\ (base.status = "closed" \/ end.factor = MaxMask \/ debt = 0)
  <2>1. latest = [branch |-> end.branch, memory |-> wiped]
    BY <1>4 DEF LatestPosition
  <2> HIDE DEF wiped, latest, end
  <2> QED BY <2>1, <1>1 DEF latest
<1>5. CASE ~q.fully /\ ~(base.status = "closed" \/ end.factor = MaxMask \/ debt = 0)
  <2>1. latest = [branch |-> end.branch, memory |-> kept]
    BY <1>5 DEF LatestPosition
  <2>2. /\ q.branch \in BranchIds /\ end.factor # BNError
        /\ MulDivNormalDefined(base.factor, end.factor) /\ base.minima_tick \in Ticks
    BY <1>5 DEF LatestDefined
  <2>3. q = Standing(s, m.tick, m.tick_id) /\ WasOut(s, m.tick, m.tick_id)
    BY DEF LiquidationOf, Standing, WasOut, WasLiquidated
  <2>4. TicksShaped(s.ticks) /\ AllRooted(s, 0) /\ Shape(s)
        /\ Forest(s.branches, s.vault.total, s.vault.current)
    BY DEF Linked, Shape
  <2>5. Rooted(q, s.branches, 0) /\ FactorOK(q.factor)
    BY <2>3, <2>4, StandingRooted, StandingFactor
  <2>6. s.branches[q.branch].status # "not_liquidated"
    BY <1>5, <2>2, <2>5, BranchIdsClosed DEF Rooted
  <2>7. FactorsOK(s.branches)
    BY BigNumbersAreFactors DEF Booked, BranchBooked, FactorsOK
  <2>8. end.branch \in BranchIds
    BY <2>2, <2>4, <2>6, ConnectEnds
  <2>9. FactorOK(end.factor)
    <3>1. FactorOrError(end.factor)
      BY <2>2, <2>4, <2>5, <2>6, <2>7, ConnectFactor
    <3> HIDE DEF end
    <3> QED BY <3>1, <2>2 DEF FactorOrError
  <2> HIDE DEF end, latest
  <2>10. BranchBooked(base)
    BY <2>8 DEF Booked
  <2> HIDE DEF base
  <2>11. left \in Nat
    BY <2>2, <2>9, <2>10, BigNumbersAreFactors, MulDivNormalTyped DEF BranchBooked
  <2> HIDE DEF left
  <2>12. debt \in Nat
    BY <2>11, MarginTyped
  <2> HIDE DEF debt
  <2>13. ratio \in Nat \ {0}
    BY <2>2, <2>10, PartialsRatioPositive DEF BranchBooked
  <2> HIDE DEF ratio
  <2>14. debt * ZERO_TICK_SCALED_RATIO \in Nat
    BY <2>12, TickConstants
  <2>15. col \in Nat
    BY <2>13, <2>14, QuotientNatural
  <2> HIDE DEF col, kept
  <2> QED BY <1>2, <2>1, <2>8, <2>12, <2>15 DEF latest
<1> QED BY <1>3, <1>4, <1>5

(* What operate takes out of the accounts is the debt in memory and the dust *)
(* of the position.                                                         *)
MemoryBooked(m) ==
  /\ m.col \in Nat /\ m.debt \in Nat /\ m.dust \in Nat
  /\ m.tick = COLD_TICK => m.debt = 0 /\ m.dust = 0

LEMMA DetachBooks ==
  ASSUME NEW s, Linked(s), Bare(s), Booked(s), NEW m, HasFields(m, MemoryFields),
         MemoryBooked(m),
         m.tick = COLD_TICK \/ (m.tick \in Ticks /\ m.tick_id \in 1 .. s.ticks[m.tick].total_ids),
         CanDetach(s, m)
  PROVE  LET D == Detach(s, m)
         IN  /\ Booked(D.store) /\ D.store.vault.borrow = s.vault.borrow
             /\ D.memory.col \in Nat /\ D.memory.debt \in Int
             /\ DebtHeld(D.store) + m.dust + D.memory.debt + (MINIMUM_TICK_DEBT - 1)
                  >= DebtHeld(s) + (D.store.vault.absorbed_dust - s.vault.absorbed_dust)
<1> DEFINE D      == Detach(s, m)
           latest == LatestPosition(s, m)
           now    == latest.memory
<1>1. /\ m.col \in Nat /\ m.debt \in Nat /\ m.dust \in Nat /\ DebtHeld(s) \in Nat
      /\ s.vault.absorbed_dust \in Nat /\ MINIMUM_TICK_DEBT \in Nat \ {0}
  BY HeldTyped, DebtConstants DEF MemoryBooked, Booked, VaultBooked
<1>2. CASE m.tick = COLD_TICK
  <2>1. D.store = s /\ D.memory = m /\ m.debt = 0 /\ m.dust = 0
    BY <1>2 DEF Detach, MemoryBooked
  <2> HIDE DEF D
  <2> QED BY <1>1, <2>1 DEF D
<1>3. CASE m.tick # COLD_TICK /\ ~WasLiquidated(s, m)
  <2>1. /\ D.store = LeaveTick(s, m)
        /\ D.memory = [m EXCEPT !.debt = m.debt - m.dust, !.dust = 0]
    BY <1>3 DEF Detach
  <2>2. D.memory.col = m.col /\ D.memory.debt = m.debt - m.dust
    BY <2>1 DEF HasFields, MemoryFields
  <2>3. m.tick \in Ticks /\ s.ticks[m.tick].raw_debt # 0 /\ ~s.ticks[m.tick].is_liquidated
    BY <1>3 DEF CanDetach, WasLiquidated
  <2> DEFINE r == LeaveTick(s, m)
  <2>4. /\ Booked(r) /\ r.vault.absorbed_dust = s.vault.absorbed_dust
        /\ r.vault.borrow = s.vault.borrow
        /\ DebtHeld(r) + m.debt + (MINIMUM_TICK_DEBT - 1) >= DebtHeld(s)
    BY <1>1, <2>3, LeaveTickBooks
  <2> HIDE DEF D, r
  <2>5. DebtHeld(r) \in Nat
    BY <2>4, HeldTyped
  <2> QED BY <1>1, <2>1, <2>2, <2>4, <2>5 DEF D, r
<1>4. CASE m.tick # COLD_TICK /\ WasLiquidated(s, m)
  <2>1. LatestDefined(s, m) /\ m.tick \in Ticks
    BY <1>4 DEF CanDetach
  <2>2. /\ now.debt \in Nat /\ now.col \in Nat /\ now.dust = m.dust
        /\ now.debt > 0 => latest.branch \in BranchIds
    BY <1>1, <1>4, <2>1, LatestTyped
  <2>3. HasFields(now, MemoryFields)
    <3>1. \/ now = [m EXCEPT !.col = 0, !.debt = 0, !.tick = COLD_TICK]
          \/ \E x, y, z : now = [m EXCEPT !.debt = x, !.tick = y, !.col = z]
      BY DEF LatestPosition
    <3> HIDE DEF now
    <3> QED BY <3>1 DEF HasFields, MemoryFields
  <2>4. CASE now.debt > m.dust
    <3>1. /\ D.store = LeaveBranch(s, latest.branch, now.debt)
          /\ D.memory = [now EXCEPT !.debt = now.debt - m.dust, !.dust = 0]
      BY <1>4, <2>4 DEF Detach
    <3> HIDE DEF D, now, latest
    <3>2. D.memory.col = now.col /\ D.memory.debt = now.debt - m.dust
      BY <2>3, <3>1 DEF HasFields, MemoryFields
    <3>3. latest.branch \in BranchIds
      BY <1>1, <2>2, <2>4
    <3> DEFINE r == LeaveBranch(s, latest.branch, now.debt)
    <3>4. Booked(r) /\ r.vault = s.vault /\ DebtHeld(r) + now.debt >= DebtHeld(s)
      BY <2>2, <3>3, LeaveBranchBooks
    <3> HIDE DEF r
    <3>5. DebtHeld(r) \in Nat
      BY <3>4, HeldTyped
    <3> QED BY <1>1, <2>2, <3>1, <3>2, <3>4, <3>5 DEF D, r
  <2>5. CASE ~(now.debt > m.dust)
    <3> DEFINE x == s.vault.absorbed_dust + m.dust - now.debt
    <3>1. /\ D.store = [s EXCEPT !.vault.absorbed_dust = x]
          /\ D.memory = [now EXCEPT !.debt = 0, !.col = 0, !.dust = 0]
      BY <1>4, <2>5 DEF Detach
    <3>2. x \in Nat /\ x - s.vault.absorbed_dust <= m.dust
      <4> HIDE DEF now
      <4> QED BY <1>1, <2>2, <2>5
    <3> HIDE DEF D, now, latest, x
    <3>3. D.memory.col = 0 /\ D.memory.debt = 0
      BY <2>3, <3>1 DEF HasFields, MemoryFields
    <3>4. HasFields(s, StoreFields) /\ HasFields(s.vault, VaultFields)
      BY DEF Linked, Shape
    <3>5. /\ D.store.ticks = s.ticks /\ D.store.tick_ids = s.tick_ids
          /\ D.store.branches = s.branches
          /\ D.store.vault = [s.vault EXCEPT !.absorbed_dust = x]
      BY <3>1, <3>4 DEF HasFields, StoreFields
    <3>6. /\ D.store.vault.absorbed_dust = x
          /\ D.store.vault.absorbed_debt = s.vault.absorbed_debt
          /\ D.store.vault.borrow = s.vault.borrow
      BY <3>4, <3>5 DEF HasFields, VaultFields
    <3>7. Booked(D.store)
      BY <3>2, <3>5, <3>6 DEF Booked, VaultBooked
    <3>8. DebtHeld(D.store) = DebtHeld(s)
      <4>1. RawSum(D.store) = RawSum(s) /\ LentSum(D.store) = LentSum(s)
        BY <3>5, RawSame, LentSame
      <4> QED BY <4>1, <3>6, HeldIsSum
    <3> QED BY <1>1, <3>2, <3>3, <3>6, <3>7, <3>8 DEF D
  <2> QED BY <2>4, <2>5
<1> QED BY <1>2, <1>3, <1>4

-----------------------------------------------------------------------------
(* operate: what a position brings into a tick.                             *)

LEMMA RawDebtAtTyped ==
  ASSUME NEW col \in Nat, NEW net \in Nat, col > 0, HasTick(NetRatio(col, net))
  PROVE  RawDebtAt(col, net) \in Nat
<1> DEFINE tick  == TickAtRatio(NetRatio(col, net))
           ratio == (RatioAtTick[tick] * TICK_SPACING) \div FOUR_DECIMALS
<1>1. tick \in Ticks
  BY TickAtRatioBelow
<1> HIDE DEF tick
<1>2. RatioAtTick[tick] * TICK_SPACING \in Nat
  BY <1>1, RatioPositive, TickConstants
<1>3. ratio \in Nat
  BY <1>2, TickConstants, QuotientNatural
<1> HIDE DEF ratio
<1>4. ratio * col \in Nat
  BY <1>3
<1>5. (ratio * col) \div ZERO_TICK_SCALED_RATIO \in Nat
  BY <1>4, TickConstants, QuotientNatural
<1> QED BY <1>5 DEF RawDebtAt, RaisedRatio, ratio, tick

LEMMA AttachBooks ==
  ASSUME NEW s, Linked(s), Booked(s), NEW col \in Nat, NEW net \in Nat, CanAttach(s, col, net)
  PROVE  LET a == Attach(s, col, net)
         IN  /\ Booked(a.store) /\ a.store.vault = s.vault
             /\ a.memory.col \in Nat /\ a.memory.debt \in Nat /\ a.memory.dust \in Nat
             /\ DebtHeld(a.store) = DebtHeld(s) + a.memory.debt
<1> DEFINE a     == Attach(s, col, net)
           r     == a.store
           tick  == TargetTick(col, net)
           old   == s.ticks[tick]
           fresh == NeedsNewId(s, tick)
           id    == IF fresh THEN old.total_ids + 1 ELSE old.total_ids
           debt  == RawDebtAt(col, net)
           new   == [is_liquidated |-> FALSE, total_ids |-> id, liquidation |-> NoLiquidation,
                     raw_debt |-> IF fresh THEN debt ELSE old.raw_debt + debt]
           moved == fresh /\ old.total_ids > 0
           ids_  == IF moved THEN [s.tick_ids EXCEPT ![Record(tick, old.total_ids)] = old.liquidation]
                    ELSE s.tick_ids
<1>1. /\ HasFields(s, StoreFields) /\ TicksShaped(s.ticks)
      /\ s.tick_ids = [q \in Records |-> s.tick_ids[q]]
  BY DEF Linked, Shape
<1>2. /\ tick \in Ticks /\ col > 0 /\ HasTick(NetRatio(col, net))
      /\ debt >= Greatest(net, MIN_DEBT)
  BY DEF CanAttach
<1>3. /\ r = [s EXCEPT !.ticks[tick] = new,
                       !.tick_ids = IF moved THEN [@ EXCEPT ![Record(tick, old.total_ids)] = old.liquidation]
                                    ELSE @,
                       !.bits = SetBit(@, tick)]
      /\ a.memory.col = col /\ a.memory.debt = debt /\ a.memory.dust = debt - net
  BY DEF Attach
<1>4. debt \in Nat /\ debt - net \in Nat
  <2>1. debt \in Nat
    BY <1>2, RawDebtAtTyped
  <2> HIDE DEF debt
  <2> QED BY <1>2, <2>1, DebtConstants DEF Greatest
<1> HIDE DEF tick, debt
<1>5. /\ old.total_ids \in Nat /\ old.raw_debt \in Nat /\ old.liquidation.factor \in BigNumbers
      /\ (fresh <=> old.total_ids = 0 \/ old.is_liquidated)
      /\ (fresh => old.raw_debt = 0)
  <2>1. TickBooked(old) /\ old.total_ids \in 0 .. MaxTickIds
    BY <1>1, <1>2 DEF Booked, TicksShaped
  <2>2. fresh <=> old.total_ids = 0 \/ old.is_liquidated
    BY DEF NeedsNewId
  <2> QED BY <2>1, <2>2 DEF TickBooked
<1> HIDE DEF a, fresh
<1>6. /\ r.vault = s.vault /\ r.branches = s.branches
      /\ r.ticks = [s.ticks EXCEPT ![tick] = new] /\ r.tick_ids = ids_
  BY <1>1, <1>3 DEF HasFields, StoreFields
<1> HIDE DEF r
<1>7. \A t \in Ticks : r.ticks[t] = IF t = tick THEN new ELSE s.ticks[t]
  BY <1>1, <1>6 DEF TicksShaped
<1>8. /\ new.is_liquidated = FALSE /\ new.total_ids = id /\ id # 0
      /\ new.raw_debt = old.raw_debt + debt /\ new.raw_debt \in Nat
      /\ new.liquidation.factor = BigZero
  <2>1. id # 0
    BY <1>5
  <2>2. new.raw_debt = old.raw_debt + debt
    BY <1>4, <1>5
  <2> QED BY <1>4, <1>5, <2>1, <2>2 DEF NoLiquidation, Liquidation
<1> HIDE DEF new, id
<1>9. \A t \in Ticks : TickBooked(r.ticks[t])
  BY <1>7, <1>8, BigZeroOK DEF Booked, TickBooked
<1>10. ASSUME NEW q \in Records PROVE r.tick_ids[q].factor \in BigNumbers
  <2>1. s.tick_ids[q].factor \in BigNumbers
    BY DEF Booked
  <2>2. r.tick_ids[q] = s.tick_ids[q] \/ r.tick_ids[q] = old.liquidation
    <3> HIDE DEF moved, old
    <3> QED BY <1>1, <1>6
  <2> QED BY <2>1, <2>2, <1>5
<1>11. Booked(r)
  BY <1>6, <1>9, <1>10 DEF Booked
<1>12. /\ RawSum(r) = RawSum(s) - old.raw_debt + new.raw_debt
       /\ RawSum(r) \in Nat /\ RawSum(s) \in Nat
  <2>1. r.ticks[tick].raw_debt = new.raw_debt /\ OtherRaws(s, r, tick)
    BY <1>2, <1>7 DEF OtherRaws
  <2> QED BY <2>1, <1>2, <1>8, RawChanged
<1>13. LentSum(r) = LentSum(s) /\ LentSum(s) \in Nat
  BY <1>6, LentSame, HeldTyped
<1>14. s.vault.absorbed_debt \in Nat
  BY DEF Booked, VaultBooked
<1>15. /\ DebtHeld(r) = s.vault.absorbed_debt + RawSum(r) + LentSum(r)
       /\ DebtHeld(s) = s.vault.absorbed_debt + RawSum(s) + LentSum(s)
  BY <1>6, HeldIsSum
<1>16. DebtHeld(r) = DebtHeld(s) + debt
  BY <1>4, <1>5, <1>8, <1>12, <1>13, <1>14, <1>15
<1> QED BY <1>3, <1>4, <1>6, <1>11, <1>16 DEF r, a

LEMMA VacantOpened ==
  ASSUME NEW k, NEW m
  PROVE  Vacant(Opened(k, m))
BY BigZeroOK DEF Vacant, Opened, EmptyBranch, BranchBooked

LEMMA RaiseTopBooks ==
  ASSUME NEW s, Linked(s), NEW tick \in Ticks, CanRaiseTop(s, tick)
  PROVE  SameBooks(s, RaiseTop(s, tick))
<1> DEFINE r  == RaiseTop(s, tick)
           id == s.vault.total + 1
           e  == Opened(s.vault.current, s.vault.top)
<1>1. /\ HasFields(s, StoreFields) /\ HasFields(s.vault, VaultFields)
      /\ BranchesShaped(s.branches) /\ Woods(s.branches, s.vault.total)
  BY DEF Linked, Shape, Forest
<1>2. tick \in Int /\ s.vault.top \in Int
  BY TickWindow, TickRange DEF Linked, TopLinked
<1>3. CASE tick < s.vault.top
  <2>1. r = s
    BY <1>3 DEF RaiseTop
  <2> QED BY <2>1 DEF SameBooks
<1>4. CASE ~(tick < s.vault.top) /\ ~s.vault.liquidated
  <2>1. r = [s EXCEPT !.vault.top = tick]
    BY <1>4 DEF RaiseTop
  <2> HIDE DEF r
  <2>2. /\ r.ticks = s.ticks /\ r.tick_ids = s.tick_ids /\ r.branches = s.branches
        /\ r.vault = [s.vault EXCEPT !.top = tick]
    BY <1>1, <2>1 DEF HasFields, StoreFields
  <2>3. /\ r.vault.absorbed_debt = s.vault.absorbed_debt
        /\ r.vault.absorbed_dust = s.vault.absorbed_dust /\ r.vault.borrow = s.vault.borrow
    BY <1>1, <2>2 DEF HasFields, VaultFields
  <2> QED BY <2>2, <2>3 DEF SameBooks, r
<1>5. CASE ~(tick < s.vault.top) /\ s.vault.liquidated
  <2>1. r = [s EXCEPT !.branches[id] = e, !.vault.top = tick, !.vault.liquidated = FALSE,
                      !.vault.current = id, !.vault.total = id]
    BY <1>5 DEF RaiseTop, Opened
  <2> HIDE DEF r, e
  <2>2. /\ r.ticks = s.ticks /\ r.tick_ids = s.tick_ids
        /\ r.branches = [s.branches EXCEPT ![id] = e]
        /\ r.vault = [s.vault EXCEPT !.top = tick, !.liquidated = FALSE, !.current = id,
                                     !.total = id]
    BY <1>1, <2>1 DEF HasFields, StoreFields
  <2>3. /\ r.vault.absorbed_debt = s.vault.absorbed_debt
        /\ r.vault.absorbed_dust = s.vault.absorbed_dust /\ r.vault.borrow = s.vault.borrow
    BY <1>1, <2>2 DEF HasFields, VaultFields
  <2>4. \A b \in BranchIds : r.branches[b] = IF b = id THEN e ELSE s.branches[b]
    BY <1>1, <2>2 DEF BranchesShaped
  <2>5. id \in BranchIds => s.branches[id].status = "not_liquidated"
    BY <1>1 DEF Woods, BranchIds
  <2>6. \A b \in BranchIds : \/ r.branches[b] = s.branches[b]
                             \/ Vacant(r.branches[b]) /\ s.branches[b].status = "not_liquidated"
    BY <2>4, <2>5, VacantOpened DEF e
  <2> QED BY <2>2, <2>3, <2>6 DEF SameBooks, r
<1> QED BY <1>3, <1>4, <1>5

(* The new amounts of a position are numbers.                               *)
LEMMA AllIsNegative == ALL \in Int /\ ALL < 0
BY DEF ALL

LEMMA NewCollateralTyped ==
  ASSUME NEW col \in Nat, NEW x \in Int
  PROVE  NewCollateral(col, x) \in Int
<1>1. CASE x = ALL
  BY <1>1, AllIsNegative DEF NewCollateral
<1>2. CASE x # ALL /\ x >= 0
  <2>1. x * EXCHANGE_PRICES_PRECISION \in Nat
    BY <1>2, DebtConstants
  <2>2. (x * EXCHANGE_PRICES_PRECISION) \div supply_ex_price \in Nat
    BY <2>1, DebtConstants, QuotientNatural
  <2> QED BY <1>2, <2>2 DEF NewCollateral
<1>3. CASE x # ALL /\ ~(x >= 0)
  <2>1. -x * EXCHANGE_PRICES_PRECISION \in Nat
    BY <1>3, DebtConstants
  <2>2. DivCeil(-x * EXCHANGE_PRICES_PRECISION, supply_ex_price) \in Nat
    BY <2>1, DebtConstants, DivCeilTyped
  <2> QED BY <1>3, <2>2 DEF NewCollateral
<1> QED BY <1>1, <1>2, <1>3

LEMMA NewDebtTyped ==
  ASSUME NEW debt \in Int, NEW x \in Int
  PROVE  NewDebt(debt, x) \in Int
<1>1. CASE x = ALL \/ x = 0
  BY <1>1, AllIsNegative DEF NewDebt
<1>2. CASE ~(x = ALL \/ x = 0) /\ x > 0
  <2> DEFINE net == DivCeil(x * EXCHANGE_PRICES_PRECISION, borrow_ex_price)
             fee == DivCeil(net * borrow_fee, FOUR_DECIMALS)
  <2>1. x * EXCHANGE_PRICES_PRECISION \in Nat
    BY <1>2, DebtConstants
  <2>2. net \in Nat
    BY <2>1, DebtConstants, DivCeilTyped
  <2> HIDE DEF net
  <2>3. net * borrow_fee \in Nat
    BY <2>2, DebtConstants
  <2>4. fee \in Nat
    BY <2>3, TickConstants, DivCeilTyped
  <2>5. NewDebt(debt, x) = debt + (net + fee)
    BY <1>2 DEF NewDebt, BorrowWithFee, net
  <2> HIDE DEF fee
  <2> QED BY <2>2, <2>4, <2>5
<1>3. CASE ~(x = ALL \/ x = 0) /\ ~(x > 0)
  <2>1. -x * EXCHANGE_PRICES_PRECISION \in Nat
    BY <1>3, DebtConstants
  <2>2. (-x * EXCHANGE_PRICES_PRECISION) \div borrow_ex_price \in Nat
    BY <2>1, DebtConstants, QuotientNatural
  <2> QED BY <1>3, <2>2 DEF NewDebt
<1> QED BY <1>1, <1>2, <1>3

LEMMA ScaledDebtTyped ==
  ASSUME NEW debt \in Nat
  PROVE  ScaledDebt(debt) \in Nat
<1>1. debt * (BILLION + 1) \in Nat
  BY DebtConstants
<1>2. (debt * (BILLION + 1)) \div BILLION \in Nat
  BY <1>1, DebtConstants, QuotientNatural
<1> QED BY <1>2 DEF ScaledDebt

PositionBooked(pos) ==
  pos.supply \in Nat /\ pos.dust \in Nat /\ (pos.tick = COLD_TICK => pos.dust = 0)
PositionsBooked(ps) == \A p \in PositionIds : PositionBooked(ps[p])

LEMMA MemoryBookedOf ==
  ASSUME NEW pos, PositionBooked(pos), pos.tick \in Ticks \union {COLD_TICK}
  PROVE  MemoryBooked(Memory(pos))
<1>1. PositionDebt(pos) \in Nat /\ (pos.tick = COLD_TICK => PositionDebt(pos) = 0)
  <2>1. CASE pos.tick = COLD_TICK
    BY <2>1 DEF PositionDebt
  <2>2. CASE pos.tick # COLD_TICK
    <3>1. RatioAtTick[pos.tick] \in Nat
      BY <2>2, RatioPositive
    <3>2. RatioAtTick[pos.tick] * (pos.supply + 1) \in Nat
      BY <3>1 DEF PositionBooked
    <3>3. (RatioAtTick[pos.tick] * (pos.supply + 1)) \div ZERO_TICK_SCALED_RATIO \in Nat
      BY <3>2, TickConstants, QuotientNatural
    <3> QED BY <2>2, <3>3 DEF PositionDebt
  <2> QED BY <2>1, <2>2
<1>2. /\ Memory(pos).col = pos.supply /\ Memory(pos).debt = PositionDebt(pos)
      /\ Memory(pos).dust = pos.dust /\ Memory(pos).tick = pos.tick
  BY DEF Memory
<1> QED BY <1>1, <1>2 DEF MemoryBooked, PositionBooked

-----------------------------------------------------------------------------
(* operate keeps the books: the totals move by net debts, ticks and branches *)
(* by gross ones, and what is dropped is below the minimum of a tick.        *)

Dusts(ps) == [p \in PositionIds |-> ps[p].dust]
DustSum(ps) == SumFunction(Dusts(ps))
Promised(s, ps) == s.vault.borrow + s.vault.absorbed_dust + DustSum(ps)
Balanced(s, ps, n) == Promised(s, ps) <= DebtHeld(s) + n * (MINIMUM_TICK_DEBT - 1)

VaultBooks ==
  /\ Booked(Store) /\ PositionsBooked(positions) /\ steps \in Nat
  /\ Balanced(Store, positions, steps)

LEMMA BalancedLent == LentIsHeld <=> Balanced(Store, positions, steps)
BY StoreFieldsOfStore DEF LentIsHeld, DebtPromised, Balanced, Promised, DustSum, Dusts

LEMMA DustTyped ==
  ASSUME NEW ps, PositionsBooked(ps)
  PROVE  DustSum(ps) \in Nat /\ Counted(Dusts(ps), PositionIds)
         /\ DustSum(ps) = SumFunctionOnSet(Dusts(ps), PositionIds)
<1>1. DOMAIN Dusts(ps) = PositionIds /\ Counted(Dusts(ps), PositionIds)
  BY DEF Dusts, Counted, PositionsBooked, PositionBooked
<1>2. DustSum(ps) = SumFunctionOnSet(Dusts(ps), PositionIds)
  BY <1>1, SumOfFunction DEF DustSum
<1> QED BY <1>1, <1>2, FiniteDomains, SumNatural

LEMMA DustChanged ==
  ASSUME NEW ps, PositionsBooked(ps), NEW qs, NEW p \in PositionIds, qs[p].dust \in Nat,
         \A q \in PositionIds : q # p => qs[q] = ps[q]
  PROVE  DustSum(qs) = DustSum(ps) - ps[p].dust + qs[p].dust
<1> DEFINE f == Dusts(ps)
           g == Dusts(qs)
<1>1. /\ f[p] = ps[p].dust /\ g[p] = qs[p].dust /\ DOMAIN g = PositionIds
      /\ \A q \in PositionIds : q # p => g[q] = f[q]
  BY DEF Dusts
<1>2. Counted(f, PositionIds) /\ DustSum(ps) = SumFunctionOnSet(f, PositionIds)
  BY DustTyped
<1>3. DustSum(qs) = SumFunctionOnSet(g, PositionIds)
  BY <1>1, SumOfFunction DEF DustSum
<1> HIDE DEF f, g
<1>4. SumFunctionOnSet(g, PositionIds) = SumFunctionOnSet(f, PositionIds) - f[p] + g[p]
  BY <1>1, <1>2, FiniteDomains, SumChanged
<1> QED BY <1>1, <1>2, <1>3, <1>4

WithTotals(s, x, y) == [s EXCEPT !.vault.supply = x, !.vault.borrow = y]

LEMMA TotalsBooks ==
  ASSUME NEW s, Shape(s), Booked(s), NEW x, NEW y \in Nat, NEW r, r = WithTotals(s, x, y)
  PROVE  /\ Booked(r) /\ DebtHeld(r) = DebtHeld(s) /\ r.vault.borrow = y
         /\ r.vault.absorbed_dust = s.vault.absorbed_dust
<1>1. HasFields(s, StoreFields) /\ HasFields(s.vault, VaultFields)
  BY DEF Shape
<1>2. /\ r.ticks = s.ticks /\ r.tick_ids = s.tick_ids /\ r.branches = s.branches
      /\ r.vault = [s.vault EXCEPT !.supply = x, !.borrow = y]
  BY <1>1 DEF HasFields, StoreFields, WithTotals
<1>3. /\ r.vault.borrow = y /\ r.vault.absorbed_dust = s.vault.absorbed_dust
      /\ r.vault.absorbed_debt = s.vault.absorbed_debt
  BY <1>1, <1>2 DEF HasFields, VaultFields
<1>4. Booked(r)
  BY <1>2, <1>3 DEF Booked, VaultBooked
<1>5. DebtHeld(r) = DebtHeld(s)
  <2>1. RawSum(r) = RawSum(s) /\ LentSum(r) = LentSum(s)
    BY <1>2, RawSame, LentSame
  <2> QED BY <2>1, <1>3, HeldIsSum
<1> QED BY <1>3, <1>4, <1>5

LEMMA WriteBackBooks ==
  ASSUME NEW p \in PositionIds, NEW old, NEW s, Linked(s), Booked(s), NEW m,
         MemoryBooked(m), old.debt \in Int, WriteBack(p, old, s, m), VaultLinked,
         PositionsBooked(positions)
  PROVE  /\ Booked(Store') /\ PositionsBooked(positions') /\ steps' = steps + 1
         /\ DebtHeld(Store') = DebtHeld(s)
         /\ Promised(Store', positions') =
              s.vault.borrow + (m.debt - m.dust) - old.debt + s.vault.absorbed_dust
                + DustSum(positions) - positions[p].dust + m.dust
<1> DEFINE x == s.vault.supply + m.col - old.col
           y == s.vault.borrow + (m.debt - m.dust) - old.debt
           after == UpdateTotals(s, m, old)
           written == [open |-> TRUE, tick |-> m.tick, tick_id |-> m.tick_id, supply |-> m.col,
                       dust |-> m.dust]
<1>1. /\ Save(after) /\ positions' = [positions EXCEPT ![p] = written]
      /\ steps' = steps + 1 /\ after.vault.borrow >= 0
  BY DEF WriteBack
<1>2. HasFields(s, StoreFields) /\ HasFields(s.vault, VaultFields) /\ Shape(s)
  BY DEF Linked, Shape
<1>3. after = WithTotals(s, x, y)
  BY <1>2 DEF UpdateTotals, HasFields, StoreFields, VaultFields, WithTotals
<1>4. y \in Int /\ s.vault.borrow \in Nat /\ s.vault.absorbed_dust \in Nat
  BY DEF Booked, VaultBooked, MemoryBooked
<1> HIDE DEF x, y, after
<1>5. after.vault.borrow = y
  BY <1>2, <1>3 DEF HasFields, StoreFields, VaultFields, WithTotals
<1>6. y \in Nat
  BY <1>1, <1>4, <1>5
<1>7. /\ Booked(after) /\ DebtHeld(after) = DebtHeld(s) /\ after.vault.borrow = y
      /\ after.vault.absorbed_dust = s.vault.absorbed_dust
  BY <1>2, <1>3, <1>6, TotalsBooks
<1>8. HasFields(after, StoreFields)
  <2>1. Linked(after)
    BY <1>3, TotalsLinked DEF WithTotals
  <2> QED BY <2>1 DEF Linked, Shape
<1>9. Store' = after
  BY <1>1, <1>8, SavedStore
<1>10. positions = [q \in PositionIds |-> positions[q]]
  BY DEF VaultLinked, PositionsLinked
<1>11. \A q \in PositionIds : positions'[q] = IF q = p THEN written ELSE positions[q]
  BY <1>1, <1>10
<1>12. written.supply = m.col /\ written.dust = m.dust /\ written.tick = m.tick
  OBVIOUS
<1> HIDE DEF written
<1>13. PositionBooked(written)
  BY <1>12 DEF MemoryBooked, PositionBooked
<1> DEFINE qs == positions'
<1>14. /\ qs[p].dust = m.dust /\ m.dust \in Nat /\ positions[p].dust \in Nat
       /\ \A q \in PositionIds : q # p => qs[q] = positions[q]
  BY <1>11, <1>12 DEF MemoryBooked, PositionsBooked, PositionBooked
<1>15. PositionsBooked(qs)
  BY <1>11, <1>13 DEF PositionsBooked
<1> HIDE DEF qs
<1>16. DustSum(qs) = DustSum(positions) - positions[p].dust + m.dust
  BY <1>14, DustChanged
<1>17. DustSum(positions) \in Nat
  BY DustTyped
<1>18. Promised(after, qs) = y + s.vault.absorbed_dust
                               + DustSum(positions) - positions[p].dust + m.dust
  BY <1>4, <1>7, <1>14, <1>16, <1>17 DEF Promised
<1>19. Promised(Store', qs) = Promised(after, qs) /\ DebtHeld(Store') = DebtHeld(after)
       /\ Booked(Store')
  BY <1>7, <1>9
<1> QED BY <1>1, <1>7, <1>15, <1>18, <1>19 DEF qs, y

LEMMA OutcomeBooks ==
  ASSUME NEW s, Linked(s), Booked(s), NEW old, HasFields(old, MemoryFields),
         NEW col \in Nat, NEW debt \in Nat,
         debt # 0 => /\ CanAttach(s, col, ScaledDebt(debt))
                     /\ CanRaiseTop(s, Outcome(s, old, col, debt).memory.tick)
  PROVE  LET out == Outcome(s, old, col, debt)
         IN  /\ Linked(out.store) /\ Booked(out.store) /\ MemoryBooked(out.memory)
             /\ out.memory.tick = COLD_TICK \/ InTick(out.store, out.memory)
             /\ out.store.vault.borrow = s.vault.borrow
             /\ out.store.vault.absorbed_dust = s.vault.absorbed_dust
             /\ DebtHeld(out.store) = DebtHeld(s) + out.memory.debt
<1> DEFINE out == Outcome(s, old, col, debt)
<1>1. CASE debt = 0
  <2>1. /\ out.store = s
        /\ out.memory = [old EXCEPT !.col = col, !.debt = 0, !.dust = 0, !.tick = COLD_TICK,
                                    !.tick_id = 0]
    BY <1>1 DEF Outcome
  <2> HIDE DEF out
  <2>2. /\ out.memory.col = col /\ out.memory.debt = 0 /\ out.memory.dust = 0
        /\ out.memory.tick = COLD_TICK
    BY <2>1 DEF HasFields, MemoryFields
  <2>3. DebtHeld(s) \in Nat
    BY HeldTyped
  <2> QED BY <2>1, <2>2, <2>3 DEF MemoryBooked, out
<1>2. CASE debt # 0
  <2> DEFINE net == ScaledDebt(debt)
             a   == Attach(s, col, net)
  <2>1. out.store = RaiseTop(a.store, a.memory.tick) /\ out.memory = a.memory
    BY <1>2 DEF Outcome
  <2>2. net \in Nat
    BY ScaledDebtTyped
  <2>3. CanAttach(s, col, net) /\ CanRaiseTop(s, out.memory.tick)
    BY <1>2
  <2> HIDE DEF out, net
  <2>4. /\ Linked(a.store) /\ a.memory.tick \in Ticks
        /\ a.memory.tick_id \in 1 .. a.store.ticks[a.memory.tick].total_ids
    BY <2>3, AttachLinked
  <2>5. /\ Booked(a.store) /\ a.store.vault = s.vault
        /\ a.memory.col \in Nat /\ a.memory.debt \in Nat /\ a.memory.dust \in Nat
        /\ DebtHeld(a.store) = DebtHeld(s) + a.memory.debt
    BY <2>2, <2>3, AttachBooks
  <2> HIDE DEF a
  <2>6. CanRaiseTop(a.store, a.memory.tick)
    BY <2>1, <2>3, <2>5 DEF CanRaiseTop
  <2>7. Linked(out.store) /\ out.store.ticks = a.store.ticks
    BY <2>1, <2>4, <2>6, RaiseTopLinked
  <2>8. SameBooks(a.store, out.store)
    BY <2>1, <2>4, <2>6, RaiseTopBooks
  <2>9. Booked(out.store) /\ DebtHeld(out.store) = DebtHeld(a.store)
    BY <2>5, <2>8, SameBooksKept
  <2>10. MemoryBooked(out.memory) /\ InTick(out.store, out.memory)
    BY <2>1, <2>4, <2>5, <2>7, TickRange DEF MemoryBooked, InTick
  <2> QED BY <2>1, <2>5, <2>7, <2>8, <2>9, <2>10 DEF SameBooks, out
<1> QED BY <1>1, <1>2

LEMMA StepBalanced ==
  ASSUME NEW held \in Nat, NEW promised \in Int, NEW n \in Nat,
         promised <= held + n * (MINIMUM_TICK_DEBT - 1),
         NEW h \in Int, NEW q \in Int, h + (MINIMUM_TICK_DEBT - 1) >= held + (q - promised)
  PROVE  q <= h + (n + 1) * (MINIMUM_TICK_DEBT - 1)
<1> DEFINE k == MINIMUM_TICK_DEBT - 1
<1>1. k \in Nat
  BY DebtConstants
<1>2. promised <= held + n * k /\ h + k >= held + (q - promised)
  OBVIOUS
<1> HIDE DEF k
<1>3. (n + 1) * k = n * k + k /\ n * k \in Nat
  BY <1>1
<1>4. q <= h + (n + 1) * k
  BY <1>1, <1>2, <1>3
<1> QED BY <1>4 DEF k

LEMMA OperateBooks ==
  ASSUME VaultLinked, Bare(Store), VaultBooks, NEW p \in PositionIds,
         NEW new_col \in Int, NEW new_debt \in Int, Operate(p, new_col, new_debt)
  PROVE  VaultBooks'
<1> DEFINE m   == Memory(positions[p])
           d   == Detach(Store, m)
           s   == d.store
           old == d.memory
           col  == NewCollateral(old.col, new_col)
           debt == NewDebt(old.debt, new_debt)
           out  == Outcome(s, old, col, debt)
<1>1. CanDetach(Store, m) /\ Change(p, s, old, new_col, new_debt)
  BY DEF Operate
<1>2. Linked(Store) /\ PositionsLinked(ticks, positions)
  BY DEF VaultLinked
<1>3. /\ Booked(Store) /\ PositionsBooked(positions) /\ steps \in Nat
      /\ Balanced(Store, positions, steps)
  BY DEF VaultBooks
<1>4. /\ HasFields(m, MemoryFields) /\ m.tick = positions[p].tick
      /\ m.tick_id = positions[p].tick_id /\ m.dust = positions[p].dust
  BY MemoryShaped DEF Memory
<1>5. m.tick = COLD_TICK \/ (m.tick \in Ticks /\ m.tick_id \in 1 .. Store.ticks[m.tick].total_ids)
  BY <1>2, <1>4, StoreFieldsOfStore DEF PositionsLinked
<1>6. MemoryBooked(m)
  BY <1>3, <1>4, <1>5, MemoryBookedOf DEF PositionsBooked
<1> HIDE DEF m
<1>7. /\ Linked(s) /\ HasFields(old, MemoryFields)
  BY <1>1, <1>2, <1>4, <1>5, DetachLinked, DetachedShaped
<1>8. /\ Booked(s) /\ s.vault.borrow = Store.vault.borrow
      /\ old.col \in Nat /\ old.debt \in Int
      /\ DebtHeld(s) + m.dust + old.debt + (MINIMUM_TICK_DEBT - 1)
           >= DebtHeld(Store) + (s.vault.absorbed_dust - Store.vault.absorbed_dust)
  BY <1>1, <1>2, <1>3, <1>4, <1>5, <1>6, DetachBooks
<1> HIDE DEF d, s, old
<1>9. /\ col >= 0 /\ debt >= 0
      /\ (debt # 0 => DebtAllowed(s, old, col, debt, out.memory, CollateralMoved(old.col, new_col),
                                  DebtMoved(old.debt, new_debt)))
      /\ WriteBack(p, old, out.store, out.memory)
  BY <1>1 DEF Change
<1>10. col \in Nat /\ debt \in Nat
  <2>1. col \in Int /\ debt \in Int
    BY <1>8, NewCollateralTyped, NewDebtTyped
  <2> QED BY <1>9, <2>1
<1>11. debt # 0 => CanAttach(s, col, ScaledDebt(debt)) /\ CanRaiseTop(s, out.memory.tick)
  BY <1>9 DEF DebtAllowed
<1> HIDE DEF col, debt
<1>12. /\ Linked(out.store) /\ Booked(out.store) /\ MemoryBooked(out.memory)
       /\ out.store.vault.borrow = s.vault.borrow
       /\ out.store.vault.absorbed_dust = s.vault.absorbed_dust
       /\ DebtHeld(out.store) = DebtHeld(s) + out.memory.debt
  BY <1>7, <1>8, <1>10, <1>11, OutcomeBooks
<1> DEFINE w == out.store
           k == out.memory
<1>13. WriteBack(p, old, w, k)
  BY <1>9
<1> HIDE DEF out
<1>14. /\ Booked(Store') /\ PositionsBooked(positions') /\ steps' = steps + 1
       /\ DebtHeld(Store') = DebtHeld(w)
       /\ Promised(Store', positions') =
            w.vault.borrow + (k.debt - k.dust) - old.debt + w.vault.absorbed_dust
              + DustSum(positions) - positions[p].dust + k.dust
  BY <1>3, <1>8, <1>12, <1>13, WriteBackBooks
<1>15. /\ DebtHeld(Store) \in Nat /\ DebtHeld(s) \in Nat /\ DustSum(positions) \in Nat
       /\ Store.vault.borrow \in Nat /\ Store.vault.absorbed_dust \in Nat
       /\ s.vault.absorbed_dust \in Nat /\ k.debt \in Nat /\ k.dust \in Nat /\ m.dust \in Nat
  BY <1>3, <1>6, <1>8, <1>12, HeldTyped, DustTyped DEF Booked, VaultBooked, MemoryBooked
<1> DEFINE before == Promised(Store, positions)
           after  == Promised(Store', positions')
           held   == DebtHeld(Store')
<1>16. /\ before = Store.vault.borrow + Store.vault.absorbed_dust + DustSum(positions)
       /\ before <= DebtHeld(Store) + steps * (MINIMUM_TICK_DEBT - 1)
  BY <1>3 DEF Promised, Balanced
<1>17. after = Store.vault.borrow + (k.debt - k.dust) - old.debt + s.vault.absorbed_dust
                 + DustSum(positions) - m.dust + k.dust
  BY <1>4, <1>8, <1>12, <1>14
<1>18. held = DebtHeld(s) + k.debt
  BY <1>12, <1>14
<1> HIDE DEF before, after, held, k, w
<1>19. /\ before \in Int /\ after \in Int /\ held \in Int
       /\ held + (MINIMUM_TICK_DEBT - 1) >= DebtHeld(Store) + (after - before)
  BY <1>8, <1>15, <1>16, <1>17, <1>18, DebtConstants
<1>20. after <= held + (steps + 1) * (MINIMUM_TICK_DEBT - 1)
  BY <1>3, <1>15, <1>16, <1>19, StepBalanced
<1>21. Balanced(Store', positions', steps')
  BY <1>14, <1>20 DEF Balanced, after, held
<1>22. steps' \in Nat
  BY <1>3, <1>14
<1> QED BY <1>14, <1>21, <1>22 DEF VaultBooks

-----------------------------------------------------------------------------
(* absorb: what leaves ticks and branches is absorbed.                      *)

LEMMA AbsorbTicksBooks ==
  ASSUME NEW s, Linked(s), Booked(s), s.vault.top \in Ticks, NEW max \in Ticks
  PROVE  LET taken == AbsorbTicks(s, max)
         IN  /\ Booked(taken.store) /\ taken.store.branches = s.branches
             /\ taken.debt \in Nat /\ RawSum(taken.store) + taken.debt = RawSum(s)
<1> DEFINE taken == AbsorbTicks(s, max)
           r     == taken.store
           above == {t \in TicksFrom(s.bits, PlaceOf(s.vault.top + 1)) : t > max}
           ts    == [t \in Ticks |-> IF t \in above THEN FullyLiquidated(s.ticks[t]) ELSE s.ticks[t]]
<1>1. /\ HasFields(s, StoreFields) /\ IndexOK(s.bits) /\ TicksShaped(s.ticks)
      /\ r.vault = s.vault
  BY AbsorbTicksLinked DEF Linked, Shape
<1>2. Within(above, Ticks)
  <2>1. s.vault.top + 1 \in Int /\ MIN_TICK <= s.vault.top + 1 /\ s.vault.top + 1 <= MAX_TICK + 1
    BY TickRange DEF Ticks
  <2>2. PlaceOf(s.vault.top + 1) \in Places
    BY <2>1, PlaceLeadsBack
  <2>3. 0 \in 0 .. ARRAYS - 1 /\ 0 \in 0 .. MAPS - 1
    BY MapConstants
  <2>4. TicksFrom(s.bits, PlaceOf(s.vault.top + 1)) \subseteq SetTicks(s.bits)
    BY <2>2, <2>3, SearchesMeetSetTicks
  <2> QED BY <2>4, <1>1 DEF IndexOK, Within
<1>3. /\ r = [s EXCEPT !.ticks = [t \in Ticks |-> IF t \in above THEN FullyLiquidated(@[t]) ELSE @[t]],
                       !.bits = ClearAll(@, above)]
      /\ taken.debt = SumFunctionOnSet(RawDebts(s), above)
  BY DEF AbsorbTicks
<1> HIDE DEF taken, above
<1>4. r.branches = s.branches /\ r.ticks = ts /\ r.tick_ids = s.tick_ids
  BY <1>1, <1>3 DEF HasFields, StoreFields
<1>5. ASSUME NEW t \in Ticks
      PROVE  /\ TickBooked(ts[t])
             /\ ts[t].raw_debt = IF t \in above THEN 0 ELSE s.ticks[t].raw_debt
  <2>1. CASE t \in above
    <3> DEFINE old == s.ticks[t]
               q   == Liquidation(TRUE, 0, BigZero)
    <3>1. HasFields(old, TickFields) /\ q.factor \in BigNumbers
      BY <1>1, BigZeroOK DEF TicksShaped, Liquidation
    <3>2. ts[t] = [old EXCEPT !.raw_debt = 0, !.is_liquidated = TRUE, !.liquidation = q]
      BY <2>1 DEF FullyLiquidated
    <3> HIDE DEF ts, old, q
    <3>3. ts[t].raw_debt = 0 /\ ts[t].liquidation = q
      BY <3>1, <3>2 DEF HasFields, TickFields
    <3> QED BY <2>1, <3>1, <3>3 DEF TickBooked
  <2>2. CASE t \notin above
    BY <2>2 DEF Booked
  <2> QED BY <2>1, <2>2
<1> HIDE DEF ts
<1>6. Booked(r)
  BY <1>1, <1>4, <1>5 DEF Booked
<1>7. \A t \in Ticks : RawDebts(r)[t] = IF t \in above THEN 0 ELSE RawDebts(s)[t]
  BY <1>4, <1>5, HeldIsSum
<1>8. /\ SumFunctionOnSet(RawDebts(s), Ticks)
           = SumFunctionOnSet(RawDebts(r), Ticks) + SumFunctionOnSet(RawDebts(s), above)
      /\ SumFunctionOnSet(RawDebts(s), above) \in Nat
  <2>1. IsFiniteSet(Ticks) /\ Counted(RawDebts(s), Ticks)
    BY FiniteDomains, BookedCounts
  <2> DEFINE f == RawDebts(s)
             g == RawDebts(r)
  <2>2. \A t \in Ticks : g[t] = IF t \in above THEN 0 ELSE f[t]
    BY <1>7
  <2> HIDE DEF f, g
  <2> QED BY <1>2, <2>1, <2>2, SumCleared DEF f, g
<1>9. /\ RawSum(s) = SumFunctionOnSet(RawDebts(s), Ticks)
      /\ RawSum(r) = SumFunctionOnSet(RawDebts(r), Ticks)
  BY HeldIsSum
<1> QED BY <1>3, <1>4, <1>6, <1>8, <1>9 DEF taken

(* Closing a branch moves its debt to what is taken.                        *)
ClosingBooks(a, total) ==
  Booked(a.store) /\ a.debt \in Nat /\ a.debt + LentSum(a.store) = total

LEMMA CloseBranchBooks ==
  ASSUME NEW s, NEW a, Closing(a, s), NEW total, ClosingBooks(a, total), NEW max \in Ticks
  PROVE  ClosingBooks(CloseBranch(a, max), total)
<1> DEFINE br == a.store.branches
           id == a.id
           b  == br[id]
           br2 == [br EXCEPT ![id].status = "closed"]
           r  == CloseBranch(a, max)
<1>1. CASE a.minima <= max
  BY <1>1 DEF CloseBranch
<1>2. CASE ~(a.minima <= max)
  <2>1. a.minima # COLD_TICK
    <3>1. COLD_TICK <= max
      BY TickRange
    <3> QED BY <3>1, <1>2
  <2>2. /\ id \in BranchIds /\ b.status = "liquidated" /\ BranchesShaped(br)
        /\ HasFields(a, ClosingFields) /\ HasFields(a.store, StoreFields)
    BY <2>1 DEF Closing, Tip
  <2>3. /\ Booked(a.store) /\ a.debt \in Nat /\ a.debt + LentSum(a.store) = total
        /\ b.debt \in Nat /\ BranchBooked(b)
    BY <2>2 DEF ClosingBooks, Booked, BranchBooked
  <2>4. PICK k, col :
          r = [a EXCEPT !.store.branches[a.id].status = "closed", !.debt = @ + b.debt, !.col = col,
                        !.id = k, !.minima = b.connected_minima_tick]
    BY <1>2 DEF CloseBranch, Closing, HasFields, ClosingFields
  <2> HIDE DEF r, b
  <2>5. r.debt = a.debt + b.debt /\ r.store = [a.store EXCEPT !.branches[a.id].status = "closed"]
    BY <2>2, <2>4 DEF HasFields, ClosingFields
  <2>6. /\ r.store.vault = a.store.vault /\ r.store.ticks = a.store.ticks
        /\ r.store.tick_ids = a.store.tick_ids /\ r.store.branches = br2
    BY <2>2, <2>5 DEF HasFields, StoreFields
  <2>7. /\ \A d \in BranchIds : d # id => br2[d] = br[d]
        /\ br2[id] = [b EXCEPT !.status = "closed"]
    BY <2>2 DEF BranchesShaped, b
  <2>8. HasFields(b, BranchFields)
    BY <2>2 DEF BranchesShaped, b
  <2> HIDE DEF br2
  <2>9. br2[id].status = "closed" /\ BranchBooked(br2[id])
    BY <2>3, <2>7, <2>8 DEF HasFields, BranchFields, BranchBooked
  <2>10. Booked(r.store)
    <3>1. ASSUME NEW d \in BranchIds PROVE BranchBooked(br2[d])
      <4>1. CASE d = id
        BY <4>1, <2>9
      <4>2. CASE d # id
        BY <4>2, <2>3, <2>7 DEF Booked
      <4> QED BY <4>1, <4>2
    <3> QED BY <3>1, <2>3, <2>6 DEF Booked
  <2>11. LentSum(r.store) = LentSum(a.store) - b.debt /\ LentSum(a.store) \in Nat
    <3>1. Lent(r.store.branches[id]) = 0 /\ Lent(br[id]) = b.debt
      BY <2>2, <2>6, <2>9 DEF Lent, b
    <3>2. OtherLent(a.store, r.store, id)
      BY <2>6, <2>7 DEF OtherLent
    <3>3. /\ LentSum(r.store) = LentSum(a.store) - Lent(a.store.branches[id])
                                  + Lent(r.store.branches[id])
          /\ LentSum(a.store) \in Nat
      <4>1. Lent(r.store.branches[id]) \in Nat
        BY <3>1
      <4> QED BY <4>1, <3>2, <2>2, <2>3, LentChanged
    <3> QED BY <3>1, <3>3, <2>3
  <2>12. r.debt + LentSum(r.store) = total /\ r.debt \in Nat
    BY <2>3, <2>5, <2>11
  <2> QED BY <2>10, <2>12 DEF ClosingBooks, r
<1> QED BY <1>1, <1>2

LEMMA CloseBranchesBooks ==
  ASSUME NEW s, NEW a, Closing(a, s), NEW total, ClosingBooks(a, total), NEW max \in Ticks
  PROVE  ClosingBooks(CloseBranches(a, max), total)
<1>1. PICK A : ClosingWalk(A, a, max)
  BY CloseBranchesWalks
<1>2. /\ A[0] = a
      /\ \A n \in 1 .. MaxBranches : A[n] = CloseBranch(A[n - 1], max)
      /\ CloseBranches(a, max) = A[MaxBranches]
  BY <1>1 DEF ClosingWalk
<1> DEFINE OK(n) == Closing(A[n], s) /\ ClosingBooks(A[n], total)
           bad == {n \in Nat : n <= MaxBranches /\ ~OK(n)}
<1>3. bad = {}
  <2>1. SUFFICES ASSUME bad # {} PROVE FALSE
    OBVIOUS
  <2>2. PICK m \in bad : \A k \in bad : m <= k
    BY <2>1, LeastNatural
  <2>3. m # 0
    BY <2>2, <1>2
  <2>4. m \in 1 .. MaxBranches /\ m - 1 \in Nat /\ m - 1 <= MaxBranches /\ m - 1 \notin bad
    BY <2>2, <2>3, StoreAssumption
  <2>5. OK(m - 1)
    BY <2>4
  <2>6. OK(m)
    BY <2>4, <2>5, <1>2, CloseBranchCloses, CloseBranchBooks
  <2> QED BY <2>2, <2>6
<1> QED BY <1>2, <1>3, StoreAssumption


(* The branch that an absorption writes was not liquidated.                 *)
LEMMA SettleBooks ==
  ASSUME NEW s, Linked(s), NEW a, Closing(a, s), AbsorbFits(s), NEW next
  PROVE  SameBooks(a.store, Settle(a, next))
<1> DEFINE r   == Settle(a, next)
           st  == a.store
           br  == st.branches
           liq == s.vault.liquidated
           id  == IF liq THEN s.vault.total + 1 ELSE s.vault.current
<1>1. /\ HasFields(s.vault, VaultFields)
      /\ Forest(s.branches, s.vault.total, s.vault.current) /\ TopLinked(s.vault, s.branches)
  BY DEF Linked, Shape
<1>2. /\ HasFields(st, StoreFields) /\ st.vault = s.vault /\ BranchesShaped(br)
      /\ Woods(br, s.vault.total)
      /\ \A b \in BranchIds : br[b].status = "not_liquidated"
                              <=> s.branches[b].status = "not_liquidated"
  BY DEF Closing
<1>3. id \in BranchIds /\ br[id].status = "not_liquidated"
  <2>1. s.vault.current \in BranchIds /\ s.vault.total \in BranchIds
    BY <1>1 DEF Forest, Woods
  <2>2. CASE liq
    <3>1. id = s.vault.total + 1 /\ s.vault.total < MaxBranches
      BY <2>2 DEF AbsorbFits
    <3>2. id \in BranchIds /\ id > s.vault.total
      BY <2>1, <3>1, StoreAssumption DEF BranchIds
    <3> HIDE DEF id, br
    <3> QED BY <3>2, <1>2 DEF Woods
  <2>3. CASE ~liq
    <3>1. s.branches[s.vault.current].status = "not_liquidated"
      BY <2>3, <1>1 DEF TopLinked
    <3> QED BY <2>1, <2>3, <3>1, <1>2
  <2> QED BY <2>2, <2>3
<1>4. CASE next >= a.minima
  <2> DEFINE e == Opened(a.id, a.minima)
  <2>1. /\ r.ticks = st.ticks /\ r.tick_ids = st.tick_ids
        /\ r.branches = [br EXCEPT ![id] = e]
        /\ r.vault = [s.vault EXCEPT !.top = next, !.liquidated = FALSE, !.current = id,
                                     !.total = IF liq THEN @ + 1 ELSE @]
    BY <1>2, <1>4 DEF Settle, Opened, HasFields, StoreFields
  <2> HIDE DEF r, id, br, e
  <2>2. /\ r.vault.absorbed_debt = s.vault.absorbed_debt
        /\ r.vault.absorbed_dust = s.vault.absorbed_dust /\ r.vault.borrow = s.vault.borrow
    BY <1>1, <2>1 DEF HasFields, VaultFields
  <2>3. \A b \in BranchIds : r.branches[b] = IF b = id THEN e ELSE br[b]
    BY <1>2, <2>1 DEF BranchesShaped
  <2>4. Vacant(e)
    BY VacantOpened DEF e
  <2> QED BY <1>2, <1>3, <2>1, <2>2, <2>3, <2>4 DEF SameBooks, r, br
<1>5. CASE ~(next >= a.minima)
  <2>1. /\ r.ticks = st.ticks /\ r.tick_ids = st.tick_ids
        /\ r.branches = (IF liq THEN br ELSE [br EXCEPT ![id] = EmptyBranch])
        /\ r.vault = [s.vault EXCEPT !.liquidated = TRUE, !.top = a.minima, !.current = a.id,
                                     !.total = IF liq THEN @ ELSE id - 1]
    BY <1>2, <1>5 DEF Settle, HasFields, StoreFields
  <2> HIDE DEF r, id, br
  <2>2. /\ r.vault.absorbed_debt = s.vault.absorbed_debt
        /\ r.vault.absorbed_dust = s.vault.absorbed_dust /\ r.vault.borrow = s.vault.borrow
    BY <1>1, <2>1 DEF HasFields, VaultFields
  <2>3. \A b \in BranchIds : r.branches[b] = br[b] \/ (b = id /\ r.branches[b] = EmptyBranch)
    BY <1>2, <2>1 DEF BranchesShaped
  <2> QED BY <1>2, <1>3, <2>1, <2>2, <2>3, VacantEmpty DEF SameBooks, r, br
<1> QED BY <1>4, <1>5

LEMMA AbsorbBooks ==
  ASSUME NEW s, Linked(s), Booked(s), AbsorbFits(s), s.vault.top \in Ticks, NEW max \in Ticks
  PROVE  LET r == Absorb(s, max)
         IN  /\ Booked(r) /\ DebtHeld(r) = DebtHeld(s)
             /\ r.vault.borrow = s.vault.borrow
             /\ r.vault.absorbed_dust = s.vault.absorbed_dust
<1> DEFINE taken == AbsorbTicks(s, max)
           t    == taken.store
           a    == AbsorbClosed(s, max)
           next == AbsorbNext(s, max)
           st   == Settle(a, next)
           r    == Absorb(s, max)
           a0   == AbsorbStart(s, max)
<1>1. /\ Linked(t) /\ t.vault = s.vault
      /\ Closing(a0, t) /\ Closing(a, t) /\ next \in Ticks \union {COLD_TICK}
  BY AbsorbCloses
<1>2. /\ Booked(t) /\ t.branches = s.branches
      /\ taken.debt \in Nat /\ RawSum(t) + taken.debt = RawSum(s)
  BY AbsorbTicksBooks
<1>3. a0.store = t /\ a0.debt = taken.debt /\ a = CloseBranches(a0, max)
  BY DEF AbsorbStart, AbsorbClosed
<1>4. r = [st EXCEPT !.vault.absorbed_debt = @ + a.debt, !.vault.absorbed_col = @ + a.col]
  BY DEF Absorb, AbsorbStart, AbsorbClosed, AbsorbNext
<1> HIDE DEF taken, t, a0, a, next
<1>5. LentSum(t) = LentSum(s) /\ LentSum(s) \in Nat /\ RawSum(s) \in Nat /\ RawSum(t) \in Nat
  BY <1>2, LentSame, HeldTyped
<1>6. Booked(a.store) /\ a.debt \in Nat /\ a.debt + LentSum(a.store) = taken.debt + LentSum(s)
  <2>1. ClosingBooks(a0, taken.debt + LentSum(s))
    BY <1>2, <1>3, <1>5 DEF ClosingBooks
  <2>2. ClosingBooks(a, taken.debt + LentSum(s))
    BY <1>1, <1>3, <2>1, CloseBranchesBooks
  <2> QED BY <2>2 DEF ClosingBooks
<1>7. SameBooks(a.store, st) /\ Linked(st)
  <2>1. AbsorbFits(t)
    BY <1>1 DEF AbsorbFits
  <2> QED BY <1>1, <2>1, SettleBooks, SettleLinked
<1>8. Booked(st) /\ DebtHeld(st) = DebtHeld(a.store)
  BY <1>6, <1>7, SameBooksKept
<1>9. a.store.vault = s.vault /\ RawSum(a.store) = RawSum(t)
  BY <1>1, RawSame DEF Closing
<1> HIDE DEF st, r
<1>10. /\ st.vault.absorbed_debt = s.vault.absorbed_debt /\ st.vault.borrow = s.vault.borrow
       /\ st.vault.absorbed_dust = s.vault.absorbed_dust /\ s.vault.absorbed_debt \in Nat
  BY <1>7, <1>9 DEF SameBooks, Booked, VaultBooked
<1>11. HasFields(st, StoreFields) /\ HasFields(st.vault, VaultFields)
  BY <1>7 DEF Linked, Shape
<1>12. /\ r.ticks = st.ticks /\ r.tick_ids = st.tick_ids /\ r.branches = st.branches
       /\ r.vault.absorbed_debt = st.vault.absorbed_debt + a.debt
       /\ r.vault.borrow = st.vault.borrow /\ r.vault.absorbed_dust = st.vault.absorbed_dust
  <2> DEFINE v == st.vault
             x == v.absorbed_debt + a.debt
             y == v.absorbed_col + a.col
  <2>1. /\ r.ticks = st.ticks /\ r.tick_ids = st.tick_ids /\ r.branches = st.branches
        /\ r.vault = [v EXCEPT !.absorbed_debt = x, !.absorbed_col = y]
    BY <1>4, <1>11 DEF HasFields, StoreFields, VaultFields
  <2>2. HasFields(v, VaultFields)
    BY <1>11
  <2> HIDE DEF v, x, y
  <2>3. /\ r.vault.absorbed_debt = x /\ r.vault.borrow = v.borrow
        /\ r.vault.absorbed_dust = v.absorbed_dust
    BY <2>1, <2>2 DEF HasFields, VaultFields
  <2> QED BY <2>1, <2>3 DEF v, x
<1>13. Booked(r)
  <2>1. VaultBooked(r.vault)
    BY <1>6, <1>8, <1>12 DEF Booked, VaultBooked
  <2> QED BY <1>8, <1>12, <2>1 DEF Booked
<1>14. RawSum(r) = RawSum(st) /\ LentSum(r) = LentSum(st)
  BY <1>12, RawSame, LentSame
<1>15. /\ DebtHeld(r) = r.vault.absorbed_debt + RawSum(r) + LentSum(r)
       /\ DebtHeld(st) = st.vault.absorbed_debt + RawSum(st) + LentSum(st)
       /\ DebtHeld(a.store) = s.vault.absorbed_debt + RawSum(t) + LentSum(a.store)
       /\ DebtHeld(s) = s.vault.absorbed_debt + RawSum(s) + LentSum(s)
  BY <1>9, HeldIsSum
<1>16. LentSum(a.store) \in Nat /\ RawSum(st) \in Nat /\ LentSum(st) \in Nat
  BY <1>6, <1>8, HeldTyped
<1>17. DebtHeld(r) = DebtHeld(s)
  <2>1. /\ RawSum(t) + taken.debt = RawSum(s) /\ a.debt + LentSum(a.store) = taken.debt + LentSum(s)
        /\ taken.debt \in Nat /\ a.debt \in Nat /\ s.vault.absorbed_debt \in Nat
        /\ RawSum(t) \in Nat /\ RawSum(s) \in Nat /\ RawSum(st) \in Nat
        /\ LentSum(s) \in Nat /\ LentSum(st) \in Nat /\ LentSum(a.store) \in Nat
    BY <1>2, <1>5, <1>6, <1>10, <1>16
  <2>2. s.vault.absorbed_debt + RawSum(st) + LentSum(st)
          = s.vault.absorbed_debt + RawSum(t) + LentSum(a.store)
    BY <1>8, <1>10, <1>15
  <2>3. DebtHeld(r) = s.vault.absorbed_debt + a.debt + RawSum(st) + LentSum(st)
    BY <1>10, <1>12, <1>14, <1>15
  <2> QED BY <2>1, <2>2, <2>3, <1>15
<1> QED BY <1>10, <1>12, <1>13, <1>17 DEF r

-----------------------------------------------------------------------------
(* The loop of liquidate: the debt that it carries is taken from the books  *)
(* and goes back to the branch it ends in, or to the liquidator.            *)

LEMMA PartialsTyped ==
  ASSUME NEW t \in Ticks, NEW ratio \in Int, RatioAtTick[t] <= ratio
  PROVE  ClampPartials(TickPartials(RatioAtTick[t], ratio)) \in 1 .. X30 - 1
<1> DEFINE r  == RatioAtTick[t]
           up == (r * TICK_SPACING) \div FOUR_DECIMALS
           a  == (ratio - r) * X30
<1>1. r \in Nat /\ up \in Nat /\ r < up
  BY RatioRises
<1>2. TickPartials(r, ratio) = a \div (up - r)
  BY DEF TickPartials
<1> HIDE DEF r, up
<1>3. a \in Nat /\ up - r \in Nat \ {0}
  BY <1>1, TickConstants DEF r
<1> HIDE DEF a
<1>4. TickPartials(r, ratio) \in Nat
  BY <1>2, <1>3, QuotientNatural
<1> HIDE DEF TickPartials
<1> QED BY <1>4, TickConstants DEF ClampPartials, r

LEMMA EndTickTyped ==
  ASSUME NEW l, l.debt \in Nat, l.col \in Nat, NEW ref, NEW debt \in Nat, NEW col \in Nat,
         debt <= l.debt, EndTick(l, ref, debt, col).fits
  PROVE  EndTick(l, ref, debt, col).partials \in 0 .. X30 - 1
<1> DEFINE ratio == RatioLeft(l, debt, col)
           tick  == TickAtRatio(ratio)
           part  == ClampPartials(TickPartials(RatioAtTick[tick], ratio))
<1>1. HasTick(ratio) /\ ~(col >= l.col)
  BY DEF EndTick
<1>2. EndTick(l, ref, debt, col).partials \in {1, part}
  BY <1>1 DEF EndTick
<1>3. ratio \in Int
  <2> DEFINE a == (l.debt - debt) * ZERO_TICK_SCALED_RATIO
             b == l.col - col
  <2>1. a \in Nat /\ b \in Nat \ {0}
    BY <1>1, TickConstants
  <2> HIDE DEF a, b
  <2>2. a \div b \in Nat
    BY <2>1, QuotientNatural
  <2> QED BY <2>2 DEF a, b, RatioLeft
<1> HIDE DEF ratio
<1>4. part \in 1 .. X30 - 1
  BY <1>1, <1>3, TickAtRatioBelow, PartialsTyped
<1> HIDE DEF part
<1> QED BY <1>2, <1>4, TickConstants

(* A tick that is taken keeps no debt and gets the factor of the loop.       *)
LEMMA TakenBooks ==
  ASSUME NEW ts, TicksShaped(ts), NEW x \in Ticks, NEW c, NEW f \in BigNumbers
  PROVE  LET T == Taken(ts, x, c, f)
         IN  TickBooked(T[x]) /\ T[x].raw_debt = 0
<1> DEFINE T   == Taken(ts, x, c, f)
           old == ts[x]
           q   == old.liquidation
<1>1. ts = [t \in Ticks |-> ts[t]] /\ HasFields(old, TickFields) /\ HasFields(q, LiquidationFields)
  BY DEF TicksShaped
<1>2. T[x] = [old EXCEPT !.raw_debt = 0, !.is_liquidated = TRUE,
                         !.liquidation.branch = c, !.liquidation.factor = f]
  BY <1>1 DEF Taken
<1> HIDE DEF T
<1> DEFINE q1 == [q EXCEPT !.branch = c]
           q2 == [q1 EXCEPT !.factor = f]
           o1 == [old EXCEPT !.raw_debt = 0, !.is_liquidated = TRUE]
           o2 == [o1 EXCEPT !.liquidation.branch = c]
           o3 == [o2 EXCEPT !.liquidation.factor = f]
<1> HIDE DEF old
<1>3. HasFields(o1, TickFields) /\ o1.raw_debt = 0 /\ o1.liquidation = q
  BY <1>1 DEF HasFields, TickFields
<1>4. HasFields(o2, TickFields) /\ o2.raw_debt = 0 /\ o2.liquidation = q1
  <2> HIDE DEF o1, q
  <2> QED BY <1>3 DEF HasFields, TickFields
<1>5. o3.raw_debt = 0 /\ o3.liquidation = q2
  <2> HIDE DEF o2, q1
  <2> QED BY <1>4 DEF HasFields, TickFields
<1>6. T[x] = o3
  BY <1>2
<1>7. q2.factor = f
  <2> HIDE DEF q
  <2> QED BY <1>1 DEF HasFields, LiquidationFields
<1> HIDE DEF q2, o3
<1>8. T[x].raw_debt = 0 /\ T[x].liquidation.factor = f
  BY <1>5, <1>6, <1>7
<1> QED BY <1>8 DEF TickBooked, T

(* The books of a loop that began with total in the store s; between two    *)
(* turns the debt of the branch it stands on is carried once a tick was      *)
(* taken, after the gathering it always is.                                 *)
LoopNumbers(l) ==
  /\ l.debt \in Nat /\ l.col \in Nat /\ l.remaining \in Nat /\ l.debt_liq \in Nat
  /\ l.ratio \in Nat \ {0} /\ l.factor \in BigNumbers
SameOwed(s, r) ==
  r.vault.borrow = s.vault.borrow /\ r.vault.absorbed_dust = s.vault.absorbed_dust
LoopBooked(l, s) == Booked(l.store) /\ LoopNumbers(l) /\ SameOwed(s, l.store)
LentHere(l) == Lent(l.store.branches[l.branch])
Carries(l, total, here) == DebtHeld(l.store) + l.debt + l.debt_liq = total + here
Going(l, s, total) ==
  /\ LoopBooked(l, s)
  /\ ~l.perfect => l.store.branches[l.branch].status = "liquidated"
  /\ Carries(l, total, IF l.perfect THEN LentHere(l) ELSE 0)
Gathered(g, s, total) == LoopBooked(g, s) /\ Carries(g, total, LentHere(g))
Done(l, s, total) ==
  /\ Booked(l.store) /\ l.debt_liq \in Nat /\ SameOwed(s, l.store)
  /\ DebtHeld(l.store) + l.debt_liq = total

LEMMA GatherBooks ==
  ASSUME NEW l, HasFields(l, LoopFields), Shape(l.store), Running(l), NEW s, NEW total \in Int,
         Going(l, s, total), NEW lt
  PROVE  Gathered(Gather(l, lt), s, total)
<1> DEFINE g  == Gather(l, lt)
           st == l.store
           here == st.branches[l.branch]
           more == IF l.perfect THEN st.ticks[l.tick].raw_debt ELSE here.debt
           T == IF l.perfect
                THEN [st.ticks EXCEPT ![l.tick].raw_debt = 0, ![l.tick].is_liquidated = TRUE,
                        ![l.tick].liquidation.branch = l.branch,
                        ![l.tick].liquidation.factor = l.factor]
                ELSE st.ticks
           col == l.col + (more * ZERO_TICK_SCALED_RATIO) \div l.ratio
<1>1. /\ HasFields(st, StoreFields) /\ TicksShaped(st.ticks)
      /\ l.branch \in BranchIds /\ l.tick \in Ticks
  BY DEF Shape, Running, Forest
<1>2. /\ Booked(st) /\ SameOwed(s, st) /\ l.factor \in BigNumbers
      /\ l.debt \in Nat /\ l.col \in Nat /\ l.remaining \in Nat /\ l.debt_liq \in Nat
      /\ l.ratio \in Nat \ {0}
      /\ ~l.perfect => here.status = "liquidated"
      /\ DebtHeld(st) + l.debt + l.debt_liq = total + (IF l.perfect THEN Lent(here) ELSE 0)
  BY DEF Going, LoopBooked, LoopNumbers, Carries, LentHere
<1>3. PICK index, next : g = [l EXCEPT !.debt = @ + more, !.col = col, !.first = FALSE,
                                       !.store.bits = index, !.store.ticks = T, !.next = next]
  BY DEF Gather
<1>4. more \in Nat /\ here.debt \in Nat /\ st.ticks[l.tick].raw_debt \in Nat /\ Lent(here) \in Nat
  BY <1>1, <1>2 DEF Booked, TickBooked, BranchBooked, Lent
<1>5. col \in Nat
  <2> HIDE DEF more
  <2> DEFINE a == more * ZERO_TICK_SCALED_RATIO
  <2>1. a \in Nat
    BY <1>4, TickConstants
  <2> HIDE DEF a
  <2>2. a \div l.ratio \in Nat
    BY <2>1, <1>2, QuotientNatural
  <2> QED BY <2>2, <1>2 DEF a
<1> HIDE DEF g, T, col, more, st
<1>6. /\ g.debt = l.debt + more /\ g.col = col /\ g.remaining = l.remaining
      /\ g.debt_liq = l.debt_liq /\ g.ratio = l.ratio /\ g.factor = l.factor
      /\ g.branch = l.branch /\ g.store = [st EXCEPT !.bits = index, !.ticks = T]
  BY <1>3 DEF HasFields, LoopFields, st
<1>7. /\ g.store.ticks = T /\ g.store.vault = st.vault /\ g.store.branches = st.branches
      /\ g.store.tick_ids = st.tick_ids
  BY <1>1, <1>6 DEF HasFields, StoreFields
<1>8. LentSum(g.store) = LentSum(st) /\ LentSum(st) \in Nat /\ RawSum(st) \in Nat
  BY <1>2, <1>7, LentSame, HeldTyped
<1>9. /\ \A t \in Ticks : TickBooked(T[t])
      /\ IF l.perfect THEN RawSum(g.store) = RawSum(st) - more /\ RawSum(g.store) \in Nat
                      ELSE RawSum(g.store) = RawSum(st)
  <2>1. CASE l.perfect
    <3>1. T = Taken(st.ticks, l.tick, l.branch, l.factor)
      BY <2>1 DEF Taken, T
    <3>2. TickBooked(T[l.tick]) /\ T[l.tick].raw_debt = 0
      BY <3>1, <1>1, <1>2, TakenBooks
    <3>3. \A t \in Ticks : t # l.tick => T[t] = st.ticks[t]
      BY <3>1, <1>1, TakenTick
    <3>4. \A t \in Ticks : TickBooked(T[t])
      BY <3>2, <3>3, <1>2 DEF Booked
    <3>5. g.store.ticks[l.tick].raw_debt = 0 /\ OtherRaws(st, g.store, l.tick)
      BY <3>2, <3>3, <1>7 DEF OtherRaws
    <3>6. /\ RawSum(g.store) = RawSum(st) - st.ticks[l.tick].raw_debt
                                 + g.store.ticks[l.tick].raw_debt
          /\ RawSum(g.store) \in Nat
      <4>1. g.store.ticks[l.tick].raw_debt \in Nat
        BY <3>5
      <4> QED BY <4>1, <3>5, <1>1, <1>2, RawChanged
    <3>7. RawSum(g.store) = RawSum(st) - more
      BY <2>1, <3>5, <3>6, <1>4, <1>8 DEF more
    <3> QED BY <2>1, <3>4, <3>6, <3>7
  <2>2. CASE ~l.perfect
    <3>1. T = st.ticks
      BY <2>2 DEF T
    <3> QED BY <2>2, <3>1, <1>2, <1>7, RawSame DEF Booked
  <2> QED BY <2>1, <2>2
<1>10. Booked(g.store) /\ SameOwed(s, g.store)
  BY <1>2, <1>7, <1>9 DEF Booked, SameOwed
<1>11. LoopNumbers(g)
  BY <1>2, <1>4, <1>5, <1>6 DEF LoopNumbers
<1>12. /\ DebtHeld(g.store) = st.vault.absorbed_debt + RawSum(g.store) + LentSum(st)
       /\ DebtHeld(st) = st.vault.absorbed_debt + RawSum(st) + LentSum(st)
       /\ st.vault.absorbed_debt \in Nat
  BY <1>2, <1>7, <1>8, HeldIsSum DEF Booked, VaultBooked
<1>13. DebtHeld(g.store) + g.debt + g.debt_liq = total + Lent(here)
  <2>1. CASE l.perfect
    <3>1. DebtHeld(st) + l.debt + l.debt_liq = total + Lent(here)
      BY <2>1, <1>2
    <3>2. RawSum(g.store) = RawSum(st) - more /\ RawSum(g.store) \in Nat
      BY <2>1, <1>9
    <3>3. g.debt = l.debt + more /\ g.debt_liq = l.debt_liq
      BY <1>6
    <3> HIDE DEF here
    <3> QED BY <3>1, <3>2, <3>3, <1>2, <1>4, <1>8, <1>12
  <2>2. CASE ~l.perfect
    <3>1. DebtHeld(st) + l.debt + l.debt_liq = total
      BY <2>2, <1>2
    <3>2. RawSum(g.store) = RawSum(st) /\ Lent(here) = more
      BY <2>2, <1>2, <1>9 DEF Lent, more
    <3>3. DebtHeld(g.store) = DebtHeld(st) /\ DebtHeld(st) \in Nat
      BY <3>2, <1>8, <1>12
    <3>4. g.debt = l.debt + Lent(here) /\ g.debt_liq = l.debt_liq
      BY <1>6, <3>2
    <3>5. l.debt \in Nat /\ l.debt_liq \in Nat /\ Lent(here) \in Nat
      BY <1>2, <1>4
    <3> HIDE DEF here
    <3> QED BY <3>1, <3>3, <3>4, <3>5
  <2> QED BY <2>1, <2>2
<1>14. LentHere(g) = Lent(here)
  BY <1>6, <1>7 DEF LentHere, st
<1> QED BY <1>10, <1>11, <1>13, <1>14 DEF Gathered, LoopBooked, Carries, g


LEMMA ReferenceTyped ==
  ASSUME NEW l, Running(l), Booked(l.store), NEW lt \in Ticks
  PROVE  LET ref == Reference(l, lt)
             k   == l.store.branches[l.branch].connected
         IN  /\ ref.ratio \in Nat \ {0} /\ ref.status \in {"liquidated", "perfect", "threshold"}
             /\ ref.status = "liquidated" =>
                  k \in BranchIds /\ k # l.branch /\ l.store.branches[k].status = "liquidated"
<1> DEFINE ref  == Reference(l, lt)
           b    == l.store.branches[l.branch]
           base == l.store.branches[b.connected]
           m    == b.connected_minima_tick
<1>1. /\ m \in Ticks \union {COLD_TICK} /\ (m = COLD_TICK <=> b.connected = 0)
      /\ l.next \in Ticks \union {COLD_TICK} /\ l.branch \in BranchIds
      /\ b.connected \in 0 .. l.branch - 1
      /\ b.connected # 0 => base.status = "liquidated"
  BY DEF Running, Forest, Chained
<1>2. m \in Int /\ l.next \in Int /\ lt \in Int /\ COLD_TICK < lt /\ COLD_TICK \in Int
  <2>1. Ticks \union {COLD_TICK} \subseteq Int
    BY TickRange
  <2> HIDE DEF m
  <2> QED BY <2>1, <1>1, TickRange
<1>3. b.connected # 0 => b.connected \in BranchIds /\ b.connected # l.branch
  BY <1>1, BranchIdsClosed
<1> HIDE DEF m
<1>4. CASE m > Greatest(l.next, lt)
  <2>1. ref.ratio = PartialsRatio(m, base.partials) /\ ref.status = "liquidated"
    BY <1>4 DEF Reference, m
  <2>2. m # COLD_TICK
    BY <1>2, <1>4 DEF Greatest
  <2>3. m \in Ticks /\ b.connected # 0 /\ base.partials \in Nat
    BY <2>2, <1>1, <1>3 DEF Booked, BranchBooked
  <2>4. PartialsRatio(m, base.partials) \in Nat \ {0}
    BY <2>3, PartialsRatioPositive
  <2> QED BY <2>1, <2>3, <2>4, <1>1, <1>3
<1>5. CASE ~(m > Greatest(l.next, lt)) /\ l.next > lt
  <2>1. ref.ratio = RatioAtTick[l.next] /\ ref.status = "perfect"
    BY <1>5 DEF Reference, m
  <2>2. l.next \in Ticks
    BY <1>1, <1>2, <1>5
  <2> QED BY <2>1, <2>2, RatioPositive
<1>6. CASE ~(m > Greatest(l.next, lt)) /\ ~(l.next > lt)
  <2>1. ref.ratio = RatioAtTick[lt] /\ ref.status = "threshold"
    BY <1>6 DEF Reference, m
  <2> QED BY <2>1, RatioPositive
<1> QED BY <1>4, <1>5, <1>6

LEMMA DebtLiquidatedTyped ==
  ASSUME NEW l, LoopNumbers(l), NEW ref, ref.ratio \in Nat, NEW cpd \in Nat,
         CanSell(l, ref, cpd)
  PROVE  DebtLiquidated(l, ref, cpd) \in Nat
<1> DEFINE p == ref.ratio * l.debt
           q == cpd * ref.ratio
           u == p \div l.ratio
           v == q \div ZERO_TICK_SCALED_RATIO
           a == (l.debt - u) * RATE_PRECISION
           b == RATE_PRECISION - v
<1>1. /\ l.debt \in Nat /\ l.ratio \in Nat \ {0} /\ u <= l.debt /\ v < RATE_PRECISION
      /\ p \in Nat /\ q \in Nat
  BY DEF LoopNumbers, CanSell
<1>2. DebtLiquidated(l, ref, cpd) = a \div b
  BY DEF DebtLiquidated
<1> HIDE DEF p, q
<1>3. u \in Nat /\ v \in Nat
  BY <1>1, TickConstants, QuotientNatural
<1> HIDE DEF u, v
<1>4. a \in Nat /\ b \in Nat \ {0}
  BY <1>1, <1>3, DebtConstants
<1> HIDE DEF a, b
<1> QED BY <1>2, <1>4, QuotientNatural

LEMMA ColLiquidatedTyped ==
  ASSUME NEW debt \in Nat, NEW cpd \in Nat
  PROVE  ColLiquidated(debt, cpd) \in Nat
<1> DEFINE a == debt * cpd
<1>1. a \in Nat /\ ColLiquidated(debt, cpd) = a \div RATE_PRECISION
  BY DEF ColLiquidated
<1> HIDE DEF a
<1> QED BY <1>1, DebtConstants, QuotientNatural

LEMMA SellBooks ==
  ASSUME NEW l, HasFields(l, LoopFields), LoopNumbers(l), l.debt # 0,
         NEW debt \in Nat, NEW col \in Nat, ~Sell(l, debt, col).failed
  PROVE  LET sold == Sell(l, debt, col)
         IN  /\ sold.debt = l.debt - debt /\ debt <= l.debt /\ sold.debt_liq = l.debt_liq + debt
             /\ LoopNumbers(sold)
<1> DEFINE sold   == Sell(l, debt, col)
           number == (TwoPowerPrecision * (l.debt - debt)) \div l.debt
           factor == MulDivBigNumber(l.factor, number)
           failed == l.failed \/ debt > l.debt \/ col > l.col \/ factor = BNError
<1>1. /\ l.debt \in Nat /\ l.col \in Nat /\ l.remaining \in Nat /\ l.debt_liq \in Nat
      /\ l.ratio \in Nat \ {0} /\ l.factor \in BigNumbers
  BY DEF LoopNumbers
<1>2. sold = [l EXCEPT !.debt = @ - debt, !.col = @ - col, !.debt_liq = @ + debt,
                       !.col_liq = @ + col, !.factor = factor, !.failed = failed]
  BY DEF Sell
<1> HIDE DEF sold, factor, failed
<1>3. /\ sold.debt = l.debt - debt /\ sold.col = l.col - col /\ sold.debt_liq = l.debt_liq + debt
      /\ sold.factor = factor /\ sold.failed = failed /\ sold.remaining = l.remaining
      /\ sold.ratio = l.ratio
  BY <1>2 DEF HasFields, LoopFields
<1>4. debt <= l.debt /\ col <= l.col /\ factor # BNError
  <2>1. ~failed
    <3>1. ~sold.failed /\ sold.failed = failed
      BY <1>3 DEF sold
    <3> QED BY <3>1, Zenon
  <2>2. ~(debt > l.debt) /\ ~(col > l.col) /\ factor # BNError
    BY <2>1 DEF failed
  <2> QED BY <2>2, <1>1
<1>5. factor \in BigNumbers
  <2> DEFINE a == TwoPowerPrecision * (l.debt - debt)
  <2>1. a \in Nat /\ number = a \div l.debt
    BY <1>1, <1>4, ConstantFactors
  <2> HIDE DEF a, number
  <2>2. number \in Nat /\ number <= TwoPowerPrecision
    <3> DEFINE w == TwoPowerPrecision
               d == l.debt
    <3>1. w \in Nat \ {0} /\ d \in Nat \ {0} /\ debt \in Nat /\ debt <= d /\ a = w * (d - debt)
      BY <1>1, <1>4, Sizes DEF a
    <3>2. number = a \div d
      BY <2>1
    <3> HIDE DEF w, d
    <3>3. w * (d - debt) <= w * d
      BY <3>1
    <3>4. number \in Nat /\ d * number <= a
      BY <3>1, <3>2, <2>1, QuotientBelow
    <3>5. number <= w
      <4>1. SUFFICES ASSUME w + 1 <= number PROVE FALSE
        BY <3>1, <3>4
      <4>2. d * (w + 1) <= d * number
        BY <3>1, <3>4, <4>1
      <4>3. d * (w + 1) = w * d + d /\ w * d \in Nat /\ d * number \in Nat
        BY <3>1, <3>4
      <4> QED BY <3>1, <3>3, <3>4, <4>2, <4>3, <2>1
    <3> QED BY <3>4, <3>5 DEF w
  <2>3. BigOrError(factor)
    BY <2>2, <1>1, MulDivBigNumberTyped DEF factor
  <2> QED BY <2>3, <1>4 DEF BigOrError
<1> QED BY <1>1, <1>3, <1>4, <1>5 DEF LoopNumbers, sold

(* One branch of the loop's store is written, and not the ticks.             *)
BranchWritten(s, r, c, e) ==
  /\ r.ticks = s.ticks /\ r.tick_ids = s.tick_ids
  /\ r.branches[c] = e /\ \A b \in BranchIds : b # c => r.branches[b] = s.branches[b]
  /\ r.vault.absorbed_debt = s.vault.absorbed_debt
  /\ r.vault.absorbed_dust = s.vault.absorbed_dust /\ r.vault.borrow = s.vault.borrow

LEMMA BranchWrittenBooks ==
  ASSUME NEW s, Booked(s), NEW c \in BranchIds, NEW e, BranchBooked(e), NEW r,
         BranchWritten(s, r, c, e)
  PROVE  /\ Booked(r) /\ SameOwed(s, r)
         /\ DebtHeld(r) = DebtHeld(s) - Lent(s.branches[c]) + Lent(e)
         /\ Lent(s.branches[c]) \in Nat /\ DebtHeld(s) \in Nat
<1>1. /\ r.ticks = s.ticks /\ r.tick_ids = s.tick_ids /\ r.branches[c] = e
      /\ \A b \in BranchIds : b # c => r.branches[b] = s.branches[b]
      /\ r.vault.absorbed_debt = s.vault.absorbed_debt
      /\ r.vault.absorbed_dust = s.vault.absorbed_dust /\ r.vault.borrow = s.vault.borrow
  BY DEF BranchWritten
<1>2. Booked(r)
  <2>1. ASSUME NEW b \in BranchIds PROVE BranchBooked(r.branches[b])
    <3>1. CASE b = c
      BY <1>1, <3>1
    <3>2. CASE b # c
      BY <1>1, <3>2 DEF Booked
    <3> QED BY <3>1, <3>2
  <2> QED BY <1>1, <2>1 DEF Booked, VaultBooked
<1>3. Lent(e) \in Nat /\ Lent(s.branches[c]) \in Nat
  BY BookedCounts DEF BranchBooked, Lent
<1>4. LentSum(r) = LentSum(s) - Lent(s.branches[c]) + Lent(e) /\ LentSum(s) \in Nat
  <2>1. OtherLent(s, r, c) /\ Lent(r.branches[c]) = Lent(e)
    BY <1>1 DEF OtherLent
  <2>2. /\ LentSum(r) = LentSum(s) - Lent(s.branches[c]) + Lent(r.branches[c])
        /\ LentSum(s) \in Nat
    <3>1. Lent(r.branches[c]) \in Nat
      BY <2>1, <1>3
    <3> QED BY <3>1, <2>1, LentChanged
  <2> QED BY <2>1, <2>2
<1>5. RawSum(r) = RawSum(s) /\ RawSum(s) \in Nat /\ s.vault.absorbed_debt \in Nat
  BY <1>1, RawSame, HeldTyped DEF Booked, VaultBooked
<1>6. /\ DebtHeld(r) = s.vault.absorbed_debt + RawSum(r) + LentSum(r)
      /\ DebtHeld(s) = s.vault.absorbed_debt + RawSum(s) + LentSum(s)
  BY <1>1, HeldIsSum
<1> QED BY <1>1, <1>2, <1>3, <1>4, <1>5, <1>6 DEF SameOwed


(* What is left of the debt is the branch's again, the rest is paid for.     *)
LEMMA EndBooks ==
  ASSUME NEW l, HasFields(l, LoopFields), Shape(l.store), Running(l), NEW s, NEW total \in Int,
         Gathered(l, s, total), l.debt # 0, NEW lt, NEW due \in Nat, NEW col_due \in Nat,
         NEW cpd \in Nat, ~EndLiquidation(l, Reference(l, lt), due, col_due, cpd).failed
  PROVE  Done(EndLiquidation(l, Reference(l, lt), due, col_due, cpd), s, total)
<1> DEFINE ref   == Reference(l, lt)
           r     == EndLiquidation(l, ref, due, col_due, cpd)
           short == due >= l.remaining
           debt  == IF short THEN l.remaining ELSE due
           col   == IF short THEN ColLiquidated(debt, cpd) ELSE col_due
           end   == IF short THEN EndTick(l, ref, debt, col)
                    ELSE [tick |-> ref.tick + 1, partials |-> 1, fits |-> TRUE]
           sold  == Sell(l, debt, col)
           st    == l.store
           c     == l.branch
           here  == st.branches[c]
           failed == sold.failed \/ ~end.fits \/ sold.debt < MINIMUM_BRANCH_DEBT
           e     == [here EXCEPT !.status = "liquidated", !.minima_tick = end.tick,
                        !.partials = end.partials, !.debt = sold.debt, !.factor = sold.factor]
           B     == [st.branches EXCEPT ![c] = e]
           V     == [st.vault EXCEPT !.liquidated = TRUE, !.top = end.tick, !.current = c]
<1>1. /\ HasFields(sold, LoopFields) /\ sold.store = st
      /\ HasFields(st, StoreFields) /\ HasFields(st.vault, VaultFields)
      /\ BranchesShaped(st.branches) /\ c \in BranchIds
  BY SellKeeps DEF Shape, Running, Forest
<1>2. /\ Booked(st) /\ LoopNumbers(l) /\ SameOwed(s, st)
      /\ DebtHeld(st) + l.debt + l.debt_liq = total + Lent(here)
      /\ l.debt \in Nat /\ l.debt_liq \in Nat /\ l.col \in Nat /\ l.remaining \in Nat
  BY DEF Gathered, LoopBooked, Carries, LentHere, LoopNumbers
<1>3. r = [sold EXCEPT !.ended = TRUE, !.failed = failed,
             !.store.branches[c] = [@ EXCEPT !.status = "liquidated", !.minima_tick = end.tick,
                !.partials = end.partials, !.debt = sold.debt, !.factor = sold.factor],
             !.store.vault = [@ EXCEPT !.liquidated = TRUE, !.top = end.tick, !.current = c]]
  BY DEF EndLiquidation
<1>4. ~r.failed
  OBVIOUS
<1>5. debt \in Nat /\ col \in Nat
  BY <1>2, ColLiquidatedTyped
<1> HIDE DEF sold, failed, end
<1>6. r.failed = failed /\ r.debt_liq = sold.debt_liq /\ r.store = [st EXCEPT !.branches = B, !.vault = V]
  <2> HIDE DEF st, c
  <2>1. /\ r.failed = failed /\ r.debt_liq = sold.debt_liq
        /\ r.store = [st EXCEPT !.branches[c] = [@ EXCEPT !.status = "liquidated",
                          !.minima_tick = end.tick, !.partials = end.partials, !.debt = sold.debt,
                          !.factor = sold.factor],
                        !.vault = [@ EXCEPT !.liquidated = TRUE, !.top = end.tick, !.current = c]]
    BY <1>1, <1>3 DEF HasFields, LoopFields
  <2>2. r.store = [st EXCEPT !.branches = B, !.vault = V]
    BY <2>1, <1>1 DEF HasFields, StoreFields, here
  <2> HIDE DEF r, B, V
  <2> QED BY <2>1, <2>2
<1> HIDE DEF r, B, V
<1>7. ~sold.failed /\ end.fits
  <2>1. ~failed
    BY <1>4, <1>6, Zenon
  <2> QED BY <2>1, Zenon DEF failed
<1>8. /\ sold.debt = l.debt - debt /\ debt <= l.debt /\ sold.debt_liq = l.debt_liq + debt
      /\ LoopNumbers(sold)
  <2> HIDE DEF debt, col
  <2> QED BY <1>2, <1>5, <1>7, SellBooks DEF sold
<1>9. end.partials \in 0 .. X30 - 1
  <2>1. CASE short
    <3>1. end = EndTick(l, ref, debt, col)
      BY <2>1 DEF end
    <3> HIDE DEF debt, col, ref
    <3> QED BY <3>1, <1>2, <1>5, <1>7, <1>8, EndTickTyped
  <2>2. CASE ~short
    BY <2>2, TickConstants DEF end
  <2> QED BY <2>1, <2>2
<1>10. BranchBooked(e) /\ Lent(e) = sold.debt
  <2>1. HasFields(here, BranchFields)
    BY <1>1 DEF BranchesShaped
  <2>2. sold.debt \in Nat /\ sold.factor \in BigNumbers
    BY <1>8 DEF LoopNumbers
  <2> HIDE DEF here, c
  <2>3. /\ e.status = "liquidated" /\ e.debt = sold.debt /\ e.partials = end.partials
        /\ e.factor = sold.factor
    BY <2>1 DEF HasFields, BranchFields
  <2> HIDE DEF e
  <2> QED BY <2>2, <2>3, <1>9 DEF BranchBooked, Lent
<1> HIDE DEF e
<1>11. BranchWritten(st, r.store, c, e)
  <2>1. r.store.branches = B /\ r.store.vault = V /\ r.store.ticks = st.ticks
        /\ r.store.tick_ids = st.tick_ids
    BY <1>1, <1>6 DEF HasFields, StoreFields
  <2>2. B[c] = e /\ \A b \in BranchIds : b # c => B[b] = st.branches[b]
    <3> HIDE DEF st, c
    <3> QED BY <1>1 DEF B, BranchesShaped
  <2>3. /\ V.absorbed_debt = st.vault.absorbed_debt /\ V.borrow = st.vault.borrow
        /\ V.absorbed_dust = st.vault.absorbed_dust
    <3> HIDE DEF st, c
    <3> QED BY <1>1 DEF V, HasFields, VaultFields
  <2> QED BY <2>1, <2>2, <2>3 DEF BranchWritten
<1>12. /\ Booked(r.store) /\ SameOwed(st, r.store)
       /\ DebtHeld(r.store) = DebtHeld(st) - Lent(here) + Lent(e)
       /\ Lent(here) \in Nat /\ DebtHeld(st) \in Nat
  <2> HIDE DEF st, c
  <2> QED BY <1>1, <1>2, <1>10, <1>11, BranchWrittenBooks DEF here
<1>13. DebtHeld(r.store) + r.debt_liq = total
  <2>1. /\ DebtHeld(st) + l.debt + l.debt_liq = total + Lent(here)
        /\ DebtHeld(r.store) = DebtHeld(st) - Lent(here) + (l.debt - debt)
        /\ r.debt_liq = l.debt_liq + debt
    BY <1>2, <1>6, <1>8, <1>10, <1>12
  <2> HIDE DEF debt, here
  <2> QED BY <2>1, <1>2, <1>5, <1>12
<1>14. r.debt_liq \in Nat
  <2> HIDE DEF debt
  <2> QED BY <1>2, <1>5, <1>6, <1>8
<1>15. SameOwed(s, r.store)
  BY <1>2, <1>12 DEF SameOwed
<1> QED BY <1>12, <1>13, <1>14, <1>15 DEF Done, r, ref

(* A branch that merges hands its debt on, which the loop carries.           *)
LEMMA MergeBooks ==
  ASSUME NEW l, HasFields(l, LoopFields), Shape(l.store), Running(l), NEW s, NEW total \in Int,
         LoopBooked(l, s), Carries(l, total, LentHere(l)),
         l.store.branches[l.branch].connected \in BranchIds, ~Merge(l).failed
  PROVE  LET r == Merge(l)
         IN  /\ LoopBooked(r, s) /\ Carries(r, total, 0) /\ ~l.failed
             /\ r.branch = l.store.branches[l.branch].connected
             /\ \A b \in BranchIds : b # l.branch => r.store.branches[b] = l.store.branches[b]
<1> DEFINE r  == Merge(l)
           st == l.store
           c  == l.branch
           b  == st.branches[c]
           k  == b.connected
           factor == st.branches[k].factor
           link   == DivBigNumber(factor, l.factor)
           failed == l.failed \/ link = BNError
           e  == [b EXCEPT !.status = "merged", !.minima_tick = COLD_TICK, !.partials = 0,
                           !.debt = 0, !.factor = link]
           B  == [st.branches EXCEPT ![c] = e]
<1>1. /\ HasFields(st, StoreFields) /\ BranchesShaped(st.branches)
      /\ c \in BranchIds /\ HasFields(b, BranchFields)
  BY DEF Shape, Running, Forest, BranchesShaped
<1>2. /\ Booked(st) /\ LoopNumbers(l) /\ SameOwed(s, st)
      /\ DebtHeld(st) + l.debt + l.debt_liq = total + Lent(b)
      /\ l.debt \in Nat /\ l.debt_liq \in Nat /\ l.factor \in BigNumbers
  BY DEF LoopBooked, Carries, LentHere, LoopNumbers
<1>3. factor \in BigNumbers /\ ~r.failed
  BY <1>2 DEF Booked, BranchBooked
<1>4. r = [l EXCEPT !.branch = k, !.factor = factor, !.failed = failed,
                    !.store.branches[c] = [@ EXCEPT !.status = "merged",
                       !.minima_tick = COLD_TICK, !.partials = 0, !.debt = 0, !.factor = link]]
  BY DEF Merge
<1> HIDE DEF r, factor, link, failed
<1>5. /\ r.branch = k /\ r.factor = factor /\ r.failed = failed /\ r.debt = l.debt
      /\ r.col = l.col /\ r.remaining = l.remaining /\ r.debt_liq = l.debt_liq
      /\ r.ratio = l.ratio /\ r.store = [st EXCEPT !.branches = B]
  <2> HIDE DEF st, c, k
  <2>1. /\ r.branch = k /\ r.factor = factor /\ r.failed = failed /\ r.debt = l.debt
        /\ r.col = l.col /\ r.remaining = l.remaining /\ r.debt_liq = l.debt_liq
        /\ r.ratio = l.ratio
        /\ r.store = [st EXCEPT !.branches[c] = [@ EXCEPT !.status = "merged",
                        !.minima_tick = COLD_TICK, !.partials = 0, !.debt = 0, !.factor = link]]
    BY <1>4 DEF HasFields, LoopFields, st
  <2>2. r.store = [st EXCEPT !.branches = B]
    BY <2>1, <1>1 DEF HasFields, StoreFields
  <2> HIDE DEF B
  <2> QED BY <2>1, <2>2
<1> HIDE DEF B
<1>6. ~l.failed /\ link # BNError
  <2>1. ~failed
    BY <1>3, <1>5, Zenon
  <2> QED BY <2>1, Zenon DEF failed
<1>7. link \in BigNumbers
  <2>1. BigOrError(link)
    <3> HIDE DEF factor
    <3> QED BY <1>2, <1>3, DivBigNumberTyped DEF link
  <2> QED BY <2>1, <1>6 DEF BigOrError
<1>8. BranchBooked(e) /\ Lent(e) = 0
  <2> HIDE DEF b
  <2>1. e.status = "merged" /\ e.debt = 0 /\ e.partials = 0 /\ e.factor = link
    BY <1>1 DEF HasFields, BranchFields
  <2> HIDE DEF e
  <2> QED BY <2>1, <1>7, BigZeroOK DEF BranchBooked, Lent
<1> HIDE DEF e
<1>9. BranchWritten(st, r.store, c, e)
  <2>1. r.store.branches = B /\ r.store.vault = st.vault /\ r.store.ticks = st.ticks
        /\ r.store.tick_ids = st.tick_ids
    BY <1>1, <1>5 DEF HasFields, StoreFields
  <2>2. B[c] = e /\ \A d \in BranchIds : d # c => B[d] = st.branches[d]
    <3> HIDE DEF st, c
    <3> QED BY <1>1 DEF B, BranchesShaped
  <2> QED BY <2>1, <2>2 DEF BranchWritten
<1>10. /\ Booked(r.store) /\ SameOwed(st, r.store)
       /\ DebtHeld(r.store) = DebtHeld(st) - Lent(b) + 0
       /\ Lent(b) \in Nat /\ DebtHeld(st) \in Nat
  <2> HIDE DEF st, c
  <2> QED BY <1>1, <1>2, <1>8, <1>9, BranchWrittenBooks DEF b
<1>11. LoopNumbers(r)
  BY <1>2, <1>3, <1>5 DEF LoopNumbers
<1>12. DebtHeld(r.store) + r.debt + r.debt_liq = total + 0
  <2>1. /\ DebtHeld(st) + l.debt + l.debt_liq = total + Lent(b)
        /\ DebtHeld(r.store) = DebtHeld(st) - Lent(b)
        /\ r.debt = l.debt /\ r.debt_liq = l.debt_liq
    BY <1>2, <1>5, <1>10
  <2> HIDE DEF b
  <2> QED BY <2>1, <1>2, <1>10
<1>13. SameOwed(s, r.store)
  BY <1>2, <1>10 DEF SameOwed
<1>14. \A d \in BranchIds : d # l.branch => r.store.branches[d] = l.store.branches[d]
  BY <1>9 DEF BranchWritten
<1> QED BY <1>5, <1>6, <1>10, <1>11, <1>12, <1>13, <1>14 DEF LoopBooked, Carries, r


LEMMA OnwardBooks ==
  ASSUME NEW l, HasFields(l, LoopFields), Shape(l.store), Running(l), NEW s, NEW total \in Int,
         Gathered(l, s, total), l.debt # 0, NEW lt \in Ticks, NEW debt \in Nat, NEW col \in Nat,
         debt < l.remaining, Reference(l, lt).status # "threshold",
         ~Onward(l, Reference(l, lt), debt, col).failed
  PROVE  Going(Onward(l, Reference(l, lt), debt, col), s, total)
<1> DEFINE ref  == Reference(l, lt)
           r    == Onward(l, ref, debt, col)
           s1   == Sell(l, debt, col)
           sold == [s1 EXCEPT !.remaining = @ - debt]
           at   == IF ref.status = "liquidated" THEN Merge(sold) ELSE sold
           k    == l.store.branches[l.branch].connected
<1>1. r = [at EXCEPT !.tick = ref.tick, !.ratio = ref.ratio, !.perfect = (ref.status = "perfect")]
  BY DEF Onward
<1>2. /\ Booked(l.store) /\ LoopNumbers(l) /\ SameOwed(s, l.store)
      /\ DebtHeld(l.store) + l.debt + l.debt_liq = total + LentHere(l)
      /\ l.debt \in Nat /\ l.debt_liq \in Nat /\ l.remaining \in Nat
  BY DEF Gathered, LoopBooked, Carries, LoopNumbers
<1>3. /\ ref.ratio \in Nat \ {0} /\ ref.status \in {"liquidated", "perfect", "threshold"}
      /\ ref.status = "liquidated" =>
           k \in BranchIds /\ k # l.branch /\ l.store.branches[k].status = "liquidated"
  BY <1>2, ReferenceTyped
<1>4. /\ HasFields(s1, LoopFields) /\ s1.store = l.store /\ s1.branch = l.branch
      /\ s1.tick = l.tick /\ s1.next = l.next /\ s1.remaining = l.remaining
  BY SellKeeps
<1>5. ~r.failed
  OBVIOUS
<1> HIDE DEF ref, r, s1
<1>6. /\ HasFields(sold, LoopFields) /\ sold.store = l.store /\ sold.branch = l.branch
      /\ sold.tick = l.tick /\ sold.next = l.next /\ sold.failed = s1.failed
      /\ sold.remaining = l.remaining - debt /\ sold.debt = s1.debt /\ sold.col = s1.col
      /\ sold.debt_liq = s1.debt_liq /\ sold.ratio = s1.ratio /\ sold.factor = s1.factor
  BY <1>4 DEF HasFields, LoopFields
<1> HIDE DEF sold
<1>7. Shape(sold.store) /\ Running(sold) /\ LentHere(sold) = LentHere(l)
  BY <1>6 DEF Running, LentHere
<1>8. ASSUME ~s1.failed PROVE LoopBooked(sold, s) /\ Carries(sold, total, LentHere(sold))
  <2>1. /\ s1.debt = l.debt - debt /\ debt <= l.debt /\ s1.debt_liq = l.debt_liq + debt
        /\ LoopNumbers(s1)
    BY <1>2, <1>8, SellBooks DEF s1
  <2>2. LoopNumbers(sold)
    BY <2>1, <1>2, <1>6 DEF LoopNumbers
  <2>3. DebtHeld(l.store) \in Nat /\ LentHere(l) \in Nat
    BY <1>2, HeldTyped, BookedCounts DEF LentHere, Running, Forest
  <2>4. DebtHeld(sold.store) + sold.debt + sold.debt_liq = total + LentHere(sold)
    BY <2>1, <2>3, <1>2, <1>6, <1>7
  <2> QED BY <2>2, <2>4, <1>2, <1>6 DEF LoopBooked, Carries
<1>9. CASE ref.status = "liquidated"
  <2>1. at = Merge(sold) /\ sold.store.branches[sold.branch].connected = k
    BY <1>6, <1>9
  <2> DEFINE M == Merge(sold)
             S == sold.store
  <2>2. HasFields(M, LoopFields)
    <3>1. sold.store.branches[sold.branch].connected # 0
      BY <1>3, <1>9, <2>1, BranchIdsClosed
    <3> QED BY <3>1, <1>6, <1>7, MergeRuns
  <2>3. r = [M EXCEPT !.tick = ref.tick, !.ratio = ref.ratio, !.perfect = FALSE]
    BY <1>1, <1>9, <2>1
  <2>4. M.failed = (sold.failed \/ DivBigNumber(S.branches[k].factor, sold.factor) = BNError)
    BY <1>6, <2>1 DEF Merge, HasFields, LoopFields
  <2> HIDE DEF M
  <2>5. /\ r.store = M.store /\ r.branch = M.branch /\ r.debt = M.debt /\ r.col = M.col
        /\ r.remaining = M.remaining /\ r.debt_liq = M.debt_liq /\ r.factor = M.factor
        /\ r.ratio = ref.ratio /\ r.perfect = FALSE /\ r.failed = M.failed
    BY <2>2, <2>3 DEF HasFields, LoopFields
  <2>6. ~M.failed /\ ~sold.failed /\ ~s1.failed
    <3>1. ~M.failed
      BY <1>5, <2>5, Zenon
    <3>2. ~sold.failed
      BY <3>1, <2>4, Zenon
    <3> QED BY <3>1, <3>2, <1>6, Zenon
  <2>7. /\ LoopBooked(M, s) /\ Carries(M, total, 0) /\ M.branch = k
        /\ \A b \in BranchIds : b # l.branch => M.store.branches[b] = l.store.branches[b]
    <3>1. k \in BranchIds
      BY <1>3, <1>9
    <3>2. sold.store.branches[sold.branch].connected \in BranchIds /\ ~Merge(sold).failed
      BY <3>1, <2>1, <2>6 DEF M
    <3>3. /\ LoopBooked(Merge(sold), s) /\ Carries(Merge(sold), total, 0)
          /\ Merge(sold).branch = sold.store.branches[sold.branch].connected
          /\ \A b \in BranchIds : b # sold.branch =>
               Merge(sold).store.branches[b] = sold.store.branches[b]
      BY <3>2, <1>6, <1>7, <1>8, <2>6, MergeBooks
    <3> QED BY <3>3, <2>1, <1>6 DEF M
  <2>8. r.store.branches[r.branch].status = "liquidated"
    BY <1>3, <1>9, <2>5, <2>7
  <2>9. LoopBooked(r, s)
    BY <1>3, <2>5, <2>7 DEF LoopBooked, LoopNumbers
  <2>10. Carries(r, total, IF r.perfect THEN LentHere(r) ELSE 0)
    BY <2>5, <2>7 DEF Carries
  <2> QED BY <2>8, <2>9, <2>10 DEF Going, r, ref
<1>10. CASE ref.status # "liquidated"
  <2>1. at = sold /\ ref.status = "perfect"
    BY <1>3, <1>10 DEF ref
  <2>2. r = [sold EXCEPT !.tick = ref.tick, !.ratio = ref.ratio, !.perfect = TRUE]
    BY <1>1, <2>1
  <2>3. /\ r.store = sold.store /\ r.branch = sold.branch /\ r.debt = sold.debt
        /\ r.col = sold.col /\ r.remaining = sold.remaining /\ r.debt_liq = sold.debt_liq
        /\ r.factor = sold.factor /\ r.ratio = ref.ratio /\ r.perfect = TRUE
        /\ r.failed = sold.failed
    BY <1>6, <2>2 DEF HasFields, LoopFields
  <2>4. ~s1.failed
    <3>1. ~sold.failed
      BY <1>5, <2>3, Zenon
    <3> QED BY <3>1, <1>6, Zenon
  <2>5. LoopBooked(sold, s) /\ Carries(sold, total, LentHere(sold))
    BY <1>8, <2>4
  <2>6. LoopBooked(r, s)
    BY <1>3, <2>3, <2>5 DEF LoopBooked, LoopNumbers
  <2>7. Carries(r, total, IF r.perfect THEN LentHere(r) ELSE 0)
    BY <2>3, <2>5 DEF Carries, LentHere
  <2> QED BY <2>3, <2>6, <2>7 DEF Going, r, ref
<1> QED BY <1>9, <1>10

(* What holds between two turns, as long as the instruction has not failed.  *)
Turned(l, s, total) ==
  /\ Turning(l, s)
  /\ ~l.failed => IF l.ended THEN Done(l, s, total) ELSE Going(l, s, total)

LEMMA TurnBooks ==
  ASSUME NEW l, NEW s, NEW total \in Int, Turned(l, s, total), NEW lt \in Ticks, NEW cpd \in Nat
  PROVE  Turned(Turn(l, lt, cpd), s, total)
<1> DEFINE r    == Turn(l, lt, cpd)
           g    == Gather(l, lt)
           ref  == Reference(g, lt)
           all  == DebtLiquidated(g, ref, cpd)
           col  == ColLiquidated(all, cpd)
           debt == IF all = g.debt THEN all - 1 ELSE all
<1>1. Turning(r, s)
  BY TurnTurns DEF Turned
<1>2. CASE l.ended \/ l.failed
  <2>1. r = l
    BY <1>2 DEF Turn
  <2> QED BY <2>1
<1>3. CASE ~(l.ended \/ l.failed)
  <2>1. /\ HasFields(l, LoopFields) /\ Shape(l.store) /\ Running(l) /\ Going(l, s, total)
    BY <1>3 DEF Turned, Turning
  <2>2. /\ HasFields(g, LoopFields) /\ Shape(g.store) /\ Running(g)
        /\ g.ended = l.ended /\ g.failed = l.failed
    BY <2>1, GatherRuns
  <2>3. Gathered(g, s, total)
    BY <2>1, GatherBooks
  <2>4. LoopNumbers(g) /\ Booked(g.store) /\ g.debt \in Nat /\ g.remaining \in Nat
    BY <2>3 DEF Gathered, LoopBooked, LoopNumbers
  <2> HIDE DEF g
  <2>5. ref.ratio \in Nat
    BY <2>2, <2>4, ReferenceTyped
  <2>6. CASE ~CanSell(g, ref, cpd)
    <3>1. r = [g EXCEPT !.failed = TRUE]
      BY <1>3, <2>6 DEF Turn, g
    <3> HIDE DEF r
    <3>2. r.failed = TRUE
      BY <3>1, <2>2 DEF HasFields, LoopFields
    <3> QED BY <3>2, <1>1 DEF Turned, r
  <2>7. CASE CanSell(g, ref, cpd)
    <3>1. g.debt # 0
      BY <2>7 DEF CanSell
    <3>2. all \in Nat
      <4> HIDE DEF ref
      <4> QED BY <2>4, <2>5, <2>7, DebtLiquidatedTyped
    <3>3. col \in Nat
      <4> HIDE DEF all
      <4> QED BY <3>2, ColLiquidatedTyped
    <3> HIDE DEF all, col
    <3>4. debt \in Nat
      BY <2>4, <3>1, <3>2
    <3> HIDE DEF debt
    <3>5. CASE debt >= g.remaining \/ ref.status = "threshold"
      <4>1. r = EndLiquidation(g, ref, debt, col, cpd)
        BY <1>3, <2>7, <3>5 DEF Turn, g, debt, col, all
      <4>2. ASSUME ~r.failed PROVE Done(r, s, total) /\ r.ended
        <5> HIDE DEF r
        <5>1. ~EndLiquidation(g, Reference(g, lt), debt, col, cpd).failed
          BY <4>1, <4>2
        <5>2. Done(EndLiquidation(g, Reference(g, lt), debt, col, cpd), s, total)
          BY <5>1, <2>2, <2>3, <3>1, <3>3, <3>4, EndBooks
        <5>3. EndLiquidation(g, Reference(g, lt), debt, col, cpd).ended
          BY <2>2, EndLinked
        <5> QED BY <4>1, <5>2, <5>3
      <4> HIDE DEF r
      <4> QED BY <4>2, <1>1 DEF Turned, r
    <3>6. CASE ~(debt >= g.remaining \/ ref.status = "threshold")
      <4>1. r = Onward(g, ref, debt, col)
        BY <1>3, <2>7, <3>6 DEF Turn, g, debt, col, all
      <4>2. ASSUME ~r.failed PROVE Going(r, s, total) /\ ~r.ended
        <5> HIDE DEF r
        <5>1. ~Onward(g, Reference(g, lt), debt, col).failed
          BY <4>1, <4>2
        <5>2. debt < g.remaining /\ Reference(g, lt).status # "threshold"
          BY <3>4, <3>6, <2>4
        <5>3. Going(Onward(g, Reference(g, lt), debt, col), s, total)
          BY <5>1, <5>2, <2>2, <2>3, <3>1, <3>3, <3>4, OnwardBooks
        <5>4. Onward(g, Reference(g, lt), debt, col).ended = g.ended
          BY <2>2, OnwardRuns
        <5> QED BY <4>1, <5>3, <5>4, <2>2, <1>3
      <4> HIDE DEF r
      <4> QED BY <4>2, <1>1 DEF Turned, r
    <3> QED BY <3>5, <3>6
  <2> QED BY <2>6, <2>7
<1> QED BY <1>2, <1>3

LEMMA LiquidatedBooks ==
  ASSUME NEW l, NEW s, NEW total \in Int, Turned(l, s, total), NEW lt \in Ticks, NEW cpd \in Nat,
         ~Liquidated(l, lt, cpd).failed
  PROVE  Done(Liquidated(l, lt, cpd), s, total)
<1> DEFINE r == Liquidated(l, lt, cpd)
<1>1. PICK A : TurnWalk(A, l, lt, cpd)
  BY LiquidatedWalks
<1>2. /\ A[0] = l
      /\ \A n \in 1 .. MaxTurns : A[n] = Turn(A[n - 1], lt, cpd)
      /\ r = [A[MaxTurns] EXCEPT !.failed = @ \/ ~A[MaxTurns].ended]
  BY <1>1 DEF TurnWalk
<1>3. ~r.failed
  OBVIOUS
<1> DEFINE bad == {n \in Nat : n <= MaxTurns /\ ~Turned(A[n], s, total)}
<1>4. bad = {}
  <2>1. SUFFICES ASSUME bad # {} PROVE FALSE
    OBVIOUS
  <2>2. PICK m \in bad : \A k \in bad : m <= k
    BY <2>1, LeastNatural
  <2>3. m # 0
    BY <2>2, <1>2
  <2>4. m \in 1 .. MaxTurns /\ m - 1 \in Nat /\ m - 1 <= MaxTurns /\ m - 1 \notin bad
    BY <2>2, <2>3, MaxTurnsCounts
  <2>5. Turned(A[m - 1], s, total)
    BY <2>4
  <2>6. Turned(A[m], s, total)
    BY <2>4, <2>5, <1>2, TurnBooks
  <2> QED BY <2>2, <2>6
<1> DEFINE last == A[MaxTurns]
<1>5. Turned(last, s, total)
  BY <1>4, MaxTurnsCounts
<1>6. HasFields(last, LoopFields)
  BY <1>5 DEF Turned, Turning
<1> HIDE DEF r, last
<1>7. /\ r.failed = (last.failed \/ ~last.ended) /\ r.store = last.store
      /\ r.debt_liq = last.debt_liq
  BY <1>2, <1>6 DEF HasFields, LoopFields, last
<1>8. ~last.failed /\ last.ended
  BY <1>3, <1>7, Zenon
<1>9. Done(last, s, total)
  BY <1>5, <1>8 DEF Turned
<1> QED BY <1>7, <1>9 DEF Done, r

(* What the purchase of absorbed debt writes.                               *)
BuysAbsorbed(l0, l, x1, x2, x3, x4, x5) ==
  l = [l0 EXCEPT !.debt_liq = x1, !.col_liq = x2, !.remaining = x3,
                 !.store.vault.absorbed_debt = x4, !.store.vault.absorbed_col = x5]

LEMMA BuyBooks ==
  ASSUME NEW l0, HasFields(l0, LoopFields), NEW s, l0.store = s, Shape(s), Booked(s),
         l0.remaining \in Nat, l0.debt_liq = 0
  PROVE  LET l == BuyAbsorbed(l0)
         IN  /\ Booked(l.store) /\ SameOwed(s, l.store) /\ l.store.branches = s.branches
             /\ l.debt_liq \in Nat /\ l.remaining \in Nat
             /\ DebtHeld(l.store) + l.debt_liq = DebtHeld(s)
             /\ l.debt = l0.debt /\ l.col = l0.col /\ l.ratio = l0.ratio
             /\ l.perfect = l0.perfect /\ l.factor = l0.factor /\ l.branch = l0.branch
             /\ l.failed = l0.failed /\ l.ended = l0.ended
<1> DEFINE l == BuyAbsorbed(l0)
           v == s.vault
<1>1. v.absorbed_debt \in Nat /\ HasFields(s, StoreFields) /\ HasFields(v, VaultFields)
  BY DEF Booked, VaultBooked, Shape
<1>2. PICK x1, x2, x3, x4, x5 :
        /\ BuysAbsorbed(l0, l, x1, x2, x3, x4, x5)
        /\ x1 \in Nat /\ x3 \in Nat /\ x4 \in Nat /\ x4 + x1 = v.absorbed_debt
  <2> DEFINE c == (v.absorbed_col * l0.remaining) \div v.absorbed_debt
  <2>1. CASE v.absorbed_debt > l0.remaining
    <3>1. BuysAbsorbed(l0, l, l0.remaining, c, 0, v.absorbed_debt - l0.remaining,
                       v.absorbed_col - c)
      BY <2>1 DEF BuyAbsorbed, BuysAbsorbed
    <3>2. /\ v.absorbed_debt - l0.remaining \in Nat
          /\ (v.absorbed_debt - l0.remaining) + l0.remaining = v.absorbed_debt
      BY <1>1, <2>1
    <3> HIDE DEF l, c
    <3> QED BY <3>1, <3>2
  <2>2. CASE ~(v.absorbed_debt > l0.remaining)
    <3>1. BuysAbsorbed(l0, l, v.absorbed_debt, v.absorbed_col, l0.remaining - v.absorbed_debt,
                       0, 0)
      BY <2>2 DEF BuyAbsorbed, BuysAbsorbed
    <3>2. l0.remaining - v.absorbed_debt \in Nat /\ 0 + v.absorbed_debt = v.absorbed_debt
      BY <1>1, <2>2
    <3> HIDE DEF l
    <3> QED BY <3>1, <3>2, <1>1
  <2> QED BY <2>1, <2>2
<1> HIDE DEF l
<1> DEFINE st == l.store
           l1 == [l0 EXCEPT !.debt_liq = x1, !.col_liq = x2, !.remaining = x3]
           l2 == [l1 EXCEPT !.store.vault.absorbed_debt = x4]
           l3 == [l2 EXCEPT !.store.vault.absorbed_col = x5]
           s1 == [s EXCEPT !.vault.absorbed_debt = x4]
           s2 == [s1 EXCEPT !.vault.absorbed_col = x5]
           Alike(k) == /\ HasFields(k, LoopFields) /\ k.debt_liq = x1 /\ k.remaining = x3
                       /\ k.debt = l0.debt /\ k.col = l0.col /\ k.ratio = l0.ratio
                       /\ k.perfect = l0.perfect /\ k.factor = l0.factor /\ k.branch = l0.branch
                       /\ k.failed = l0.failed /\ k.ended = l0.ended
<1>3. l = l3
  BY <1>2 DEF BuysAbsorbed
<1>4. Alike(l1) /\ l1.store = s
  BY DEF HasFields, LoopFields
<1> HIDE DEF l1
<1>5. Alike(l2) /\ l2.store = s1
  BY <1>4 DEF HasFields, LoopFields
<1> HIDE DEF l2, s1
<1>6. Alike(l3) /\ l3.store = s2
  BY <1>5 DEF HasFields, LoopFields
<1> HIDE DEF l3
<1>7. Alike(l) /\ st = [s EXCEPT !.vault.absorbed_debt = x4, !.vault.absorbed_col = x5]
  BY <1>3, <1>6 DEF s1
<1> HIDE DEF st
<1>8. /\ st.ticks = s.ticks /\ st.tick_ids = s.tick_ids /\ st.branches = s.branches
      /\ st.vault = [v EXCEPT !.absorbed_debt = x4, !.absorbed_col = x5]
  BY <1>7, <1>1 DEF HasFields, StoreFields
<1> HIDE DEF v
<1>9. /\ st.vault.absorbed_debt = x4 /\ st.vault.borrow = v.borrow
      /\ st.vault.absorbed_dust = v.absorbed_dust
  BY <1>8, <1>1 DEF HasFields, VaultFields
<1>10. Booked(st) /\ SameOwed(s, st)
  <2>1. VaultBooked(st.vault)
    BY <1>2, <1>9 DEF Booked, VaultBooked, v
  <2> QED BY <1>8, <1>9, <2>1 DEF Booked, SameOwed, v
<1>11. RawSum(st) = RawSum(s) /\ LentSum(st) = LentSum(s)
  BY <1>8, RawSame, LentSame
<1>12. RawSum(s) \in Nat /\ LentSum(s) \in Nat
  BY HeldTyped
<1>13. /\ DebtHeld(st) = x4 + RawSum(s) + LentSum(s)
       /\ DebtHeld(s) = v.absorbed_debt + RawSum(s) + LentSum(s)
  <2>1. /\ DebtHeld(st) = st.vault.absorbed_debt + RawSum(st) + LentSum(st)
        /\ DebtHeld(s) = s.vault.absorbed_debt + RawSum(s) + LentSum(s)
    BY HeldIsSum
  <2> QED BY <2>1, <1>9, <1>11 DEF v
<1>14. DebtHeld(st) + x1 = DebtHeld(s)
  BY <1>2, <1>12, <1>13
<1> QED BY <1>2, <1>7, <1>8, <1>10, <1>14 DEF st, l

LEMMA StartBooks ==
  ASSUME NEW s, Linked(s), Booked(s), s.vault.top \in Ticks \union {COLD_TICK},
         NEW remaining \in Nat, NEW absorb
  PROVE  LET l == StartLoop(s, remaining, absorb)
         IN  /\ l.remaining \in Nat /\ Done(l, s, DebtHeld(s))
             /\ l.tick \in Ticks => Turned(l, s, DebtHeld(s))
<1> DEFINE b == s.branches[s.vault.current]
           ratio == CASE s.vault.top = COLD_TICK -> 0
                      [] s.vault.liquidated -> PartialsRatio(s.vault.top, b.partials)
                      [] OTHER -> RatioAtTick[s.vault.top]
           next == IF s.vault.liquidated THEN COLD_TICK ELSE s.vault.top
           factor == IF b.factor = BigZero THEN InitialFactor ELSE b.factor
           l0 == [store |-> s, remaining |-> remaining, debt |-> 0, col |-> 0, debt_liq |-> 0,
                  col_liq |-> 0, tick |-> s.vault.top, perfect |-> ~s.vault.liquidated,
                  ratio |-> ratio, next |-> next, branch |-> s.vault.current, first |-> TRUE,
                  failed |-> FALSE, ended |-> FALSE, factor |-> factor]
           l == StartLoop(s, remaining, absorb)
<1>1. l = IF absorb THEN BuyAbsorbed(l0) ELSE l0
  BY DEF StartLoop
<1>2. Shape(s) /\ s.vault.current \in BranchIds
  BY DEF Linked, Forest
<1>3. factor \in BigNumbers /\ BranchBooked(b)
  BY <1>2, BigNumbersAreFactors DEF Booked, BranchBooked
<1>4. s.vault.top \in Ticks => ratio \in Nat \ {0}
  <2>1. ASSUME s.vault.top \in Ticks, s.vault.liquidated PROVE ratio \in Nat \ {0}
    <3>1. s.vault.top # COLD_TICK
      BY <2>1, TickRange
    <3>2. ratio = PartialsRatio(s.vault.top, b.partials)
      BY <2>1, <3>1
    <3>3. b.partials \in Nat
      BY <1>3 DEF BranchBooked
    <3> HIDE DEF ratio, b
    <3> QED BY <2>1, <3>2, <3>3, PartialsRatioPositive
  <2>2. ASSUME s.vault.top \in Ticks, ~s.vault.liquidated PROVE ratio \in Nat \ {0}
    <3>1. s.vault.top # COLD_TICK
      BY <2>2, TickRange
    <3>2. ratio = RatioAtTick[s.vault.top]
      BY <2>2, <3>1
    <3> HIDE DEF ratio
    <3> QED BY <2>2, <3>2, RatioPositive
  <2> QED BY <2>1, <2>2
<1> HIDE DEF ratio, next, factor
<1>5. /\ HasFields(l0, LoopFields) /\ l0.store = s /\ l0.remaining = remaining /\ l0.debt = 0
      /\ l0.col = 0 /\ l0.debt_liq = 0 /\ l0.ratio = ratio /\ l0.factor = factor
      /\ l0.perfect = ~s.vault.liquidated /\ l0.branch = s.vault.current
  BY DEF HasFields, LoopFields
<1> HIDE DEF l0, l
<1>6. DebtHeld(s) \in Nat
  BY HeldTyped
<1>7. /\ Booked(l.store) /\ SameOwed(s, l.store) /\ l.store.branches = s.branches
      /\ l.debt_liq \in Nat /\ l.remaining \in Nat
      /\ DebtHeld(l.store) + l.debt_liq = DebtHeld(s)
      /\ l.debt = 0 /\ l.col = 0 /\ l.ratio = ratio
      /\ l.perfect = l0.perfect /\ l.factor = factor /\ l.branch = s.vault.current
  <2>1. CASE l = l0
    BY <2>1, <1>5, <1>6 DEF SameOwed
  <2>2. CASE l = BuyAbsorbed(l0)
    BY <2>2, <1>2, <1>5, BuyBooks
  <2> QED BY <2>1, <2>2, <1>1
<1>8. Done(l, s, DebtHeld(s))
  BY <1>7 DEF Done
<1>9. ASSUME l.tick \in Ticks PROVE Turned(l, s, DebtHeld(s))
  <2>1. l.tick = s.vault.top /\ Turning(l, s)
    BY <1>9, StartLinked DEF l
  <2>2. ~l.failed /\ ~l.ended
    <3>1. ~l0.failed /\ ~l0.ended
      BY DEF l0
    <3>2. CASE l = l0
      BY <3>1, <3>2
    <3>3. CASE l = BuyAbsorbed(l0)
      BY <3>1, <3>3, <1>2, <1>5, BuyBooks
    <3> QED BY <1>1, <3>2, <3>3
  <2>3. LoopBooked(l, s)
    BY <1>3, <1>4, <1>7, <1>9, <2>1 DEF LoopBooked, LoopNumbers
  <2>4. /\ LentHere(l) = Lent(s.branches[s.vault.current])
        /\ s.vault.liquidated => s.branches[s.vault.current].status = "liquidated"
        /\ ~s.vault.liquidated => s.branches[s.vault.current].status = "not_liquidated"
    BY <1>7 DEF LentHere, Linked, TopLinked
  <2>5. CASE s.vault.liquidated
    <3>1. ~l.perfect
      BY <1>5, <1>7, <2>5, Zenon
    <3>2. l.store.branches[l.branch].status = "liquidated"
      BY <1>7, <2>4, <2>5
    <3>3. Carries(l, DebtHeld(s), 0)
      <4>1. DebtHeld(l.store) \in Nat
        BY <1>7, HeldTyped
      <4> QED BY <4>1, <1>6, <1>7 DEF Carries
    <3>4. Going(l, s, DebtHeld(s))
      BY <2>3, <3>1, <3>2, <3>3 DEF Going
    <3> QED BY <2>1, <2>2, <3>4 DEF Turned
  <2>6. CASE ~s.vault.liquidated
    <3>1. l.perfect
      BY <1>5, <1>7, <2>6, Zenon
    <3>2. LentHere(l) = 0
      BY <2>4, <2>6 DEF Lent
    <3>3. Carries(l, DebtHeld(s), LentHere(l))
      <4>1. DebtHeld(l.store) \in Nat
        BY <1>7, HeldTyped
      <4> QED BY <4>1, <1>6, <1>7, <3>2 DEF Carries
    <3>4. Going(l, s, DebtHeld(s))
      BY <2>3, <3>1, <3>3 DEF Going
    <3> QED BY <2>1, <2>2, <3>4 DEF Turned
  <2> QED BY <2>5, <2>6
<1> QED BY <1>7, <1>8, <1>9 DEF l

LEMMA ColPerDebtTyped ==
  ASSUME NEW price \in Nat \ {0}
  PROVE  ColPerDebt(price) \in Nat
<1> DEFINE d == DivCeil(price * supply_ex_price, borrow_ex_price)
           x == (RATE_PRECISION * RATE_PRECISION) \div d
           f == FOUR_DECIMALS + liquidation_penalty
<1>1. price * supply_ex_price \in Nat \ {0}
  BY DebtConstants
<1>2. d \in Nat \ {0}
  BY <1>1, DivCeilTyped, DebtConstants
<1>3. RATE_PRECISION * RATE_PRECISION \in Nat /\ f \in Nat /\ FOUR_DECIMALS \in Nat \ {0}
  BY DebtConstants, TickConstants
<1> HIDE DEF d, f
<1>4. x \in Nat
  BY <1>2, <1>3, QuotientNatural
<1> HIDE DEF x
<1>5. x * f \in Nat
  BY <1>3, <1>4
<1>6. (x * f) \div FOUR_DECIMALS \in Nat
  BY <1>3, <1>5, QuotientNatural
<1> QED BY <1>6 DEF ColPerDebt, x, d, f

LEMMA LoopOutcomeBooks ==
  ASSUME NEW s, Linked(s), Booked(s), s.vault.top \in Ticks \union {COLD_TICK},
         NEW amount \in Nat, NEW absorb, NEW price \in Nat \ {0}, PriceHasTicks(price),
         ~LiquidationOutcome(s, amount, absorb, price).failed
  PROVE  Done(LiquidationOutcome(s, amount, absorb, price), s, DebtHeld(s))
<1> DEFINE r == LiquidationOutcome(s, amount, absorb, price)
           tick == LiquidationTick(price)
           remaining == (amount * EXCHANGE_PRICES_PRECISION) \div borrow_ex_price
           l == StartLoop(s, remaining, absorb)
           cpd == ColPerDebt(price)
<1>1. tick \in Ticks /\ cpd \in Nat
  BY TickAtRatioInTable, ColPerDebtTyped DEF PriceHasTicks, LiquidationTick
<1>2. remaining \in Nat
  <2>1. amount * EXCHANGE_PRICES_PRECISION \in Nat
    BY DebtConstants
  <2> QED BY <2>1, DebtConstants, QuotientNatural
<1>3. r = IF ~(l.tick > tick /\ l.remaining > 0) THEN l
          ELSE IF NothingToLiquidate(l, tick) THEN [l EXCEPT !.failed = TRUE]
          ELSE Liquidated(l, tick, cpd)
  BY DEF LiquidationOutcome
<1> HIDE DEF remaining
<1>4. /\ l.tick = s.vault.top /\ l.remaining \in Nat /\ Done(l, s, DebtHeld(s))
      /\ l.tick \in Ticks => Turning(l, s) /\ Turned(l, s, DebtHeld(s))
  BY <1>2, StartLinked, StartBooks
<1> HIDE DEF l, tick, cpd
<1>5. CASE ~(l.tick > tick /\ l.remaining > 0)
  BY <1>3, <1>4, <1>5
<1>6. CASE l.tick > tick /\ l.remaining > 0
  <2>1. l.tick \in Ticks
    BY <1>1, <1>4, <1>6, TickRange
  <2>2. Turned(l, s, DebtHeld(s)) /\ HasFields(l, LoopFields)
    BY <1>4, <2>1 DEF Turning
  <2>3. ~r.failed
    OBVIOUS
  <2>4. DebtHeld(s) \in Int
    BY HeldTyped
  <2> HIDE DEF r
  <2>5. CASE NothingToLiquidate(l, tick)
    <3>1. r = [l EXCEPT !.failed = TRUE]
      BY <1>3, <1>6, <2>5
    <3>2. r.failed = TRUE
      BY <3>1, <2>2 DEF HasFields, LoopFields
    <3> QED BY <2>3, <3>2
  <2>6. CASE ~NothingToLiquidate(l, tick)
    <3>1. r = Liquidated(l, tick, cpd)
      BY <1>3, <1>6, <2>6
    <3>2. Done(Liquidated(l, tick, cpd), s, DebtHeld(s))
      BY <1>1, <2>2, <2>3, <2>4, <3>1, LiquidatedBooks
    <3> QED BY <3>1, <3>2 DEF r
  <2> QED BY <2>5, <2>6
<1> QED BY <1>5, <1>6

LEMMA ReduceBooks ==
  ASSUME NEW l, NEW s, Booked(s), NEW total \in Int, Done(l, s, total), Shape(l.store),
         TotalsFit(l)
  PROVE  LET r == ReduceTotals(l)
         IN  /\ Booked(r) /\ DebtHeld(r) + l.debt_liq = total
             /\ r.vault.borrow + l.debt_liq = s.vault.borrow
             /\ r.vault.absorbed_dust = s.vault.absorbed_dust
<1> DEFINE w == l.store
           v == w.vault
           x == v.supply - l.col_liq
           y == v.borrow - l.debt_liq
           r == ReduceTotals(l)
<1>1. /\ Booked(w) /\ l.debt_liq \in Nat /\ v.borrow = s.vault.borrow
      /\ v.absorbed_dust = s.vault.absorbed_dust /\ DebtHeld(w) + l.debt_liq = total
      /\ v.borrow \in Nat /\ l.debt_liq <= v.borrow
  BY DEF Done, SameOwed, TotalsFit, Booked, VaultBooked
<1>2. HasFields(w, StoreFields) /\ HasFields(v, VaultFields)
  BY DEF Shape
<1>3. r = WithTotals(w, x, y)
  BY <1>2 DEF ReduceTotals, WithTotals, HasFields, StoreFields, VaultFields
<1>4. y \in Nat /\ y + l.debt_liq = s.vault.borrow
  BY <1>1
<1> HIDE DEF w, x, y, r
<1>5. /\ Booked(r) /\ DebtHeld(r) = DebtHeld(w) /\ r.vault.borrow = y
      /\ r.vault.absorbed_dust = v.absorbed_dust
  BY <1>1, <1>3, <1>4, TotalsBooks DEF w
<1> QED BY <1>1, <1>4, <1>5 DEF r

LEMMA AbsorbedBooks ==
  ASSUME Linked(Store), Booked(Store), NEW price, CanAbsorb(price)
  PROVE  LET s == Absorbed(price)
         IN  /\ Booked(s) /\ DebtHeld(s) = DebtHeld(Store) /\ SameOwed(Store, s)
<1> DEFINE s == Absorbed(price)
<1>1. /\ vault.top \in Ticks /\ Store.vault = vault
      /\ vault.top > MaxTick(price) => AbsorbFits(Store)
  BY StoreFieldsOfStore DEF CanAbsorb
<1>2. MaxTick(price) \in Ticks
  BY TickAtRatioInTable DEF CanAbsorb, PriceHasTicks, MaxTick
<1>3. CASE vault.top > MaxTick(price)
  <2>1. s = Absorb(Store, MaxTick(price))
    BY <1>3 DEF Absorbed
  <2> HIDE DEF s
  <2> QED BY <2>1, <1>1, <1>2, <1>3, AbsorbBooks DEF SameOwed, s
<1>4. CASE ~(vault.top > MaxTick(price))
  <2>1. s = Store
    BY <1>4 DEF Absorbed
  <2> QED BY <2>1 DEF SameOwed
<1> QED BY <1>3, <1>4

LEMMA SavedBooks ==
  ASSUME VaultBooks, NEW r, Linked(r), Booked(r), Save(r), positions' = positions,
         steps' = steps + 1, NEW paid \in Nat, DebtHeld(r) + paid = DebtHeld(Store),
         r.vault.borrow + paid = Store.vault.borrow,
         r.vault.absorbed_dust = Store.vault.absorbed_dust
  PROVE  VaultBooks'
<1>1. Store' = r
  BY SavedStore DEF Linked, Shape
<1>2. /\ Booked(Store) /\ PositionsBooked(positions) /\ steps \in Nat
      /\ Balanced(Store, positions, steps)
  BY DEF VaultBooks
<1>3. /\ DebtHeld(Store) \in Nat /\ DebtHeld(r) \in Nat /\ DustSum(positions) \in Nat
      /\ Store.vault.borrow \in Nat /\ r.vault.borrow \in Nat
      /\ Store.vault.absorbed_dust \in Nat
  BY <1>2, HeldTyped, DustTyped DEF Booked, VaultBooked
<1> DEFINE before == Promised(Store, positions)
           after  == Promised(r, positions)
<1>4. /\ before = Store.vault.borrow + Store.vault.absorbed_dust + DustSum(positions)
      /\ after = r.vault.borrow + r.vault.absorbed_dust + DustSum(positions)
      /\ before <= DebtHeld(Store) + steps * (MINIMUM_TICK_DEBT - 1)
  BY <1>2 DEF Promised, Balanced
<1>5. before \in Int /\ after \in Int /\ after + paid = before
  BY <1>3, <1>4
<1> HIDE DEF before, after
<1>6. DebtHeld(r) + (MINIMUM_TICK_DEBT - 1) >= DebtHeld(Store) + (after - before)
  BY <1>3, <1>5, DebtConstants
<1>7. after <= DebtHeld(r) + (steps + 1) * (MINIMUM_TICK_DEBT - 1)
  <2>1. before <= DebtHeld(Store) + steps * (MINIMUM_TICK_DEBT - 1)
    BY <1>4
  <2>2. DebtHeld(Store) \in Nat /\ DebtHeld(r) \in Int /\ before \in Int /\ after \in Int
    BY <1>3, <1>5
  <2>3. steps \in Nat
    BY <1>2
  <2> QED BY <2>1, <2>2, <2>3, <1>6, StepBalanced
<1>8. Balanced(Store', positions', steps')
  BY <1>1, <1>7 DEF Balanced, after
<1>9. Booked(Store') /\ PositionsBooked(positions') /\ steps' \in Nat
  BY <1>1, <1>2
<1> QED BY <1>8, <1>9 DEF VaultBooks

LEMMA LiquidatesBooks ==
  ASSUME VaultLinked, VaultBooks, Liquidates
  PROVE  VaultBooks'
<1>1. Linked(Store) /\ Booked(Store)
  BY DEF VaultLinked, VaultBooks
<1>2. DebtHeld(Store) \in Nat /\ Store.vault.borrow \in Nat
  BY <1>1, HeldTyped DEF Booked, VaultBooked
<1>3. ASSUME NEW price \in Prices, AbsorbOnly(price) PROVE VaultBooks'
  <2> DEFINE s == Absorbed(price)
  <2>1. /\ CanAbsorb(price) /\ Save(s) /\ positions' = positions /\ steps' = steps + 1
    BY <1>3 DEF AbsorbOnly
  <2>2. Linked(s) /\ Booked(s) /\ DebtHeld(s) = DebtHeld(Store) /\ SameOwed(Store, s)
    BY <1>1, <2>1, AbsorbedLinked, AbsorbedBooks
  <2> HIDE DEF s
  <2>3. /\ DebtHeld(s) + 0 = DebtHeld(Store) /\ s.vault.borrow + 0 = Store.vault.borrow
        /\ s.vault.absorbed_dust = Store.vault.absorbed_dust /\ 0 \in Nat
    BY <1>2, <2>2 DEF SameOwed
  <2> QED BY <2>1, <2>2, <2>3, SavedBooks
<1>4. ASSUME NEW price \in Prices, NEW amount \in LiquidationAmounts, NEW absorb \in BOOLEAN,
             Liquidate(amount, absorb, price)
      PROVE  VaultBooks'
  <2> DEFINE s == Absorbed(price)
             l == LiquidationOutcome(s, amount, absorb, price)
             r == ReduceTotals(l)
  <2>1. /\ CanAbsorb(price) /\ ~l.failed /\ TotalsFit(l) /\ Save(r) /\ positions' = positions
        /\ steps' = steps + 1
    BY <1>4 DEF Liquidate, Conclude
  <2>2. /\ Linked(s) /\ s.vault.top \in Ticks \union {COLD_TICK} /\ PriceHasTicks(price)
        /\ Booked(s) /\ DebtHeld(s) = DebtHeld(Store) /\ SameOwed(Store, s)
    BY <1>1, <2>1, AbsorbedLinked, AbsorbedBooks DEF CanAbsorb
  <2>3. price \in Nat \ {0} /\ amount \in Nat
    BY VaultAssumption
  <2> HIDE DEF s
  <2>4. Linked(l.store)
    BY <2>1, <2>2, OutcomeLinked
  <2>5. Done(l, s, DebtHeld(s))
    BY <2>1, <2>2, <2>3, LoopOutcomeBooks
  <2> HIDE DEF l
  <2>6. Shape(l.store) /\ l.debt_liq \in Nat
    BY <2>4, <2>5 DEF Linked, Done
  <2>7. /\ Booked(r) /\ DebtHeld(r) + l.debt_liq = DebtHeld(s)
        /\ r.vault.borrow + l.debt_liq = s.vault.borrow
        /\ r.vault.absorbed_dust = s.vault.absorbed_dust
    BY <1>2, <2>1, <2>2, <2>5, <2>6, ReduceBooks
  <2>8. Linked(r)
    BY <2>4, ReducedLinked
  <2> HIDE DEF r
  <2>9. /\ DebtHeld(r) + l.debt_liq = DebtHeld(Store)
        /\ r.vault.borrow + l.debt_liq = Store.vault.borrow
        /\ r.vault.absorbed_dust = Store.vault.absorbed_dust
    BY <2>2, <2>7 DEF SameOwed
  <2> QED BY <2>1, <2>6, <2>7, <2>8, <2>9, SavedBooks
<1> QED BY <1>3, <1>4 DEF Liquidates

-----------------------------------------------------------------------------
(* The vault under its instructions.                                       *)

LEMMA InitBooks == Init => VaultBooks
<1> SUFFICES ASSUME Init PROVE VaultBooks
  OBVIOUS
<1>1. /\ vault = EmptyStore.vault /\ ticks = [t \in Ticks |-> EmptyTick]
      /\ tick_ids = [r \in Records |-> NoLiquidation]
      /\ branches = [b \in BranchIds |-> EmptyBranch]
      /\ positions = [p \in PositionIds |-> NoPosition] /\ steps = 0
  BY DEF Init, EmptyStore
<1>2. /\ vault.absorbed_debt = 0 /\ vault.absorbed_dust = 0 /\ vault.borrow = 0
  BY <1>1 DEF EmptyStore
<1>3. /\ Store.vault = vault /\ Store.ticks = ticks /\ Store.branches = branches
      /\ Store.tick_ids = tick_ids
  BY StoreFieldsOfStore
<1>4. TickBooked(EmptyTick) /\ EmptyTick.raw_debt = 0
  BY BigZeroOK DEF EmptyTick, TickBooked, NoLiquidation, Liquidation
<1>5. BranchBooked(EmptyBranch) /\ Lent(EmptyBranch) = 0
  BY VacantEmpty DEF Vacant, Lent
<1>6. NoLiquidation.factor \in BigNumbers
  BY BigZeroOK DEF NoLiquidation, Liquidation
<1>7. Booked(Store)
  <2>1. VaultBooked(Store.vault)
    BY <1>2, <1>3 DEF VaultBooked
  <2> QED BY <1>1, <1>3, <1>4, <1>5, <1>6, <2>1 DEF Booked
<1>8. PositionsBooked(positions)
  BY <1>1 DEF PositionsBooked, PositionBooked, NoPosition
<1>9. RawSum(Store) = 0 /\ LentSum(Store) = 0
  <2>1. \A t \in Ticks : RawDebts(Store)[t] = 0
    BY <1>1, <1>3, <1>4, HeldIsSum
  <2>2. \A b \in BranchIds : BranchDebts(Store)[b] = 0
    BY <1>1, <1>3, <1>5, HeldIsSum
  <2>3. SumFunctionOnSet(RawDebts(Store), Ticks) = 0
    BY <2>1, FiniteDomains, SumOfZeros
  <2>4. SumFunctionOnSet(BranchDebts(Store), BranchIds) = 0
    BY <2>2, FiniteDomains, SumOfZeros
  <2> QED BY <2>3, <2>4, HeldIsSum
<1>10. DustSum(positions) = 0
  <2>1. \A p \in PositionIds : Dusts(positions)[p] = 0
    BY <1>1 DEF Dusts, NoPosition
  <2>2. SumFunctionOnSet(Dusts(positions), PositionIds) = 0
    BY <2>1, FiniteDomains, SumOfZeros
  <2> QED BY <2>2, <1>8, DustTyped
<1>11. Balanced(Store, positions, steps)
  <2>1. Promised(Store, positions) = 0
    BY <1>2, <1>3, <1>10 DEF Promised
  <2>2. DebtHeld(Store) = 0
    <3>1. DebtHeld(Store) = Store.vault.absorbed_debt + RawSum(Store) + LentSum(Store)
      BY HeldIsSum
    <3> QED BY <3>1, <1>2, <1>3, <1>9
  <2> QED BY <2>1, <2>2, <1>1, DebtConstants DEF Balanced
<1> QED BY <1>1, <1>7, <1>8, <1>11 DEF VaultBooks

LEMMA OpenedAndClosedBooks ==
  ASSUME VaultLinked, VaultBooks, InitPosition \/ \E p \in PositionIds : ClosePosition(p)
  PROVE  VaultBooks'
<1>1. Store' = Store /\ steps' = steps
  BY OpenedAndClosed DEF InitPosition, ClosePosition
<1>2. /\ Booked(Store) /\ PositionsBooked(positions) /\ steps \in Nat
      /\ Balanced(Store, positions, steps)
  BY DEF VaultBooks
<1>3. PositionsLinked(ticks, positions)
  BY DEF VaultLinked
<1>4. ASSUME NEW n \in PositionIds, NEW e, positions' = [positions EXCEPT ![n] = e],
             PositionBooked(e), e.dust = positions[n].dust
      PROVE  VaultBooks'
  <2> DEFINE qs == positions'
  <2>1. qs[n] = e /\ \A q \in PositionIds : q # n => qs[q] = positions[q]
    BY <1>3, <1>4 DEF PositionsLinked
  <2>2. PositionsBooked(qs)
    BY <1>2, <1>4, <2>1 DEF PositionsBooked
  <2> HIDE DEF qs
  <2>3. positions[n].dust \in Nat /\ qs[n].dust = positions[n].dust
    BY <1>2, <1>4, <2>1 DEF PositionsBooked, PositionBooked
  <2>4. DustSum(qs) = DustSum(positions)
    <3>1. DustSum(qs) = DustSum(positions) - positions[n].dust + qs[n].dust
      BY <1>2, <2>1, <2>3, DustChanged
    <3>2. DustSum(positions) \in Nat
      BY <1>2, DustTyped
    <3> QED BY <3>1, <3>2, <2>3
  <2>5. Balanced(Store, qs, steps)
    BY <1>2, <2>4 DEF Balanced, Promised
  <2> QED BY <1>1, <1>2, <2>2, <2>5 DEF VaultBooks, qs
<1>5. CASE InitPosition
  <2> DEFINE n == next_position_id
             e == [positions[n] EXCEPT !.open = TRUE]
  <2>1. n \in PositionIds /\ positions' = [positions EXCEPT ![n] = e]
    BY <1>5 DEF InitPosition
  <2>2. HasFields(positions[n], {"open", "tick", "tick_id", "supply", "dust"})
    BY <1>3, <2>1 DEF PositionsLinked
  <2>3. /\ e.tick = positions[n].tick /\ e.dust = positions[n].dust
        /\ e.supply = positions[n].supply
    BY <2>2 DEF HasFields
  <2> HIDE DEF e
  <2>4. PositionBooked(e)
    BY <1>2, <2>1, <2>3 DEF PositionsBooked, PositionBooked
  <2> QED BY <2>1, <2>3, <2>4, <1>4
<1>6. ASSUME NEW p \in PositionIds, ClosePosition(p) PROVE VaultBooks'
  <2>1. positions' = [positions EXCEPT ![p] = NoPosition] /\ positions[p].tick = COLD_TICK
    BY <1>6 DEF ClosePosition
  <2>2. PositionBooked(NoPosition) /\ NoPosition.dust = 0
    BY DEF NoPosition, PositionBooked
  <2>3. positions[p].dust = 0
    BY <1>2, <2>1 DEF PositionsBooked, PositionBooked
  <2> QED BY <2>1, <2>2, <2>3, <1>4
<1> QED BY <1>5, <1>6

LEMMA NextBooks ==
  ASSUME VaultLinked, TopIsBare, VaultBooks, [Next]_vars
  PROVE  VaultBooks'
<1>1. CASE UNCHANGED vars
  BY <1>1 DEF vars, VaultBooks, Store
<1>2. CASE InitPosition \/ \E p \in PositionIds : ClosePosition(p)
  BY <1>2, OpenedAndClosedBooks
<1>3. CASE Operates
  <2>1. Bare(Store)
    BY StoreFieldsOfStore DEF TopIsBare, Bare
  <2>2. PICK p \in PositionIds, amounts \in Amounts : Operate(p, amounts[1], amounts[2])
    BY <1>3 DEF Operates
  <2>3. amounts[1] \in Int /\ amounts[2] \in Int
    <3>1. amounts \in Int \X Int
      BY VaultAssumption
    <3> QED BY <3>1
  <2> QED BY <2>1, <2>2, <2>3, OperateBooks
<1>4. CASE Liquidates
  BY <1>4, LiquidatesBooks
<1> QED BY <1>1, <1>2, <1>3, <1>4 DEF Next

(* Debts, branch debts, partials, dust and the factors of liquidations stay  *)
(* numbers that the program can store, and a tick that is liquidated or has  *)
(* no id holds no debt, through operations, absorptions and every turn of a  *)
(* liquidation (user.rs, operate, liquidate and absorb; structs.rs).         *)
THEOREM BooksKept == Spec /\ []TopIsBare => []VaultBooks
<1>1. Init => VaultBooks
  BY InitBooks
<1>2. VaultLinked /\ TopIsBare /\ VaultBooks /\ [Next]_vars => VaultBooks'
  BY NextBooks
<1>3. Spec /\ []TopIsBare => []VaultLinked
  BY LinksKept
<1> QED BY <1>1, <1>2, <1>3, PTL DEF Spec

(* Whatever was lent stands in a tick or a branch, or was absorbed: nothing  *)
(* is lost between the ticks a liquidation empties, the branches it leaves   *)
(* and merges and what absorb takes, but for the rest below the minimum that *)
(* an operation drops with its tick (user.rs:190, structs.rs, update_totals; *)
(* vault_state.rs, update_total_borrow).                                     *)
THEOREM LentHeld == Spec /\ []TopIsBare => []LentIsHeld
<1>1. VaultBooks => LentIsHeld
  BY BalancedLent DEF VaultBooks
<1>2. Spec /\ []TopIsBare => []VaultBooks
  BY BooksKept
<1> QED BY <1>1, <1>2, PTL

-----------------------------------------------------------------------------
(* What operations wear away from a tick.  Nothing here rests on TopIsBare:  *)
(* Sound(ts) and PositionSound are all that is known of ticks and positions. *)

(* The ratio that add_debt_to_tick raises is at most the one of its tick.    *)
LEMMA RaisedBelow ==
  ASSUME NEW t \in Ticks \ {MIN_TICK}
  PROVE  /\ RaisedRatio(t - 1) \in Nat /\ RatioAtTick[t] \in Nat
         /\ RaisedRatio(t - 1) <= RatioAtTick[t]
<1> DEFINE lower == RatioAtTick[t - 1]
           upper == RatioAtTick[t]
           S     == TICK_SPACING
           F     == FOUR_DECIMALS
           raised == (lower * S) \div F
<1>1. t \in Int /\ t - 1 \in Ticks /\ (t - 1) + 1 = t
  BY TickAssumption DEF Ticks
<1>2. lower \in Nat /\ upper \in Nat
  BY <1>1, RatioPositive
<1>3. S \in Nat \ {0} /\ F \in Nat \ {0}
  BY TickConstants
<1>4. t > 0 => upper = DivCeil(lower * S, F)
  BY <1>1, RatioSteps DEF RatioStep
<1>5. ~(t > 0) => lower = (upper * F) \div S
  <2> SUFFICES ASSUME ~(t > 0) PROVE lower = (upper * F) \div S
    OBVIOUS
  <2>1. ~(t - 1 = 0) /\ ~(t - 1 > 0)
    BY <1>1
  <2> QED BY <1>1, <2>1, RatioSteps DEF RatioStep
<1>6. RaisedRatio(t - 1) = raised
  BY DEF RaisedRatio
<1> HIDE DEF lower, upper, S, F
<1>7. lower * S \in Nat /\ upper * F \in Nat
  BY <1>2, <1>3
<1>8. /\ raised \in Nat /\ F * raised <= lower * S
  BY <1>3, <1>7, QuotientBelow
<1> HIDE DEF raised
<1>9. raised <= upper
  <2>1. CASE t > 0
    <3> DEFINE n == lower * S
               u == (n + F - 1) \div F
    <3>1. upper = u /\ n \in Nat
      BY <2>1, <1>4, <1>7 DEF DivCeil
    <3> HIDE DEF n
    <3>2. n + F - 1 \in Nat
      BY <3>1, <1>3
    <3>3. u \in Nat /\ n + F - 1 < F * u + F
      BY <3>2, <1>3, QuotientBelow
    <3> HIDE DEF u
    <3>4. F * raised <= n
      BY <1>8 DEF n
    <3>5. F * raised < F * (u + 1)
      <4>1. F * (u + 1) = F * u + F
        BY <3>3, <1>3
      <4>2. F * raised \in Nat /\ F * u \in Nat
        BY <3>3, <1>3, <1>8
      <4> QED BY <4>1, <4>2, <3>1, <3>3, <3>4, <1>3
    <3>6. raised < u + 1
      BY <3>3, <3>5, <1>3, <1>8
    <3> QED BY <3>1, <3>3, <3>6, <1>8
  <2>2. CASE ~(t > 0)
    <3>1. S * lower <= upper * F
      BY <2>2, <1>3, <1>5, <1>7, QuotientBelow
    <3>2. F * raised <= F * upper
      BY <3>1, <1>2, <1>3, <1>7, <1>8
    <3> QED BY <3>2, <1>2, <1>3, <1>8
  <2> QED BY <2>1, <2>2
<1> QED BY <1>2, <1>6, <1>8, <1>9 DEF upper

LEMMA ErosionTyped ==
  ASSUME NEW t \in Ticks \ {MIN_TICK}
  PROVE  /\ RoundedUp(t) \in Nat /\ Erosion(t) \in Nat
         /\ Erosion(t) = RoundedUp(t) + (MINIMUM_TICK_DEBT - 1)
<1> DEFINE a == (RatioAtTick[t] - RaisedRatio(t - 1)) * U64_MAX + RatioAtTick[t]
<1>1. RatioAtTick[t] - RaisedRatio(t - 1) \in Nat /\ RatioAtTick[t] \in Nat
  BY RaisedBelow
<1>2. U64_MAX \in Nat
  BY ScaleAssumption
<1>3. a \in Nat
  BY <1>1, <1>2
<1> HIDE DEF a
<1>4. a \div ZERO_TICK_SCALED_RATIO \in Nat
  BY <1>3, TickConstants, QuotientNatural
<1>5. RoundedUp(t) = a \div ZERO_TICK_SCALED_RATIO + 2
  BY DEF RoundedUp, a
<1> QED BY <1>4, <1>5, DebtConstants DEF Erosion

LEMMA PositionDebtTyped ==
  ASSUME NEW pos, pos.tick \in Ticks \union {COLD_TICK}, pos.supply \in Nat
  PROVE  PositionDebt(pos) \in Nat
<1>1. CASE pos.tick = COLD_TICK
  BY <1>1 DEF PositionDebt
<1>2. CASE pos.tick # COLD_TICK
  <2>1. RatioAtTick[pos.tick] \in Nat
    BY <1>2, RatioPositive
  <2>2. RatioAtTick[pos.tick] * (pos.supply + 1) \in Nat
    BY <2>1
  <2>3. (RatioAtTick[pos.tick] * (pos.supply + 1)) \div ZERO_TICK_SCALED_RATIO \in Nat
    BY <2>2, TickConstants, QuotientNatural
  <2> QED BY <1>2, <2>3 DEF PositionDebt
<1> QED BY <1>1, <1>2

(* A sum of quotients is one more than the quotient of the sum at most.      *)
LEMMA QuotientsAdd ==
  ASSUME NEW a \in Nat, NEW b \in Nat, NEW c \in Nat, b <= c, NEW z \in Nat \ {0}
  PROVE  (a + b) \div z <= a \div z + c \div z + 1
<1> DEFINE q == (a + b) \div z
           u == a \div z
           v == c \div z
<1>1. q \in Nat /\ z * q <= a + b
  <2>1. a + b \in Nat
    OBVIOUS
  <2> QED BY <2>1, QuotientBelow
<1>2. u \in Nat /\ a < z * u + z
  BY QuotientBelow
<1>3. v \in Nat /\ c < z * v + z
  BY QuotientBelow
<1> HIDE DEF q, u, v
<1>4. z * q \in Nat /\ z * u \in Nat /\ z * v \in Nat
  BY <1>1, <1>2, <1>3
<1>5. z * (u + v + 2) = z * u + z * v + z + z
  BY <1>2, <1>3
<1>6. z * q < z * (u + v + 2)
  BY <1>1, <1>2, <1>3, <1>4, <1>5
<1>7. q < u + v + 2
  BY <1>1, <1>2, <1>3, <1>6
<1> QED BY <1>1, <1>2, <1>3, <1>7 DEF q, u, v

(* A position is worth at most RoundedUp more than what its tick was given.  *)
LEMMA DebtRoundedUp ==
  ASSUME NEW t \in Ticks \ {MIN_TICK}, NEW pos, pos.tick = t,
         pos.supply \in 0 .. U64_MAX
  PROVE  LET given == (RaisedRatio(t - 1) * pos.supply) \div ZERO_TICK_SCALED_RATIO
         IN  given \in Nat /\ PositionDebt(pos) \in Nat /\ PositionDebt(pos) <= given + RoundedUp(t)
<1> DEFINE R == RatioAtTick[t]
           L == RaisedRatio(t - 1)
           Z == ZERO_TICK_SCALED_RATIO
           U == U64_MAX
           x == pos.supply
           a == L * x
           b == (R - L) * x + R
           c == (R - L) * U + R
<1>1. R \in Nat /\ L \in Nat /\ L <= R
  BY RaisedBelow
<1>2. x \in Nat /\ U \in Nat /\ x <= U /\ Z \in Nat \ {0} /\ t # COLD_TICK
  BY ScaleAssumption, TickConstants, TickRange
<1>3. PositionDebt(pos) = (R * (x + 1)) \div Z + 1
  BY <1>2 DEF PositionDebt
<1>4. RoundedUp(t) = c \div Z + 2
  BY DEF RoundedUp
<1> HIDE DEF R, L, Z, U, x
<1>5. a \in Nat /\ b \in Nat /\ c \in Nat /\ R * (x + 1) = a + b
  BY <1>1, <1>2
<1>6. b <= c
  <2>1. R - L \in Nat
    BY <1>1
  <2>2. (R - L) * x <= (R - L) * U
    BY <1>2, <2>1
  <2> QED BY <1>1, <1>2, <2>1, <2>2
<1> HIDE DEF a, b, c
<1>7. (a + b) \div Z <= a \div Z + c \div Z + 1
  BY <1>2, <1>5, <1>6, QuotientsAdd
<1>8. a \div Z \in Nat /\ c \div Z \in Nat /\ (a + b) \div Z \in Nat
  BY <1>2, <1>5, QuotientNatural
<1>9. a \div Z = (RaisedRatio(t - 1) * pos.supply) \div ZERO_TICK_SCALED_RATIO
  BY DEF a, L, x, Z
<1> QED BY <1>3, <1>4, <1>5, <1>7, <1>8, <1>9

(* What is known of ticks whatever happened.                                *)
Sound(ts) ==
  /\ ts = [t \in Ticks |-> ts[t]]
  /\ \A t \in Ticks : /\ HasFields(ts[t], TickFields)
                      /\ ts[t].raw_debt \in Nat /\ ts[t].total_ids \in Nat

(* A store whose ticks are those of ts, but for some that were liquidated.   *)
Fallen(ts, s) ==
  /\ HasFields(s, StoreFields) /\ Sound(s.ticks)
  /\ \A t \in Ticks : /\ s.ticks[t].total_ids = ts[t].total_ids
                      /\ s.ticks[t] = ts[t] \/ s.ticks[t].is_liquidated
FallenLoop(ts, l) == HasFields(l, LoopFields) /\ Fallen(ts, l.store)

LEMMA SameTicksFallen ==
  ASSUME NEW ts, NEW s, Fallen(ts, s), NEW r, HasFields(r, StoreFields), r.ticks = s.ticks
  PROVE  Fallen(ts, r)
BY DEF Fallen

LEMMA TakenSound ==
  ASSUME NEW ts, Sound(ts), NEW x, NEW c, NEW f
  PROVE  LET T == Taken(ts, x, c, f)
         IN  Sound(T) /\ \A t \in Ticks : /\ T[t].total_ids = ts[t].total_ids
                                          /\ T[t] = ts[t] \/ T[t].is_liquidated
<1> DEFINE T   == Taken(ts, x, c, f)
           old == ts[x]
           o1  == [old EXCEPT !.raw_debt = 0, !.is_liquidated = TRUE]
           o2  == [o1 EXCEPT !.liquidation.branch = c]
           o3  == [o2 EXCEPT !.liquidation.factor = f]
<1>1. ts = [t \in Ticks |-> ts[t]]
  BY DEF Sound
<1>2. CASE x \notin Ticks
  <2>1. T = [t \in Ticks |-> T[t]] /\ \A t \in Ticks : T[t] = ts[t]
    BY <1>1, <1>2 DEF Taken
  <2> HIDE DEF T
  <2>2. T = ts
    BY <1>1, <2>1
  <2> QED BY <2>2 DEF T
<1>3. CASE x \in Ticks
  <2>1. HasFields(old, TickFields) /\ old.total_ids \in Nat
    BY <1>3 DEF Sound
  <2>7. /\ T = [t \in Ticks |-> T[t]] /\ \A t \in Ticks : t # x => T[t] = ts[t]
        /\ T[x] = [old EXCEPT !.raw_debt = 0, !.is_liquidated = TRUE,
                              !.liquidation.branch = c, !.liquidation.factor = f]
    BY <1>1, <1>3 DEF Taken
  <2>2. /\ T = [t \in Ticks |-> T[t]] /\ T[x] = o3
        /\ \A t \in Ticks : t # x => T[t] = ts[t]
    BY <2>7
  <2> HIDE DEF T, old
  <2>3. /\ HasFields(o1, TickFields) /\ o1.total_ids = old.total_ids /\ o1.raw_debt = 0
        /\ o1.is_liquidated = TRUE
    BY <2>1 DEF HasFields, TickFields
  <2> HIDE DEF o1
  <2>4. /\ HasFields(o2, TickFields) /\ o2.total_ids = old.total_ids /\ o2.raw_debt = 0
        /\ o2.is_liquidated = TRUE
    BY <2>3 DEF HasFields, TickFields
  <2> HIDE DEF o2
  <2>5. /\ HasFields(o3, TickFields) /\ o3.total_ids = old.total_ids /\ o3.raw_debt = 0
        /\ o3.is_liquidated = TRUE
    BY <2>4 DEF HasFields, TickFields
  <2> HIDE DEF o3
  <2>6. ASSUME NEW t \in Ticks
        PROVE  /\ HasFields(T[t], TickFields) /\ T[t].raw_debt \in Nat /\ T[t].total_ids \in Nat
               /\ T[t].total_ids = ts[t].total_ids /\ (T[t] = ts[t] \/ T[t].is_liquidated)
    <3>1. CASE t = x
      BY <3>1, <2>1, <2>2, <2>5 DEF old
    <3>2. CASE t # x
      BY <3>2, <2>2 DEF Sound
    <3> QED BY <3>1, <3>2
  <2> QED BY <2>2, <2>6 DEF Sound, T
<1> QED BY <1>2, <1>3

LEMMA GatherFalls ==
  ASSUME NEW ts, NEW l, FallenLoop(ts, l), NEW lt
  PROVE  FallenLoop(ts, Gather(l, lt))
<1> DEFINE g  == Gather(l, lt)
           st == l.store
           search == l.first \/ (l.perfect /\ l.next = l.tick)
           index  == IF search /\ l.perfect THEN ClearBits(st.bits, l.tick) ELSE st.bits
           T == IF l.perfect
                THEN [st.ticks EXCEPT ![l.tick].raw_debt = 0, ![l.tick].is_liquidated = TRUE,
                        ![l.tick].liquidation.branch = l.branch,
                        ![l.tick].liquidation.factor = l.factor]
                ELSE st.ticks
           next == IF search THEN NextTickAbove(index, PlaceOf(l.tick), lt) ELSE l.next
<1>1. HasFields(l, LoopFields) /\ Fallen(ts, st) /\ HasFields(st, StoreFields) /\ Sound(st.ticks)
  BY DEF FallenLoop, Fallen
<1>2. PICK debt, col : g = [l EXCEPT !.debt = debt, !.col = col, !.first = FALSE,
                                     !.store.bits = index, !.store.ticks = T, !.next = next]
  BY DEF Gather
<1>3. Sound(T) /\ \A t \in Ticks : /\ T[t].total_ids = st.ticks[t].total_ids
                                   /\ T[t] = st.ticks[t] \/ T[t].is_liquidated
  <2>1. CASE l.perfect
    <3>1. T = Taken(st.ticks, l.tick, l.branch, l.factor)
      BY <2>1 DEF Taken
    <3> HIDE DEF T
    <3> QED BY <3>1, <1>1, TakenSound
  <2>2. CASE ~l.perfect
    <3>1. T = st.ticks
      BY <2>2
    <3> HIDE DEF T
    <3> QED BY <3>1, <1>1
  <2> QED BY <2>1, <2>2
<1> HIDE DEF g, index, T, next
<1>4. HasFields(g, LoopFields) /\ g.store = [st EXCEPT !.bits = index, !.ticks = T]
  BY <1>1, <1>2 DEF HasFields, LoopFields
<1>5. HasFields(g.store, StoreFields) /\ g.store.ticks = T
  BY <1>1, <1>4 DEF HasFields, StoreFields
<1>6. Fallen(ts, g.store)
  <2>1. ASSUME NEW t \in Ticks
        PROVE  T[t].total_ids = ts[t].total_ids /\ (T[t] = ts[t] \/ T[t].is_liquidated)
    <3>1. st.ticks[t].total_ids = ts[t].total_ids /\ (st.ticks[t] = ts[t] \/ st.ticks[t].is_liquidated)
      BY <1>1 DEF Fallen
    <3> QED BY <3>1, <1>3
  <2> QED BY <2>1, <1>3, <1>5 DEF Fallen
<1> QED BY <1>4, <1>6 DEF FallenLoop, g

LEMMA EndFalls ==
  ASSUME NEW ts, NEW l, FallenLoop(ts, l), NEW ref, NEW due, NEW col_due, NEW cpd
  PROVE  FallenLoop(ts, EndLiquidation(l, ref, due, col_due, cpd))
<1> DEFINE r     == EndLiquidation(l, ref, due, col_due, cpd)
           short == due >= l.remaining
           debt  == IF short THEN l.remaining ELSE due
           col   == IF short THEN ColLiquidated(debt, cpd) ELSE col_due
           end   == IF short THEN EndTick(l, ref, debt, col)
                    ELSE [tick |-> ref.tick + 1, partials |-> 1, fits |-> TRUE]
           sold  == Sell(l, debt, col)
           c     == l.branch
           st    == l.store
           failed == sold.failed \/ ~end.fits \/ sold.debt < MINIMUM_BRANCH_DEBT
<1>1. /\ HasFields(sold, LoopFields) /\ sold.store = st /\ HasFields(st, StoreFields)
      /\ Fallen(ts, st)
  BY SellKeeps DEF FallenLoop, Fallen
<1>2. r = [sold EXCEPT !.ended = TRUE, !.failed = failed,
             !.store.branches[c] = [@ EXCEPT !.status = "liquidated", !.minima_tick = end.tick,
                !.partials = end.partials, !.debt = sold.debt, !.factor = sold.factor],
             !.store.vault = [@ EXCEPT !.liquidated = TRUE, !.top = end.tick, !.current = c]]
  BY DEF EndLiquidation
<1> HIDE DEF sold, end, failed, st, c
<1>3. /\ HasFields(r, LoopFields)
      /\ r.store = [st EXCEPT !.branches[c] = [@ EXCEPT !.status = "liquidated",
                          !.minima_tick = end.tick, !.partials = end.partials, !.debt = sold.debt,
                          !.factor = sold.factor],
                        !.vault = [@ EXCEPT !.liquidated = TRUE, !.top = end.tick, !.current = c]]
  BY <1>1, <1>2 DEF HasFields, LoopFields
<1>4. HasFields(r.store, StoreFields) /\ r.store.ticks = st.ticks
  BY <1>1, <1>3 DEF HasFields, StoreFields
<1> HIDE DEF r
<1>5. Fallen(ts, r.store)
  BY <1>1, <1>4, SameTicksFallen
<1> QED BY <1>3, <1>5 DEF FallenLoop, r

LEMMA MergeFalls ==
  ASSUME NEW ts, NEW l, FallenLoop(ts, l)
  PROVE  FallenLoop(ts, Merge(l))
<1> DEFINE r  == Merge(l)
           st == l.store
           c  == l.branch
           k  == st.branches[c].connected
           factor == st.branches[k].factor
           link   == DivBigNumber(factor, l.factor)
<1>1. HasFields(l, LoopFields) /\ HasFields(st, StoreFields) /\ Fallen(ts, st)
  BY DEF FallenLoop, Fallen
<1>2. PICK failed : r = [l EXCEPT !.branch = k, !.factor = factor, !.failed = failed,
                           !.store.branches[c] = [@ EXCEPT !.status = "merged",
                              !.minima_tick = COLD_TICK, !.partials = 0, !.debt = 0,
                              !.factor = link]]
  BY DEF Merge
<1> HIDE DEF r, factor, link, k, c
<1>3. /\ HasFields(r, LoopFields)
      /\ r.store = [st EXCEPT !.branches[c] = [@ EXCEPT !.status = "merged",
                        !.minima_tick = COLD_TICK, !.partials = 0, !.debt = 0, !.factor = link]]
  BY <1>1, <1>2 DEF HasFields, LoopFields
<1> HIDE DEF st
<1>4. HasFields(r.store, StoreFields) /\ r.store.ticks = st.ticks
  BY <1>1, <1>3 DEF HasFields, StoreFields
<1>5. Fallen(ts, r.store)
  BY <1>1, <1>4, SameTicksFallen
<1> QED BY <1>3, <1>5 DEF FallenLoop, r

LEMMA OnwardFalls ==
  ASSUME NEW ts, NEW l, FallenLoop(ts, l), NEW ref, NEW debt, NEW col
  PROVE  FallenLoop(ts, Onward(l, ref, debt, col))
<1> DEFINE r    == Onward(l, ref, debt, col)
           s1   == Sell(l, debt, col)
           sold == [s1 EXCEPT !.remaining = @ - debt]
           at   == IF ref.status = "liquidated" THEN Merge(sold) ELSE sold
<1>1. r = [at EXCEPT !.tick = ref.tick, !.ratio = ref.ratio, !.perfect = (ref.status = "perfect")]
  BY DEF Onward
<1>2. HasFields(s1, LoopFields) /\ s1.store = l.store /\ Fallen(ts, l.store)
  BY SellKeeps DEF FallenLoop
<1> HIDE DEF s1, r
<1>3. HasFields(sold, LoopFields) /\ sold.store = l.store
  BY <1>2 DEF HasFields, LoopFields
<1> HIDE DEF sold
<1>4. FallenLoop(ts, sold)
  BY <1>2, <1>3 DEF FallenLoop
<1>5. FallenLoop(ts, at)
  BY <1>4, MergeFalls
<1> HIDE DEF at
<1>6. HasFields(r, LoopFields) /\ r.store = at.store
  BY <1>1, <1>5 DEF FallenLoop, HasFields, LoopFields
<1> QED BY <1>5, <1>6 DEF FallenLoop, r

LEMMA TurnFalls ==
  ASSUME NEW ts, NEW l, FallenLoop(ts, l), NEW lt, NEW cpd
  PROVE  FallenLoop(ts, Turn(l, lt, cpd))
<1> DEFINE r   == Turn(l, lt, cpd)
           g   == Gather(l, lt)
           ref == Reference(g, lt)
           all == DebtLiquidated(g, ref, cpd)
           col == ColLiquidated(all, cpd)
           debt == IF all = g.debt THEN all - 1 ELSE all
<1>1. \/ r = l
      \/ r = [g EXCEPT !.failed = TRUE]
      \/ r = EndLiquidation(g, ref, debt, col, cpd)
      \/ r = Onward(g, ref, debt, col)
  BY DEF Turn
<1>2. FallenLoop(ts, g)
  BY GatherFalls
<1> HIDE DEF g, ref, all, col, debt
<1>3. FallenLoop(ts, [g EXCEPT !.failed = TRUE])
  <2> DEFINE f == [g EXCEPT !.failed = TRUE]
  <2>1. HasFields(f, LoopFields) /\ f.store = g.store
    BY <1>2 DEF FallenLoop, HasFields, LoopFields
  <2> HIDE DEF f
  <2>2. FallenLoop(ts, f)
    BY <2>1, <1>2 DEF FallenLoop
  <2> QED BY <2>2 DEF f
<1>4. /\ FallenLoop(ts, EndLiquidation(g, ref, debt, col, cpd))
      /\ FallenLoop(ts, Onward(g, ref, debt, col))
  BY <1>2, EndFalls, OnwardFalls
<1> HIDE DEF r
<1>5. FallenLoop(ts, r)
  BY <1>1, <1>3, <1>4
<1> QED BY <1>5 DEF r

LEMMA LiquidatedFalls ==
  ASSUME NEW ts, NEW l, FallenLoop(ts, l), NEW lt, NEW cpd
  PROVE  FallenLoop(ts, Liquidated(l, lt, cpd))
<1>1. PICK A : /\ A[0] = l
               /\ \A n \in 1 .. MaxTurns : A[n] = Turn(A[n - 1], lt, cpd)
               /\ Liquidated(l, lt, cpd) =
                    [A[MaxTurns] EXCEPT !.failed = @ \/ ~A[MaxTurns].ended]
  BY LiquidatedWalks DEF TurnWalk
<1> DEFINE bad == {n \in Nat : n <= MaxTurns /\ ~FallenLoop(ts, A[n])}
<1>2. bad = {}
  <2>1. SUFFICES ASSUME bad # {} PROVE FALSE
    OBVIOUS
  <2>2. PICK m \in bad : \A k \in bad : m <= k
    BY <2>1, LeastNatural
  <2>3. m # 0
    BY <2>2, <1>1
  <2>4. m \in 1 .. MaxTurns /\ m - 1 \in Nat /\ m - 1 <= MaxTurns /\ m - 1 \notin bad
    BY <2>2, <2>3, MaxTurnsCounts
  <2>5. FallenLoop(ts, A[m - 1])
    BY <2>4
  <2>6. FallenLoop(ts, A[m])
    BY <2>4, <2>5, <1>1, TurnFalls
  <2> QED BY <2>2, <2>6
<1> DEFINE last == A[MaxTurns]
           r    == Liquidated(l, lt, cpd)
<1>3. FallenLoop(ts, last)
  BY <1>2, MaxTurnsCounts
<1>4. r = [last EXCEPT !.failed = @ \/ ~last.ended]
  BY <1>1
<1> HIDE DEF last, r
<1>5. HasFields(r, LoopFields) /\ r.store = last.store
  BY <1>3, <1>4 DEF FallenLoop, HasFields, LoopFields
<1> QED BY <1>3, <1>5 DEF FallenLoop, r

LEMMA StartFalls ==
  ASSUME NEW ts, NEW s, Fallen(ts, s), NEW remaining, NEW absorb
  PROVE  FallenLoop(ts, StartLoop(s, remaining, absorb))
<1> DEFINE b == s.branches[s.vault.current]
           ratio == CASE s.vault.top = COLD_TICK -> 0
                      [] s.vault.liquidated -> PartialsRatio(s.vault.top, b.partials)
                      [] OTHER -> RatioAtTick[s.vault.top]
           next == IF s.vault.liquidated THEN COLD_TICK ELSE s.vault.top
           factor == IF b.factor = BigZero THEN InitialFactor ELSE b.factor
           l0 == [store |-> s, remaining |-> remaining, debt |-> 0, col |-> 0, debt_liq |-> 0,
                  col_liq |-> 0, tick |-> s.vault.top, perfect |-> ~s.vault.liquidated,
                  ratio |-> ratio, next |-> next, branch |-> s.vault.current, first |-> TRUE,
                  failed |-> FALSE, ended |-> FALSE, factor |-> factor]
           l == StartLoop(s, remaining, absorb)
<1>1. l = IF absorb THEN BuyAbsorbed(l0) ELSE l0
  BY DEF StartLoop
<1>2. HasFields(s, StoreFields)
  BY DEF Fallen
<1> HIDE DEF ratio, next, factor
<1>3. HasFields(l0, LoopFields) /\ l0.store = s
  BY DEF HasFields, LoopFields
<1> HIDE DEF l0, l
<1>4. CASE l = l0
  BY <1>3, <1>4 DEF FallenLoop, l
<1>5. CASE l = BuyAbsorbed(l0)
  <2>1. PICK x1, x2, x3, x4, x5 :
          l = [l0 EXCEPT !.debt_liq = x1, !.col_liq = x2, !.remaining = x3,
                         !.store.vault.absorbed_debt = x4, !.store.vault.absorbed_col = x5]
    BY <1>5 DEF BuyAbsorbed
  <2>2. HasFields(l, LoopFields)
        /\ l.store = [s EXCEPT !.vault.absorbed_debt = x4, !.vault.absorbed_col = x5]
    <3> DEFINE l1 == [l0 EXCEPT !.debt_liq = x1, !.col_liq = x2, !.remaining = x3]
               l2 == [l1 EXCEPT !.store.vault.absorbed_debt = x4]
               l3 == [l2 EXCEPT !.store.vault.absorbed_col = x5]
               a1 == [s EXCEPT !.vault.absorbed_debt = x4]
    <3>1. l = l3
      BY <2>1
    <3>2. HasFields(l1, LoopFields) /\ l1.store = s
      BY <1>3 DEF HasFields, LoopFields
    <3> HIDE DEF l1
    <3>3. HasFields(l2, LoopFields) /\ l2.store = a1
      BY <3>2 DEF HasFields, LoopFields
    <3> HIDE DEF l2, a1
    <3>4. HasFields(l3, LoopFields) /\ l3.store = [a1 EXCEPT !.vault.absorbed_col = x5]
      BY <3>3 DEF HasFields, LoopFields
    <3> HIDE DEF l3
    <3> QED BY <3>1, <3>4 DEF a1
  <2>3. HasFields(l.store, StoreFields) /\ l.store.ticks = s.ticks
    BY <1>2, <2>2 DEF HasFields, StoreFields
  <2>4. Fallen(ts, l.store)
    BY <2>3, SameTicksFallen
  <2> QED BY <2>2, <2>4 DEF FallenLoop, l
<1> QED BY <1>1, <1>4, <1>5

LEMMA OutcomeFalls ==
  ASSUME NEW ts, NEW s, Fallen(ts, s), NEW amount, NEW absorb, NEW price
  PROVE  Fallen(ts, ReduceTotals(LiquidationOutcome(s, amount, absorb, price)))
<1> DEFINE r == LiquidationOutcome(s, amount, absorb, price)
           tick == LiquidationTick(price)
           l == StartLoop(s, (amount * EXCHANGE_PRICES_PRECISION) \div borrow_ex_price, absorb)
           w == ReduceTotals(r)
<1>1. FallenLoop(ts, l)
  BY StartFalls
<1>2. \/ r = l
      \/ r = [l EXCEPT !.failed = TRUE]
      \/ r = Liquidated(l, tick, ColPerDebt(price))
  BY DEF LiquidationOutcome
<1> HIDE DEF l, tick, r
<1>3. Fallen(ts, r.store)
  <2>1. CASE r = l
    BY <2>1, <1>1 DEF FallenLoop
  <2>2. CASE r = [l EXCEPT !.failed = TRUE]
    <3>1. r.store = l.store
      BY <2>2, <1>1 DEF FallenLoop, HasFields, LoopFields
    <3> QED BY <3>1, <1>1 DEF FallenLoop
  <2>3. CASE r = Liquidated(l, tick, ColPerDebt(price))
    BY <2>3, <1>1, LiquidatedFalls DEF FallenLoop
  <2> QED BY <1>2, <2>1, <2>2, <2>3
<1>4. PICK x, y : w = [r.store EXCEPT !.vault.supply = x, !.vault.borrow = y]
  BY DEF ReduceTotals
<1>5. HasFields(r.store, StoreFields)
  BY <1>3 DEF Fallen
<1> HIDE DEF w
<1>6. HasFields(w, StoreFields) /\ w.ticks = r.store.ticks
  BY <1>4, <1>5 DEF HasFields, StoreFields
<1>7. Fallen(ts, w)
  BY <1>3, <1>6, SameTicksFallen
<1> QED BY <1>7 DEF w, r

LEMMA AbsorbTicksFalls ==
  ASSUME NEW ts, NEW s, Fallen(ts, s), NEW max
  PROVE  Fallen(ts, AbsorbTicks(s, max).store)
<1> DEFINE r == AbsorbTicks(s, max).store
           above == {t \in TicksFrom(s.bits, PlaceOf(s.vault.top + 1)) : t > max}
           T == [t \in Ticks |-> IF t \in above THEN FullyLiquidated(s.ticks[t]) ELSE s.ticks[t]]
<1>1. HasFields(s, StoreFields) /\ Sound(s.ticks)
  BY DEF Fallen
<1>2. r = [s EXCEPT !.ticks = [t \in Ticks |-> IF t \in above THEN FullyLiquidated(@[t]) ELSE @[t]],
                    !.bits = ClearAll(@, above)]
  BY DEF AbsorbTicks
<1> HIDE DEF r, above
<1>3. HasFields(r, StoreFields) /\ r.ticks = T
  BY <1>1, <1>2 DEF HasFields, StoreFields
<1>4. ASSUME NEW t \in Ticks
      PROVE  /\ HasFields(T[t], TickFields) /\ T[t].raw_debt \in Nat /\ T[t].total_ids \in Nat
             /\ T[t].total_ids = ts[t].total_ids /\ (T[t] = ts[t] \/ T[t].is_liquidated)
  <2> DEFINE old == s.ticks[t]
             new == [old EXCEPT !.raw_debt = 0, !.is_liquidated = TRUE,
                                !.liquidation = Liquidation(TRUE, 0, BigZero)]
  <2>1. /\ HasFields(old, TickFields) /\ old.raw_debt \in Nat /\ old.total_ids \in Nat
        /\ old.total_ids = ts[t].total_ids /\ (old = ts[t] \/ old.is_liquidated)
    BY DEF Fallen, Sound
  <2>2. T[t] = new \/ T[t] = old
    BY DEF FullyLiquidated
  <2> HIDE DEF old, T
  <2>3. /\ HasFields(new, TickFields) /\ new.raw_debt = 0 /\ new.total_ids = old.total_ids
        /\ new.is_liquidated = TRUE
    BY <2>1 DEF HasFields, TickFields
  <2> HIDE DEF new
  <2> QED BY <2>1, <2>2, <2>3
<1>5. T = [t \in Ticks |-> T[t]]
  OBVIOUS
<1> HIDE DEF T
<1> QED BY <1>3, <1>4, <1>5 DEF Fallen, Sound, r

FallenClosing(ts, a) == HasFields(a, ClosingFields) /\ Fallen(ts, a.store)

LEMMA CloseBranchFalls ==
  ASSUME NEW ts, NEW a, FallenClosing(ts, a), NEW max
  PROVE  FallenClosing(ts, CloseBranch(a, max))
<1> DEFINE r  == CloseBranch(a, max)
           st == a.store
           id == a.id
<1>1. HasFields(a, ClosingFields) /\ HasFields(st, StoreFields) /\ Fallen(ts, st)
  BY DEF FallenClosing, Fallen
<1>2. \/ r = a
      \/ \E d, c, i, m : r = [a EXCEPT !.store.branches[id].status = "closed", !.debt = d,
                                       !.col = c, !.id = i, !.minima = m]
  BY DEF CloseBranch
<1> HIDE DEF r, st, id
<1>3. CASE r = a
  BY <1>3 DEF r
<1>4. ASSUME NEW d, NEW c, NEW i, NEW m,
             r = [a EXCEPT !.store.branches[id].status = "closed", !.debt = d,
                           !.col = c, !.id = i, !.minima = m]
      PROVE  FallenClosing(ts, r)
  <2>1. HasFields(r, ClosingFields)
        /\ r.store = [st EXCEPT !.branches[id].status = "closed"]
    BY <1>1, <1>4 DEF HasFields, ClosingFields, st
  <2>2. HasFields(r.store, StoreFields) /\ r.store.ticks = st.ticks
    BY <1>1, <2>1 DEF HasFields, StoreFields
  <2>3. Fallen(ts, r.store)
    BY <1>1, <2>2, SameTicksFallen
  <2> QED BY <2>1, <2>3 DEF FallenClosing
<1> QED BY <1>2, <1>3, <1>4 DEF r

LEMMA CloseBranchesFalls ==
  ASSUME NEW ts, NEW a, FallenClosing(ts, a), NEW max
  PROVE  FallenClosing(ts, CloseBranches(a, max))
<1>1. PICK A : ClosingWalk(A, a, max)
  BY CloseBranchesWalks
<1> DEFINE bad == {n \in Nat : n <= MaxBranches /\ ~FallenClosing(ts, A[n])}
<1>2. bad = {}
  <2>1. SUFFICES ASSUME bad # {} PROVE FALSE
    OBVIOUS
  <2>2. PICK m \in bad : \A k \in bad : m <= k
    BY <2>1, LeastNatural
  <2>3. m # 0
    BY <2>2, <1>1 DEF ClosingWalk
  <2>4. m \in 1 .. MaxBranches /\ m - 1 \in Nat /\ m - 1 <= MaxBranches /\ m - 1 \notin bad
    BY <2>2, <2>3, StoreAssumption
  <2>5. FallenClosing(ts, A[m - 1])
    BY <2>4
  <2>6. FallenClosing(ts, A[m])
    BY <2>4, <2>5, <1>1, CloseBranchFalls DEF ClosingWalk
  <2> QED BY <2>2, <2>6
<1>3. FallenClosing(ts, A[MaxBranches])
  BY <1>2, StoreAssumption
<1> QED BY <1>1, <1>3 DEF ClosingWalk

LEMMA SettleTicks ==
  ASSUME NEW a, HasFields(a.store, StoreFields), NEW next
  PROVE  HasFields(Settle(a, next), StoreFields) /\ Settle(a, next).ticks = a.store.ticks
<1> DEFINE s == a.store
           fresh == s.vault.liquidated
           id == IF fresh THEN s.vault.total + 1 ELSE s.vault.current
           r == Settle(a, next)
<1>1. \/ r = [s EXCEPT !.vault.top = next, !.vault.liquidated = FALSE, !.vault.current = id,
                     !.vault.total = IF fresh THEN @ + 1 ELSE @,
                     !.branches[id] = [EmptyBranch EXCEPT !.connected = a.id,
                                                          !.connected_minima_tick = a.minima]]
      \/ r = [s EXCEPT !.vault.liquidated = TRUE, !.vault.top = a.minima, !.vault.current = a.id,
                     !.vault.total = IF fresh THEN @ ELSE id - 1,
                     !.branches = IF fresh THEN @ ELSE [@ EXCEPT ![id] = EmptyBranch]]
  BY DEF Settle
<1> HIDE DEF s, fresh, id, r
<1>2. HasFields(s, StoreFields)
  BY DEF s
<1>3. HasFields(r, StoreFields) /\ r.ticks = s.ticks
  BY <1>1, <1>2 DEF HasFields, StoreFields
<1> QED BY <1>3 DEF r, s

LEMMA AbsorbFalls ==
  ASSUME NEW ts, NEW s, Fallen(ts, s), NEW max
  PROVE  Fallen(ts, Absorb(s, max))
<1> DEFINE a0   == AbsorbStart(s, max)
           a    == AbsorbClosed(s, max)
           next == AbsorbNext(s, max)
           st   == Settle(a, next)
           r    == Absorb(s, max)
<1>1. FallenClosing(ts, a0)
  <2>1. a0.store = AbsorbTicks(s, max).store /\ HasFields(a0, ClosingFields)
    BY DEF AbsorbStart, HasFields, ClosingFields
  <2> HIDE DEF a0
  <2> QED BY <2>1, AbsorbTicksFalls DEF FallenClosing
<1>2. FallenClosing(ts, a)
  BY <1>1, CloseBranchesFalls DEF AbsorbClosed
<1>3. r = [st EXCEPT !.vault.absorbed_debt = @ + a.debt, !.vault.absorbed_col = @ + a.col]
  BY DEF Absorb, AbsorbStart, AbsorbClosed, AbsorbNext
<1> HIDE DEF a, next, r
<1>4. HasFields(st, StoreFields) /\ st.ticks = a.store.ticks
  BY <1>2, SettleTicks DEF FallenClosing, Fallen
<1> HIDE DEF st
<1>5. HasFields(r, StoreFields) /\ r.ticks = st.ticks
  BY <1>3, <1>4 DEF HasFields, StoreFields
<1>6. Fallen(ts, a.store)
  BY <1>2 DEF FallenClosing
<1>7. r.ticks = a.store.ticks
  BY <1>4, <1>5
<1>8. Fallen(ts, r)
  BY <1>5, <1>6, <1>7, SameTicksFallen
<1> QED BY <1>8 DEF r

(* A liquidation or an absorption leaves every tick as it is or liquidated.  *)
LEMMA LiquidatesFalls ==
  ASSUME Sound(ticks), Liquidates
  PROVE  /\ Sound(ticks') /\ positions' = positions /\ steps' = steps + 1
         /\ \A t \in Ticks : /\ ticks'[t].total_ids = ticks[t].total_ids
                             /\ ticks'[t] = ticks[t] \/ ticks'[t].is_liquidated
<1>1. Fallen(ticks, Store)
  BY StoreFieldsOfStore DEF Fallen
<1>2. ASSUME NEW price PROVE Fallen(ticks, Absorbed(price))
  BY <1>1, AbsorbFalls DEF Absorbed
<1>3. ASSUME NEW s, Fallen(ticks, s), Save(s)
      PROVE  /\ Sound(ticks')
             /\ \A t \in Ticks : /\ ticks'[t].total_ids = ticks[t].total_ids
                                 /\ ticks'[t] = ticks[t] \/ ticks'[t].is_liquidated
  <2>1. ticks' = s.ticks
    BY <1>3 DEF Save
  <2> QED BY <2>1, <1>3 DEF Fallen
<1>4. ASSUME NEW price \in Prices, AbsorbOnly(price)
      PROVE  Save(Absorbed(price)) /\ positions' = positions /\ steps' = steps + 1
  BY <1>4 DEF AbsorbOnly
<1>5. ASSUME NEW price \in Prices, NEW amount \in LiquidationAmounts, NEW absorb \in BOOLEAN,
             Liquidate(amount, absorb, price)
      PROVE  /\ Save(ReduceTotals(LiquidationOutcome(Absorbed(price), amount, absorb, price)))
             /\ positions' = positions /\ steps' = steps + 1
  BY <1>5 DEF Liquidate, Conclude
<1>6. CASE \E price \in Prices : AbsorbOnly(price)
  BY <1>6, <1>2, <1>3, <1>4
<1>7. CASE \E price \in Prices, amount \in LiquidationAmounts, absorb \in BOOLEAN :
             Liquidate(amount, absorb, price)
  <2>1. PICK price \in Prices, amount \in LiquidationAmounts, absorb \in BOOLEAN :
          Liquidate(amount, absorb, price)
    BY <1>7
  <2> DEFINE s == ReduceTotals(LiquidationOutcome(Absorbed(price), amount, absorb, price))
  <2>2. Fallen(ticks, s)
    BY <1>2, OutcomeFalls
  <2>3. Save(s) /\ positions' = positions /\ steps' = steps + 1
    BY <2>1, <1>5
  <2> HIDE DEF s
  <2> QED BY <2>2, <2>3, <1>3
<1> QED BY <1>6, <1>7 DEF Liquidates

(* The ticks us are those of ts, but for their debts.                        *)
SameIds(ts, us) ==
  \A t \in Ticks : /\ us[t].total_ids = ts[t].total_ids
                   /\ us[t].is_liquidated = ts[t].is_liquidated

(* What is due to the positions of a tick that stand in it.                  *)
StandsIn(ts, pos, t) ==
  pos.tick = t /\ pos.tick # COLD_TICK
    /\ ~(ts[t].is_liquidated \/ ts[t].total_ids > pos.tick_id)
DueOf(ts, pos, t) == IF StandsIn(ts, pos, t) THEN PositionDebt(pos) ELSE 0
Due(ts, ps, t) == [p \in PositionIds |-> DueOf(ts, ps[p], t)]

PositionSound(ts, pos) ==
  /\ HasFields(pos, PositionFields)
  /\ pos.supply \in 0 .. U64_MAX /\ pos.tick \in (Ticks \ {MIN_TICK}) \union {COLD_TICK}
  /\ pos.tick # COLD_TICK => pos.tick_id \in 1 .. ts[pos.tick].total_ids

LEMMA SetTopTickKeepsTicks ==
  ASSUME NEW s, HasFields(s, StoreFields)
  PROVE  HasFields(SetTopTick(s), StoreFields) /\ SetTopTick(s).ticks = s.ticks
<1> DEFINE r    == SetTopTick(s)
           id   == s.vault.current
           cur  == s.branches[id]
           cut  == ClearBits(s.bits, s.vault.top)
           next == NextTickFrom(cut, PlaceOf(s.vault.top))
<1>1. \/ r = [s EXCEPT !.bits = cut, !.vault.top = next, !.vault.liquidated = FALSE]
      \/ r = [s EXCEPT !.bits = cut, !.branches[id] = EmptyBranch,
                     !.vault.liquidated = TRUE, !.vault.top = cur.connected_minima_tick,
                     !.vault.current = cur.connected, !.vault.total = id - 1]
  BY DEF SetTopTick
<1> HIDE DEF r, id, cur, cut, next
<1>2. HasFields(r, StoreFields) /\ r.ticks = s.ticks
  BY <1>1 DEF HasFields, StoreFields
<1> QED BY <1>2 DEF r

(* Writing one tick's debt.                                                  *)
LEMMA RawWear ==
  ASSUME NEW s, HasFields(s, StoreFields), Sound(s.ticks), NEW x \in Ticks, NEW raw \in Nat,
         NEW r, HasFields(r, StoreFields), r.ticks = [s.ticks EXCEPT ![x].raw_debt = raw]
  PROVE  /\ Sound(r.ticks) /\ SameIds(s.ticks, r.ticks) /\ r.ticks[x].raw_debt = raw
         /\ \A t \in Ticks : t # x => r.ticks[t] = s.ticks[t]
<1> DEFINE old == s.ticks[x]
           new == [old EXCEPT !.raw_debt = raw]
<1>1. s.ticks = [t \in Ticks |-> s.ticks[t]] /\ HasFields(old, TickFields) /\ old.total_ids \in Nat
  BY DEF Sound
<1>2. /\ r.ticks = [t \in Ticks |-> r.ticks[t]] /\ r.ticks[x] = new
      /\ \A t \in Ticks : t # x => r.ticks[t] = s.ticks[t]
  BY <1>1
<1> HIDE DEF old
<1>3. /\ HasFields(new, TickFields) /\ new.raw_debt = raw /\ new.total_ids = old.total_ids
      /\ new.is_liquidated = old.is_liquidated
  BY <1>1 DEF HasFields, TickFields
<1> HIDE DEF new
<1>4. \A t \in Ticks : /\ HasFields(r.ticks[t], TickFields)
                       /\ r.ticks[t].raw_debt \in Nat /\ r.ticks[t].total_ids \in Nat
  <2> TAKE t \in Ticks
  <2>1. CASE t = x
    BY <2>1, <1>1, <1>2, <1>3
  <2>2. CASE t # x
    BY <2>2, <1>2 DEF Sound
  <2> QED BY <2>1, <2>2
<1>5. SameIds(s.ticks, r.ticks)
  <2> SUFFICES ASSUME NEW t \in Ticks
               PROVE  /\ r.ticks[t].total_ids = s.ticks[t].total_ids
                      /\ r.ticks[t].is_liquidated = s.ticks[t].is_liquidated
    BY DEF SameIds
  <2>1. CASE t = x
    BY <2>1, <1>2, <1>3 DEF old
  <2>2. CASE t # x
    BY <2>2, <1>2
  <2> QED BY <2>1, <2>2
<1> QED BY <1>2, <1>3, <1>4, <1>5 DEF Sound

LEMMA LeaveTickWears ==
  ASSUME NEW s, HasFields(s, StoreFields), Sound(s.ticks), NEW m, m.tick \in Ticks,
         m.debt \in Nat
  PROVE  LET r == LeaveTick(s, m)
         IN  /\ HasFields(r, StoreFields) /\ Sound(r.ticks) /\ SameIds(s.ticks, r.ticks)
             /\ s.ticks[m.tick].raw_debt
                  <= r.ticks[m.tick].raw_debt + m.debt + (MINIMUM_TICK_DEBT - 1)
             /\ \A t \in Ticks : t # m.tick => r.ticks[t] = s.ticks[t]
<1> DEFINE raw  == s.ticks[m.tick].raw_debt
           rest == SaturatingSub(raw, m.debt)
           top  == IF m.tick = s.vault.top THEN SetTopTick(s) ELSE s
           r    == LeaveTick(s, m)
<1>1. /\ raw \in Nat /\ rest \in Nat
      /\ ((rest = 0 /\ raw <= m.debt) \/ rest = raw - m.debt)
  <2>1. raw \in Nat
    BY DEF Sound
  <2> HIDE DEF raw
  <2> QED BY <2>1 DEF SaturatingSub
<1>2. HasFields(top, StoreFields) /\ top.ticks = s.ticks
  BY SetTopTickKeepsTicks
<1>3. CASE rest >= MINIMUM_TICK_DEBT
  <2>1. r = [s EXCEPT !.ticks[m.tick].raw_debt = rest]
    BY <1>3 DEF LeaveTick
  <2> HIDE DEF r, rest
  <2>2. HasFields(r, StoreFields) /\ r.ticks = [s.ticks EXCEPT ![m.tick].raw_debt = rest]
    BY <2>1 DEF HasFields, StoreFields
  <2>3. /\ Sound(r.ticks) /\ SameIds(s.ticks, r.ticks) /\ r.ticks[m.tick].raw_debt = rest
        /\ \A t \in Ticks : t # m.tick => r.ticks[t] = s.ticks[t]
    BY <1>1, <2>2, RawWear
  <2>4. raw <= rest + m.debt + (MINIMUM_TICK_DEBT - 1)
    <3> HIDE DEF raw
    <3> QED BY <1>1, DebtConstants
  <2> QED BY <2>2, <2>3, <2>4 DEF r
<1>4. CASE ~(rest >= MINIMUM_TICK_DEBT)
  <2>1. r = [top EXCEPT !.ticks[m.tick].raw_debt = 0, !.bits = ClearBit(@, m.tick)]
    BY <1>4 DEF LeaveTick
  <2> HIDE DEF r, top
  <2>2. HasFields(r, StoreFields) /\ r.ticks = [s.ticks EXCEPT ![m.tick].raw_debt = 0]
    BY <1>2, <2>1 DEF HasFields, StoreFields
  <2>3. /\ Sound(r.ticks) /\ SameIds(s.ticks, r.ticks) /\ r.ticks[m.tick].raw_debt = 0
        /\ \A t \in Ticks : t # m.tick => r.ticks[t] = s.ticks[t]
    BY <2>2, RawWear
  <2>4. raw <= 0 + m.debt + (MINIMUM_TICK_DEBT - 1)
    <3> HIDE DEF raw, rest
    <3> QED BY <1>1, <1>4, DebtConstants
  <2> QED BY <2>2, <2>3, <2>4 DEF r
<1> QED BY <1>3, <1>4

(* What a position takes out of the ticks is what was due to it, and a rest. *)
LEMMA DetachWears ==
  ASSUME NEW s, HasFields(s, StoreFields), Sound(s.ticks), NEW pos,
         pos.tick \in Ticks \union {COLD_TICK}, pos.supply \in Nat
  PROVE  LET r == Detach(s, Memory(pos)).store
         IN  /\ HasFields(r, StoreFields) /\ Sound(r.ticks) /\ SameIds(s.ticks, r.ticks)
             /\ \A t \in Ticks : s.ticks[t].raw_debt
                  <= r.ticks[t].raw_debt + DueOf(s.ticks, pos, t) + (MINIMUM_TICK_DEBT - 1)
<1> DEFINE m == Memory(pos)
           latest == LatestPosition(s, m)
           r == Detach(s, m).store
<1>1. m.tick = pos.tick /\ m.tick_id = pos.tick_id /\ m.debt = PositionDebt(pos)
  BY DEF Memory
<1>2. m.debt \in Nat
  BY <1>1, PositionDebtTyped
<1> HIDE DEF m, latest
<1>3. CASE m.tick # COLD_TICK /\ ~WasLiquidated(s, m)
  <2> DEFINE l == LeaveTick(s, m)
  <2>1. r = l
    BY <1>3 DEF Detach
  <2>2. m.tick \in Ticks
    BY <1>1, <1>3
  <2>3. /\ HasFields(l, StoreFields) /\ Sound(l.ticks) /\ SameIds(s.ticks, l.ticks)
        /\ s.ticks[m.tick].raw_debt
             <= l.ticks[m.tick].raw_debt + m.debt + (MINIMUM_TICK_DEBT - 1)
        /\ \A t \in Ticks : t # m.tick => l.ticks[t] = s.ticks[t]
    BY <1>2, <2>2, LeaveTickWears
  <2> HIDE DEF r, l
  <2>4. DueOf(s.ticks, pos, m.tick) = m.debt
    BY <1>1, <1>3 DEF DueOf, StandsIn, WasLiquidated
  <2>5. ASSUME NEW t \in Ticks, t # m.tick
        PROVE  s.ticks[t].raw_debt
                 <= l.ticks[t].raw_debt + DueOf(s.ticks, pos, t) + (MINIMUM_TICK_DEBT - 1)
    <3>1. l.ticks[t] = s.ticks[t] /\ s.ticks[t].raw_debt \in Nat
      BY <2>3, <2>5 DEF Sound
    <3>2. DueOf(s.ticks, pos, t) = 0
      BY <1>1, <2>5 DEF DueOf, StandsIn
    <3> QED BY <3>1, <3>2, DebtConstants
  <2> QED BY <2>1, <2>3, <2>4, <2>5 DEF r, m
<1>4. CASE ~(m.tick # COLD_TICK /\ ~WasLiquidated(s, m))
  <2>1. HasFields(r, StoreFields) /\ r.ticks = s.ticks
    <3>1. \/ r = s
          \/ r = LeaveBranch(s, latest.branch, latest.memory.debt)
          \/ r = [s EXCEPT !.vault.absorbed_dust = @ + m.dust - latest.memory.debt]
      BY <1>4 DEF Detach, latest
    <3> HIDE DEF r
    <3> QED BY <3>1 DEF LeaveBranch, HasFields, StoreFields
  <2> HIDE DEF r
  <2>2. \A t \in Ticks : s.ticks[t].raw_debt
                  <= r.ticks[t].raw_debt + DueOf(s.ticks, pos, t) + (MINIMUM_TICK_DEBT - 1)
    <3> TAKE t \in Ticks
    <3>1. s.ticks[t].raw_debt \in Nat
      BY DEF Sound
    <3>2. DueOf(s.ticks, pos, t) \in Nat
      BY <1>1, <1>2 DEF DueOf
    <3> QED BY <2>1, <3>1, <3>2, DebtConstants
  <2> QED BY <2>1, <2>2 DEF SameIds, r, m
<1> QED BY <1>3, <1>4

LEMMA RaiseTopKeepsTicks ==
  ASSUME NEW s, HasFields(s, StoreFields), NEW tick
  PROVE  HasFields(RaiseTop(s, tick), StoreFields) /\ RaiseTop(s, tick).ticks = s.ticks
<1> DEFINE r  == RaiseTop(s, tick)
           id == s.vault.total + 1
           e  == [EmptyBranch EXCEPT !.connected = s.vault.current,
                                     !.connected_minima_tick = s.vault.top]
<1>1. \/ r = s
      \/ r = [s EXCEPT !.vault.top = tick]
      \/ r = [s EXCEPT !.branches[id] = e, !.vault.top = tick, !.vault.liquidated = FALSE,
                       !.vault.current = id, !.vault.total = id]
  BY DEF RaiseTop
<1> HIDE DEF r, id, e
<1>2. HasFields(r, StoreFields) /\ r.ticks = s.ticks
  BY <1>1 DEF HasFields, StoreFields
<1> QED BY <1>2 DEF r

(* What a new debt does to the ticks us: the position pos stands in one of   *)
(* ws, alone under a new id or beside what the tick had.                     *)
PutIn(us, ws, pos) ==
  pos.tick # COLD_TICK =>
    /\ ~ws[pos.tick].is_liquidated /\ pos.tick_id = ws[pos.tick].total_ids
    /\ \/ /\ pos.tick_id = us[pos.tick].total_ids + 1
          /\ PositionDebt(pos) <= ws[pos.tick].raw_debt + RoundedUp(pos.tick)
       \/ /\ pos.tick_id = us[pos.tick].total_ids /\ ~us[pos.tick].is_liquidated
          /\ us[pos.tick].raw_debt + PositionDebt(pos)
               <= ws[pos.tick].raw_debt + RoundedUp(pos.tick)

LEMMA AttachWears ==
  ASSUME NEW s, HasFields(s, StoreFields), Sound(s.ticks), NEW col \in 0 .. U64_MAX,
         NEW net, CanAttach(s, col, net)
  PROVE  LET a == Attach(s, col, net)
             x == a.memory.tick
             pos == [open |-> TRUE, tick |-> x, tick_id |-> a.memory.tick_id,
                     supply |-> a.memory.col, dust |-> a.memory.dust]
         IN  /\ HasFields(a.store, StoreFields) /\ Sound(a.store.ticks)
             /\ x \in Ticks \ {MIN_TICK} /\ a.memory.tick_id \in 1 .. a.store.ticks[x].total_ids
             /\ \A t \in Ticks : t # x => a.store.ticks[t] = s.ticks[t]
             /\ a.memory.col = col /\ PutIn(s.ticks, a.store.ticks, pos)
<1> DEFINE a     == Attach(s, col, net)
           r     == a.store
           tick  == TargetTick(col, net)
           old   == s.ticks[tick]
           fresh == NeedsNewId(s, tick)
           id    == IF fresh THEN old.total_ids + 1 ELSE old.total_ids
           debt  == RawDebtAt(col, net)
           new   == [is_liquidated |-> FALSE, total_ids |-> id, liquidation |-> NoLiquidation,
                     raw_debt |-> IF fresh THEN debt ELSE old.raw_debt + debt]
           moved == fresh /\ old.total_ids > 0
           pos   == [open |-> TRUE, tick |-> tick, tick_id |-> id, supply |-> col,
                     dust |-> debt - net]
<1>1. /\ r = [s EXCEPT !.ticks[tick] = new,
                       !.tick_ids = IF moved THEN [@ EXCEPT ![Record(tick, old.total_ids)] = old.liquidation]
                                    ELSE @,
                       !.bits = SetBit(@, tick)]
      /\ a.memory.col = col /\ a.memory.dust = debt - net
      /\ a.memory.tick = tick /\ a.memory.tick_id = id
  BY DEF Attach
<1>2. /\ tick \in Ticks \ {MIN_TICK} /\ HasTick(NetRatio(col, net))
      /\ debt = (RaisedRatio(tick - 1) * col) \div ZERO_TICK_SCALED_RATIO
  <2> DEFINE u == TickAtRatio(NetRatio(col, net))
  <2>1. tick \in Ticks /\ HasTick(NetRatio(col, net))
    BY DEF CanAttach
  <2>2. u \in Ticks
    BY <2>1, TickAtRatioInTable
  <2>3. tick = u + 1 /\ debt = (RaisedRatio(u) * col) \div ZERO_TICK_SCALED_RATIO
    BY DEF TargetTick, RawDebtAt
  <2> HIDE DEF u, tick, debt
  <2>4. u \in Int /\ MIN_TICK <= u /\ MIN_TICK \in Int
    BY <2>2, TickRange DEF Ticks
  <2>5. tick - 1 = u /\ tick # MIN_TICK
    BY <2>3, <2>4
  <2> QED BY <2>1, <2>3, <2>5
<1> HIDE DEF tick, debt
<1>3. /\ HasFields(old, TickFields) /\ old.total_ids \in Nat /\ old.raw_debt \in Nat
      /\ s.ticks = [t \in Ticks |-> s.ticks[t]]
  BY <1>2 DEF Sound
<1>4. fresh <=> old.total_ids = 0 \/ old.is_liquidated
  BY DEF NeedsNewId
<1> HIDE DEF fresh, a
<1>5. HasFields(r, StoreFields) /\ r.ticks = [s.ticks EXCEPT ![tick] = new]
  BY <1>1 DEF HasFields, StoreFields
<1> HIDE DEF r
<1>6. /\ r.ticks = [t \in Ticks |-> r.ticks[t]] /\ r.ticks[tick] = new
      /\ \A t \in Ticks : t # tick => r.ticks[t] = s.ticks[t]
  BY <1>2, <1>3, <1>5
<1>7. id \in Nat \ {0}
  BY <1>3, <1>4
<1>8. /\ pos.tick = tick /\ pos.tick_id = id /\ pos.supply = col
  OBVIOUS
<1>9. /\ new.is_liquidated = FALSE /\ new.total_ids = id
      /\ new.raw_debt = IF fresh THEN debt ELSE old.raw_debt + debt
      /\ HasFields(new, TickFields)
  BY DEF HasFields, TickFields
<1> HIDE DEF new, pos
<1>10. debt \in Nat /\ PositionDebt(pos) \in Nat /\ PositionDebt(pos) <= debt + RoundedUp(tick)
  BY <1>2, <1>8, DebtRoundedUp
<1>11. Sound(r.ticks)
  <2>1. new.raw_debt \in Nat /\ new.total_ids \in Nat
    BY <1>3, <1>7, <1>9, <1>10
  <2>2. \A t \in Ticks : /\ HasFields(r.ticks[t], TickFields)
                         /\ r.ticks[t].raw_debt \in Nat /\ r.ticks[t].total_ids \in Nat
    <3> TAKE t \in Ticks
    <3>1. CASE t = tick
      BY <3>1, <2>1, <1>6, <1>9
    <3>2. CASE t # tick
      BY <3>2, <1>6 DEF Sound
    <3> QED BY <3>1, <3>2
  <2> QED BY <2>2, <1>6 DEF Sound
<1>12. PutIn(s.ticks, r.ticks, pos)
  <2>1. RoundedUp(tick) \in Nat
    BY <1>2, ErosionTyped
  <2>2. r.ticks[tick].is_liquidated = FALSE /\ r.ticks[tick].total_ids = id
    BY <1>6, <1>9
  <2>3. CASE fresh
    <3>1. id = old.total_ids + 1 /\ r.ticks[tick].raw_debt = debt
      BY <2>3, <1>6, <1>9
    <3> QED BY <3>1, <2>2, <1>8, <1>10 DEF PutIn, old
  <2>4. CASE ~fresh
    <3>1. id = old.total_ids /\ r.ticks[tick].raw_debt = old.raw_debt + debt
          /\ ~old.is_liquidated
      BY <2>4, <1>4, <1>6, <1>9
    <3> HIDE DEF old, id
    <3>2. old.raw_debt + PositionDebt(pos) <= r.ticks[tick].raw_debt + RoundedUp(tick)
      BY <3>1, <2>1, <1>3, <1>10
    <3> QED BY <3>1, <3>2, <2>2, <1>8 DEF PutIn, old
  <2> QED BY <2>3, <2>4
<1> HIDE DEF id
<1>13. a.memory.tick_id \in 1 .. r.ticks[tick].total_ids
  BY <1>1, <1>6, <1>7, <1>9
<1> DEFINE put == [open |-> TRUE, tick |-> a.memory.tick, tick_id |-> a.memory.tick_id,
                   supply |-> a.memory.col, dust |-> a.memory.dust]
<1>14. put = pos
  BY <1>1 DEF pos
<1> HIDE DEF put, pos
<1>15. PutIn(s.ticks, r.ticks, put)
  BY <1>12, <1>14
<1> QED BY <1>1, <1>2, <1>5, <1>6, <1>11, <1>13, <1>15 DEF r, a, put

LEMMA OutcomeWears ==
  ASSUME NEW s, HasFields(s, StoreFields), Sound(s.ticks), NEW old, HasFields(old, MemoryFields),
         NEW col \in 0 .. U64_MAX, NEW debt, debt # 0 => CanAttach(s, col, ScaledDebt(debt))
  PROVE  LET out == Outcome(s, old, col, debt)
             ws  == out.store.ticks
             pos == [open |-> TRUE, tick |-> out.memory.tick, tick_id |-> out.memory.tick_id,
                     supply |-> out.memory.col, dust |-> out.memory.dust]
         IN  /\ HasFields(out.store, StoreFields) /\ Sound(ws) /\ PositionSound(ws, pos)
             /\ \A t \in Ticks : t # pos.tick => ws[t] = s.ticks[t]
             /\ PutIn(s.ticks, ws, pos)
<1> DEFINE out == Outcome(s, old, col, debt)
           ws  == out.store.ticks
           pos == [open |-> TRUE, tick |-> out.memory.tick, tick_id |-> out.memory.tick_id,
                   supply |-> out.memory.col, dust |-> out.memory.dust]
<1>1. /\ HasFields(pos, PositionFields) /\ pos.tick = out.memory.tick
      /\ pos.tick_id = out.memory.tick_id /\ pos.supply = out.memory.col
  BY DEF HasFields, PositionFields
<1>2. CASE debt = 0
  <2> DEFINE left == [old EXCEPT !.col = col, !.debt = 0, !.dust = 0, !.tick = COLD_TICK,
                                 !.tick_id = 0]
  <2>1. out.store = s /\ out.memory = left
    BY <1>2 DEF Outcome
  <2>2. left.col = col /\ left.tick = COLD_TICK
    BY DEF HasFields, MemoryFields
  <2> HIDE DEF out, pos, left
  <2>3. PositionSound(s.ticks, pos) /\ pos.tick = COLD_TICK
    BY <1>1, <2>1, <2>2 DEF PositionSound
  <2> QED BY <2>1, <2>3 DEF PutIn, out, pos
<1>3. CASE debt # 0
  <2> DEFINE net == ScaledDebt(debt)
             a   == Attach(s, col, net)
             t0  == RaiseTop(a.store, a.memory.tick)
             x   == a.memory.tick
             put == [open |-> TRUE, tick |-> x, tick_id |-> a.memory.tick_id,
                     supply |-> a.memory.col, dust |-> a.memory.dust]
  <2>1. out.store = t0 /\ out.memory = a.memory
    BY <1>3 DEF Outcome
  <2>2. CanAttach(s, col, net)
    BY <1>3
  <2> HIDE DEF net
  <2>3. /\ HasFields(a.store, StoreFields) /\ Sound(a.store.ticks)
        /\ x \in Ticks \ {MIN_TICK} /\ a.memory.tick_id \in 1 .. a.store.ticks[x].total_ids
        /\ \A t \in Ticks : t # x => a.store.ticks[t] = s.ticks[t]
        /\ a.memory.col = col /\ PutIn(s.ticks, a.store.ticks, put)
    BY <2>2, AttachWears
  <2>4. HasFields(t0, StoreFields) /\ t0.ticks = a.store.ticks
    BY <2>3, RaiseTopKeepsTicks
  <2>5. pos = put
    BY <2>1
  <2> HIDE DEF out, a, t0, pos, put
  <2>6. x = pos.tick /\ pos.tick_id = a.memory.tick_id /\ pos.supply = col
    BY <1>1, <2>1, <2>3
  <2>7. PositionSound(a.store.ticks, pos)
    BY <1>1, <2>3, <2>6 DEF PositionSound
  <2> QED BY <2>1, <2>3, <2>4, <2>5, <2>6, <2>7 DEF out, pos
<1> QED BY <1>2, <1>3

(* The inductive invariant: what is due, and the shapes it rests on.         *)
Worn ==
  /\ Sound(ticks) /\ positions = [p \in PositionIds |-> positions[p]] /\ steps \in Nat
  /\ \A p \in PositionIds : PositionSound(ticks, positions[p])
  /\ \A t \in Ticks \ {MIN_TICK} :
       SumFunctionOnSet(Due(ticks, positions, t), PositionIds)
         <= ticks[t].raw_debt + steps * Erosion(t)

LEMMA DueTyped ==
  ASSUME NEW ts, NEW pos, PositionSound(ts, pos), NEW t
  PROVE  DueOf(ts, pos, t) \in Nat
<1>1. pos.tick \in Ticks \union {COLD_TICK} /\ pos.supply \in Nat
  BY ScaleAssumption DEF PositionSound
<1>2. PositionDebt(pos) \in Nat
  BY <1>1, PositionDebtTyped
<1> QED BY <1>2 DEF DueOf

LEMMA DueCounted ==
  ASSUME NEW ts, NEW ps, \A p \in PositionIds : PositionSound(ts, ps[p]), NEW t
  PROVE  Counted(Due(ts, ps, t), PositionIds)
BY DueTyped DEF Due, Counted

LEMMA DueIsStanding ==
  ASSUME NEW t
  PROVE  DebtStanding(t) = SumFunctionOnSet(Due(ticks, positions, t), PositionIds)
<1> DEFINE f == [p \in PositionIds |-> IF Stands(p, t) THEN PositionDebt(positions[p]) ELSE 0]
<1>1. ASSUME NEW p \in PositionIds
      PROVE  Stands(p, t) <=> StandsIn(ticks, positions[p], t)
  <2> DEFINE m == Memory(positions[p])
  <2>1. m.tick = positions[p].tick /\ m.tick_id = positions[p].tick_id
    BY MemoryShaped
  <2> HIDE DEF m
  <2>2. WasLiquidated(Store, m)
          <=> (ticks[positions[p].tick].is_liquidated
                 \/ ticks[positions[p].tick].total_ids > positions[p].tick_id)
    BY <2>1, StoreFieldsOfStore DEF WasLiquidated
  <2> QED BY <2>2 DEF Stands, HasDebt, StandsIn, m
<1>2. f = Due(ticks, positions, t)
  BY <1>1 DEF Due, DueOf
<1>3. DOMAIN f = PositionIds
  OBVIOUS
<1>4. DebtStanding(t) = SumFunction(f)
  BY DEF DebtStanding
<1> HIDE DEF f
<1>5. SumFunction(f) = SumFunctionOnSet(f, PositionIds)
  BY <1>3, SumOfFunction
<1> QED BY <1>2, <1>4, <1>5

LEMMA OperateWears ==
  ASSUME Worn, NEW p \in PositionIds, NEW new_col, NEW new_debt, Operate(p, new_col, new_debt)
  PROVE  \E ds, pos :
           /\ Sound(ds) /\ SameIds(ticks, ds)
           /\ \A t \in Ticks : ticks[t].raw_debt
                <= ds[t].raw_debt + DueOf(ticks, positions[p], t) + (MINIMUM_TICK_DEBT - 1)
           /\ Sound(ticks') /\ PositionSound(ticks', pos) /\ PutIn(ds, ticks', pos)
           /\ \A t \in Ticks : t # pos.tick => ticks'[t] = ds[t]
           /\ positions' = [positions EXCEPT ![p] = pos] /\ steps' = steps + 1
<1> DEFINE m    == Memory(positions[p])
           d    == Detach(Store, m)
           s    == d.store
           old  == d.memory
           col  == NewCollateral(old.col, new_col)
           debt == NewDebt(old.debt, new_debt)
           out  == Outcome(s, old, col, debt)
           after == UpdateTotals(out.store, out.memory, old)
           pos  == [open |-> TRUE, tick |-> out.memory.tick, tick_id |-> out.memory.tick_id,
                    supply |-> out.memory.col, dust |-> out.memory.dust]
<1>1. Change(p, s, old, new_col, new_debt)
  BY DEF Operate
<1>2. /\ HasFields(s, StoreFields) /\ Sound(s.ticks) /\ SameIds(ticks, s.ticks)
      /\ \A t \in Ticks : ticks[t].raw_debt
           <= s.ticks[t].raw_debt + DueOf(ticks, positions[p], t) + (MINIMUM_TICK_DEBT - 1)
  <2>1. /\ positions[p].tick \in Ticks \union {COLD_TICK} /\ positions[p].supply \in Nat
    BY ScaleAssumption DEF Worn, PositionSound
  <2>2. HasFields(Store, StoreFields) /\ Store.ticks = ticks /\ Sound(ticks)
    BY StoreFieldsOfStore DEF Worn
  <2> HIDE DEF d
  <2> QED BY <2>1, <2>2, DetachWears DEF d
<1>3. HasFields(old, MemoryFields)
  <2>1. HasFields(m, MemoryFields)
    BY MemoryShaped
  <2> QED BY <2>1, DetachedShaped
<1> HIDE DEF m, d
<1>4. /\ debt # 0 => CanAttach(s, col, ScaledDebt(debt))
      /\ WriteBack(p, old, out.store, out.memory)
  BY <1>1 DEF Change, DebtAllowed
<1>5. out.memory.col = col
  <2> DEFINE left == [old EXCEPT !.col = col, !.debt = 0, !.dust = 0, !.tick = COLD_TICK,
                                 !.tick_id = 0]
  <2>1. left.col = col
    BY <1>3 DEF HasFields, MemoryFields
  <2>2. debt = 0 => out.memory = left
    BY DEF Outcome
  <2>3. debt # 0 => out.memory.col = col
    BY DEF Outcome, Attach
  <2> HIDE DEF left, out
  <2> QED BY <2>1, <2>2, <2>3
<1>6. /\ out.memory.col \in 0 .. U64_MAX /\ Save(after) /\ steps' = steps + 1
      /\ positions' = [positions EXCEPT ![p] = pos]
  BY <1>4 DEF WriteBack
<1>7. /\ HasFields(out.store, StoreFields) /\ Sound(out.store.ticks)
      /\ PositionSound(out.store.ticks, pos)
      /\ \A t \in Ticks : t # pos.tick => out.store.ticks[t] = s.ticks[t]
      /\ PutIn(s.ticks, out.store.ticks, pos)
  BY <1>2, <1>3, <1>4, <1>5, <1>6, OutcomeWears
<1> HIDE DEF out, pos
<1>8. after.ticks = out.store.ticks
  BY <1>7 DEF UpdateTotals, HasFields, StoreFields
<1>9. ticks' = out.store.ticks
  BY <1>6, <1>8 DEF Save
<1> QED BY <1>2, <1>6, <1>7, <1>9

(* What is due of a tick before and after its position p was written anew.   *)
LEMMA TickWorn ==
  ASSUME Worn, NEW p \in PositionIds, NEW ds, NEW ws, NEW pos, NEW ps,
         Sound(ds), SameIds(ticks, ds), Sound(ws), PositionSound(ws, pos), PutIn(ds, ws, pos),
         NEW t \in Ticks \ {MIN_TICK},
         ticks[t].raw_debt
           <= ds[t].raw_debt + DueOf(ticks, positions[p], t) + (MINIMUM_TICK_DEBT - 1),
         t # pos.tick => ws[t] = ds[t],
         ps[p] = pos, \A q \in PositionIds : q # p => ps[q] = positions[q]
  PROVE  SumFunctionOnSet(Due(ws, ps, t), PositionIds)
           <= ws[t].raw_debt + (steps + 1) * Erosion(t)
<1> DEFINE f == Due(ticks, positions, t)
           h == Due(ws, ps, t)
           E == Erosion(t)
           R == RoundedUp(t)
           M == MINIMUM_TICK_DEBT - 1
           F == SumFunctionOnSet(f, PositionIds)
           H == SumFunctionOnSet(h, PositionIds)
<1>1. /\ ticks[t].raw_debt \in Nat /\ ticks[t].total_ids \in Nat
      /\ ds[t].raw_debt \in Nat /\ ws[t].raw_debt \in Nat /\ ws[t].total_ids \in Nat
  BY DEF Worn, Sound
<1>2. E \in Nat /\ R \in Nat /\ E = R + M /\ M \in Nat
  BY ErosionTyped, DebtConstants
<1>3. Counted(f, PositionIds) /\ IsFiniteSet(PositionIds)
  BY DueCounted, FiniteDomains DEF Worn
<1>4. f[p] = DueOf(ticks, positions[p], t) /\ h[p] = DueOf(ws, pos, t)
      /\ f[p] \in Nat /\ h[p] \in Nat
  <2>1. DueOf(ws, pos, t) \in Nat /\ DueOf(ticks, positions[p], t) \in Nat
    BY DueTyped DEF Worn
  <2> QED BY <2>1 DEF Due
<1>5. steps \in Nat /\ F <= ticks[t].raw_debt + steps * E /\ steps * E \in Nat
  <2>1. steps \in Nat /\ F <= ticks[t].raw_debt + steps * E
    BY DEF Worn
  <2> HIDE DEF E, F
  <2> QED BY <2>1, <1>2
<1>6. (steps + 1) * E = steps * E + R + M
  <2> HIDE DEF E, R, M
  <2> QED BY <1>2, <1>5
<1>7. ASSUME NEW q \in PositionIds, q # p, NEW i, i = positions[q].tick_id
      PROVE  /\ h[q] = DueOf(ws, positions[q], t) /\ f[q] = DueOf(ticks, positions[q], t)
             /\ positions[q].tick = t => i \in Nat /\ i <= ticks[t].total_ids
  <2>1. PositionSound(ticks, positions[q])
    BY DEF Worn
  <2>2. t # COLD_TICK
    BY TickRange
  <2>3. positions[q].tick = t => i \in Nat /\ i <= ticks[t].total_ids
    BY <1>1, <1>7, <2>1, <2>2 DEF PositionSound
  <2> QED BY <1>7, <2>3 DEF Due
<1>8. ticks[t].total_ids = ds[t].total_ids /\ ticks[t].is_liquidated = ds[t].is_liquidated
  BY DEF SameIds
<1>9. CASE pos.tick = t /\ pos.tick_id = ds[t].total_ids + 1
  <2>1. /\ ws[t].total_ids = ticks[t].total_ids + 1
        /\ PositionDebt(pos) <= ws[t].raw_debt + R
    BY <1>1, <1>8, <1>9, TickRange DEF PutIn
  <2>2. \A q \in PositionIds : q # p => h[q] = 0
    <3> TAKE q \in PositionIds
    <3> HAVE q # p
    <3>1. h[q] = DueOf(ws, positions[q], t)
          /\ (positions[q].tick = t =>
                positions[q].tick_id \in Nat /\ positions[q].tick_id <= ticks[t].total_ids)
      BY <1>7
    <3>2. ~StandsIn(ws, positions[q], t)
      BY <1>1, <2>1, <3>1 DEF StandsIn
    <3> QED BY <3>1, <3>2 DEF DueOf
  <2> DEFINE none == [q \in PositionIds |-> 0]
  <2>3. Counted(none, PositionIds) /\ none[p] = 0 /\ \A q \in PositionIds : q # p => h[q] = none[q]
    BY <2>2 DEF Counted
  <2>4. SumFunctionOnSet(none, PositionIds) = 0
    BY <1>3, SumOfZeros
  <2> HIDE DEF none, h
  <2>5. H = SumFunctionOnSet(none, PositionIds) - none[p] + h[p]
    BY <1>3, <1>4, <2>3, SumChanged
  <2>6. h[p] = 0 \/ h[p] = PositionDebt(pos)
    BY <1>4 DEF DueOf
  <2>7. H <= ws[t].raw_debt + R
    BY <1>1, <1>2, <1>4, <2>1, <2>3, <2>4, <2>5, <2>6
  <2> HIDE DEF H, E, R, M, F
  <2>8. H = h[p]
    BY <1>4, <2>3, <2>4, <2>5 DEF H
  <2> QED BY <1>1, <1>2, <1>4, <1>5, <1>6, <2>7, <2>8 DEF H, E, h
<1>10. CASE ~(pos.tick = t /\ pos.tick_id = ds[t].total_ids + 1)
  <2>1. /\ ws[t].total_ids = ticks[t].total_ids
        /\ ws[t].is_liquidated <=> ticks[t].is_liquidated
        /\ ds[t].raw_debt + h[p] <= ws[t].raw_debt + R
    <3>1. CASE pos.tick # t
      <4>1. ws[t] = ds[t]
        BY <3>1
      <4>2. h[p] = 0
        BY <3>1, <1>4 DEF DueOf, StandsIn
      <4> HIDE DEF h
      <4> QED BY <4>1, <4>2, <1>1, <1>2, <1>8
    <3>2. CASE pos.tick = t
      <4>1. /\ ~ws[t].is_liquidated /\ ws[t].total_ids = ds[t].total_ids
            /\ ~ds[t].is_liquidated
            /\ ds[t].raw_debt + PositionDebt(pos) <= ws[t].raw_debt + R
        BY <3>2, <1>10, TickRange DEF PutIn
      <4>2. h[p] = 0 \/ h[p] = PositionDebt(pos)
        BY <1>4 DEF DueOf
      <4>3. ws[t].is_liquidated <=> ticks[t].is_liquidated
        BY <4>1, <1>8
      <4> HIDE DEF h, R
      <4>4. ds[t].raw_debt + h[p] <= ws[t].raw_debt + R
        <5>1. pos.tick \in Ticks \union {COLD_TICK} /\ pos.supply \in Nat
          BY ScaleAssumption DEF PositionSound
        <5>2. PositionDebt(pos) \in Nat
          BY <5>1, PositionDebtTyped
        <5> QED BY <4>1, <4>2, <5>2, <1>1, <1>2, <1>4
      <4> QED BY <4>1, <4>3, <4>4, <1>8
    <3> QED BY <3>1, <3>2
  <2>2. \A q \in PositionIds : q # p => h[q] = f[q]
    <3> TAKE q \in PositionIds
    <3> HAVE q # p
    <3>1. h[q] = DueOf(ws, positions[q], t) /\ f[q] = DueOf(ticks, positions[q], t)
      BY <1>7
    <3>2. StandsIn(ws, positions[q], t) <=> StandsIn(ticks, positions[q], t)
      BY <2>1 DEF StandsIn
    <3> QED BY <3>1, <3>2 DEF DueOf
  <2> HIDE DEF f, h
  <2>3. H = F - f[p] + h[p] /\ F \in Nat /\ H \in Nat
    BY <1>3, <1>4, <2>2, SumChanged
  <2>4. ticks[t].raw_debt <= ds[t].raw_debt + f[p] + M
    BY <1>4
  <2> HIDE DEF H, E, R, M, F
  <2> QED BY <1>1, <1>2, <1>4, <1>5, <1>6, <2>1, <2>3, <2>4 DEF H, E, h
<1> QED BY <1>9, <1>10

LEMMA OperatesWorn ==
  ASSUME Worn, Operates
  PROVE  Worn'
<1>1. PICK p \in PositionIds, amounts \in Amounts : Operate(p, amounts[1], amounts[2])
  BY DEF Operates
<1>2. PICK ds, pos :
        /\ Sound(ds) /\ SameIds(ticks, ds)
        /\ \A t \in Ticks : ticks[t].raw_debt
             <= ds[t].raw_debt + DueOf(ticks, positions[p], t) + (MINIMUM_TICK_DEBT - 1)
        /\ Sound(ticks') /\ PositionSound(ticks', pos) /\ PutIn(ds, ticks', pos)
        /\ \A t \in Ticks : t # pos.tick => ticks'[t] = ds[t]
        /\ positions' = [positions EXCEPT ![p] = pos] /\ steps' = steps + 1
  BY <1>1, OperateWears
<1> DEFINE ws == ticks'
           ps == positions'
<1>3. positions = [q \in PositionIds |-> positions[q]] /\ steps \in Nat
  BY DEF Worn
<1>4. /\ ps = [q \in PositionIds |-> ps[q]] /\ ps[p] = pos
      /\ \A q \in PositionIds : q # p => ps[q] = positions[q]
  BY <1>2, <1>3
<1> HIDE DEF ws, ps
<1>5. \A t \in Ticks : /\ ticks[t].total_ids \in Nat /\ ws[t].total_ids \in Nat
                       /\ ticks[t].total_ids <= ws[t].total_ids
  <2> TAKE t \in Ticks
  <2>1. ticks[t].total_ids \in Nat /\ ws[t].total_ids \in Nat
    BY <1>2 DEF Worn, Sound, ws
  <2>2. ds[t].total_ids = ticks[t].total_ids
    BY <1>2 DEF SameIds
  <2>3. CASE t # pos.tick
    BY <2>1, <2>2, <2>3, <1>2 DEF ws
  <2>4. CASE t = pos.tick
    <3>1. t # COLD_TICK
      BY TickRange
    <3>2. pos.tick_id = ws[t].total_ids
          /\ (pos.tick_id = ds[t].total_ids + 1 \/ pos.tick_id = ds[t].total_ids)
      BY <2>4, <3>1, <1>2 DEF PutIn, ws
    <3> QED BY <2>1, <2>2, <3>2
  <2> QED BY <2>1, <2>3, <2>4
<1>6. ASSUME NEW q \in PositionIds PROVE PositionSound(ws, ps[q])
  <2>1. CASE q = p
    BY <2>1, <1>2, <1>4 DEF ws
  <2>2. CASE q # p
    <3>1. ps[q] = positions[q] /\ PositionSound(ticks, positions[q])
      BY <2>2, <1>4 DEF Worn
    <3> QED BY <3>1, <1>5 DEF PositionSound
  <2> QED BY <2>1, <2>2
<1>7. ASSUME NEW t \in Ticks \ {MIN_TICK}
      PROVE  SumFunctionOnSet(Due(ws, ps, t), PositionIds)
               <= ws[t].raw_debt + (steps + 1) * Erosion(t)
  <2>1. Sound(ws) /\ PositionSound(ws, pos) /\ PutIn(ds, ws, pos)
        /\ (t # pos.tick => ws[t] = ds[t])
    BY <1>2 DEF ws
  <2>2. ticks[t].raw_debt
          <= ds[t].raw_debt + DueOf(ticks, positions[p], t) + (MINIMUM_TICK_DEBT - 1)
    BY <1>2
  <2> QED BY <1>2, <1>4, <2>1, <2>2, TickWorn
<1>8. Sound(ws) /\ steps' = steps + 1 /\ steps + 1 \in Nat
  BY <1>2, <1>3 DEF ws
<1> QED BY <1>4, <1>6, <1>7, <1>8 DEF Worn, ws, ps

LEMMA LiquidatesWorn ==
  ASSUME Worn, Liquidates
  PROVE  Worn'
<1> DEFINE ws == ticks'
<1>1. /\ Sound(ws) /\ positions' = positions /\ steps' = steps + 1
      /\ \A t \in Ticks : /\ ws[t].total_ids = ticks[t].total_ids
                          /\ ws[t] = ticks[t] \/ ws[t].is_liquidated
  BY LiquidatesFalls DEF Worn
<1> HIDE DEF ws
<1>2. \A p \in PositionIds : PositionSound(ws, positions[p])
  BY <1>1 DEF Worn, PositionSound
<1>3. ASSUME NEW t \in Ticks \ {MIN_TICK}
      PROVE  SumFunctionOnSet(Due(ws, positions, t), PositionIds)
               <= ws[t].raw_debt + (steps + 1) * Erosion(t)
  <2> DEFINE f == Due(ticks, positions, t)
             h == Due(ws, positions, t)
             F == SumFunctionOnSet(f, PositionIds)
             H == SumFunctionOnSet(h, PositionIds)
             E == Erosion(t)
  <2>1. /\ ticks[t].raw_debt \in Nat /\ ws[t].raw_debt \in Nat /\ steps \in Nat
        /\ F <= ticks[t].raw_debt + steps * E
    BY <1>1 DEF Worn, Sound
  <2>2. E \in Nat
    BY ErosionTyped
  <2>3. Counted(f, PositionIds) /\ IsFiniteSet(PositionIds)
    BY DueCounted, FiniteDomains DEF Worn
  <2>4. CASE ws[t] = ticks[t]
    <3>1. \A q \in PositionIds : f[q] = h[q]
      BY <2>4 DEF Due, DueOf, StandsIn
    <3> HIDE DEF f, h
    <3>2. F = H /\ F \in Nat
      BY <2>3, <3>1, SumAgrees, SumNatural
    <3> HIDE DEF F, H, E
    <3>3. (steps + 1) * E = steps * E + E /\ steps * E \in Nat
      BY <2>1, <2>2
    <3>4. H <= ws[t].raw_debt + (steps + 1) * E
      BY <2>1, <2>2, <2>4, <3>2, <3>3
    <3> QED BY <3>4 DEF H, E, h
  <2>5. CASE ws[t].is_liquidated
    <3>1. \A q \in PositionIds : h[q] = 0
      BY <2>5 DEF Due, DueOf, StandsIn
    <3> HIDE DEF h
    <3>2. H = 0
      BY <2>3, <3>1, SumOfZeros
    <3> HIDE DEF H, E
    <3>3. (steps + 1) * E \in Nat
      BY <2>1, <2>2
    <3>4. H <= ws[t].raw_debt + (steps + 1) * E
      BY <2>1, <3>2, <3>3
    <3> QED BY <3>4 DEF H, E, h
  <2> QED BY <1>1, <2>4, <2>5
<1>4. steps + 1 \in Nat /\ positions = [p \in PositionIds |-> positions[p]]
  BY DEF Worn
<1> QED BY <1>1, <1>2, <1>3, <1>4 DEF Worn, ws

(* A position that is opened or closed has no debt before or after.          *)
LEMMA OpenedAndClosedWorn ==
  ASSUME Worn, InitPosition \/ \E p \in PositionIds : ClosePosition(p)
  PROVE  Worn'
<1>1. ticks' = ticks /\ steps' = steps
  BY DEF InitPosition, ClosePosition, accounts
<1>2. ASSUME NEW n \in PositionIds, NEW e, positions' = [positions EXCEPT ![n] = e],
             PositionSound(ticks, e), \A t : DueOf(ticks, e, t) = DueOf(ticks, positions[n], t)
      PROVE  Worn'
  <2> DEFINE ps == positions'
  <2>1. positions = [q \in PositionIds |-> positions[q]]
    BY DEF Worn
  <2>2. /\ ps = [q \in PositionIds |-> ps[q]] /\ ps[n] = e
        /\ \A q \in PositionIds : q # n => ps[q] = positions[q]
    BY <1>2, <2>1
  <2> HIDE DEF ps
  <2>3. \A q \in PositionIds : PositionSound(ticks, ps[q])
    <3> TAKE q \in PositionIds
    <3>1. CASE q = n
      BY <3>1, <2>2, <1>2
    <3>2. CASE q # n
      BY <3>2, <2>2 DEF Worn
    <3> QED BY <3>1, <3>2
  <2>4. \A t : Due(ticks, ps, t) = Due(ticks, positions, t)
    <3> TAKE t
    <3>1. \A q \in PositionIds : DueOf(ticks, ps[q], t) = DueOf(ticks, positions[q], t)
      BY <1>2, <2>2
    <3> QED BY <3>1 DEF Due
  <2> QED BY <1>1, <2>2, <2>3, <2>4 DEF Worn, ps
<1>3. CASE InitPosition
  <2> DEFINE n == next_position_id
             was == positions[n]
             e == [was EXCEPT !.open = TRUE]
  <2>1. n \in PositionIds /\ positions' = [positions EXCEPT ![n] = e]
    BY <1>3 DEF InitPosition
  <2>2. PositionSound(ticks, was)
    BY <2>1 DEF Worn
  <2> HIDE DEF was
  <2>3. /\ e.tick = was.tick /\ e.tick_id = was.tick_id /\ e.supply = was.supply
        /\ HasFields(e, PositionFields)
    BY <2>2 DEF PositionSound, HasFields, PositionFields
  <2> HIDE DEF e
  <2>4. PositionSound(ticks, e)
    BY <2>2, <2>3 DEF PositionSound
  <2>5. \A t : DueOf(ticks, e, t) = DueOf(ticks, was, t)
    BY <2>3 DEF DueOf, StandsIn, PositionDebt
  <2> QED BY <2>1, <2>4, <2>5, <1>2 DEF was
<1>4. ASSUME NEW p \in PositionIds, ClosePosition(p) PROVE Worn'
  <2>1. positions' = [positions EXCEPT ![p] = NoPosition] /\ positions[p].tick = COLD_TICK
    BY <1>4 DEF ClosePosition
  <2>2. /\ NoPosition.tick = COLD_TICK /\ NoPosition.supply = 0
        /\ HasFields(NoPosition, PositionFields)
    BY DEF NoPosition, HasFields, PositionFields
  <2>3. PositionSound(ticks, NoPosition)
    BY <2>2, ScaleAssumption DEF PositionSound
  <2>4. \A t : DueOf(ticks, NoPosition, t) = DueOf(ticks, positions[p], t)
    BY <2>1, <2>2 DEF DueOf, StandsIn
  <2> QED BY <2>1, <2>3, <2>4, <1>2
<1> QED BY <1>3, <1>4

LEMMA InitWorn == Init => Worn
<1> SUFFICES ASSUME Init PROVE Worn
  OBVIOUS
<1>1. /\ ticks = [t \in Ticks |-> EmptyTick] /\ positions = [p \in PositionIds |-> NoPosition]
      /\ steps = 0
  BY DEF Init, EmptyStore
<1>2. HasFields(EmptyTick, TickFields) /\ EmptyTick.raw_debt = 0 /\ EmptyTick.total_ids = 0
  BY DEF EmptyTick, HasFields, TickFields
<1>3. /\ NoPosition.tick = COLD_TICK /\ NoPosition.supply = 0
      /\ HasFields(NoPosition, PositionFields)
  BY DEF NoPosition, HasFields, PositionFields
<1>4. Sound(ticks) /\ \A p \in PositionIds : PositionSound(ticks, positions[p])
  BY <1>1, <1>2, <1>3, ScaleAssumption DEF Sound, PositionSound
<1>5. ASSUME NEW t \in Ticks \ {MIN_TICK}
      PROVE  SumFunctionOnSet(Due(ticks, positions, t), PositionIds)
               <= ticks[t].raw_debt + steps * Erosion(t)
  <2> DEFINE f == Due(ticks, positions, t)
  <2>1. \A p \in PositionIds : f[p] = 0
    BY <1>1, <1>3 DEF Due, DueOf, StandsIn
  <2> HIDE DEF f
  <2>2. SumFunctionOnSet(f, PositionIds) = 0
    BY <2>1, FiniteDomains, SumOfZeros
  <2>3. Erosion(t) \in Nat /\ ticks[t].raw_debt = 0 /\ steps * Erosion(t) = 0
    BY <1>1, <1>2, ErosionTyped
  <2> QED BY <2>2, <2>3 DEF f
<1> QED BY <1>1, <1>4, <1>5 DEF Worn

(* Positions that stand in a tick can miss at most what the operations so    *)
(* far can have rounded away there and dropped: the debt of a position that  *)
(* is locked out by the check of user.rs:182-185 is no more than that, for   *)
(* every scale of ratios and debts, after any liquidation and absorption.    *)
THEOREM LockedOutDust == Spec => []LockedOutIsDust
<1>1. Init => Worn
  BY InitWorn
<1>2. Worn /\ [Next]_vars => Worn'
  <2> SUFFICES ASSUME Worn, [Next]_vars PROVE Worn'
    OBVIOUS
  <2>1. CASE InitPosition \/ \E p \in PositionIds : ClosePosition(p)
    BY <2>1, OpenedAndClosedWorn
  <2>2. CASE Operates
    BY <2>2, OperatesWorn
  <2>3. CASE Liquidates
    BY <2>3, LiquidatesWorn
  <2>4. CASE UNCHANGED vars
    BY <2>4 DEF Worn, vars
  <2> QED BY <2>1, <2>2, <2>3, <2>4 DEF Next
<1>3. Worn => LockedOutIsDust
  BY DueIsStanding DEF Worn, LockedOutIsDust
<1> QED BY <1>1, <1>2, <1>3, PTL DEF Spec
=============================================================================

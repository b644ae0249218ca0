--------------------------- MODULE SolvencyProofs ---------------------------
(***************************************************************************)
(* The books of the liquidity layer and its solvency, for every value of   *)
(* the constants.  The books: the totals of the reserve are the sums of    *)
(* the positions, the claim total is the sum of the claim accounts, and    *)
(* the cached utilization and borrow rate are those of the totals, prices  *)
(* and curve beside them.  Solvency: no step leaves the vault and the      *)
(* debts short of supply, claims and the deposits under way.               *)
(*                                                                         *)
(* The argument for solvency has two halves.  Interest: over any time, the *)
(* suppliers are credited no more than the borrowers are charged           *)
(* (YieldBound, YieldPaid), because the utilization that scales their yield *)
(* is the one of the stored totals.  Instructions: at the accrued prices,  *)
(* every operate, mode switch, claim and collection rounds in favour of    *)
(* the layer.  The last part shows what the layer promises each protocol:  *)
(* that it implements the supply account of LiquidityAccounts.             *)
(***************************************************************************)
EXTENDS LiquidityProofs, LiquidityAccounts

-----------------------------------------------------------------------------
(* Sums.  SumOf(f) counts the pairs <<x, i>> with i in 1..f[x], so that it *)
(* changes with one value of f as the cardinality of a union does.         *)

LEMMA UnitsFinite ==
  ASSUME NEW D, IsFiniteSet(D), NEW f \in [D -> Nat]
  PROVE  IsFiniteSet(UNION {{x} \X (1..f[x]) : x \in D})
<1> DEFINE parts == {{x} \X (1..f[x]) : x \in D}
           part == [x \in D |-> {x} \X (1..f[x])]
<1>1. \A x \in D : IsFiniteSet({x} \X (1..f[x]))
  <2> TAKE x \in D
  <2>1. IsFiniteSet({x})
    BY FS_Singleton
  <2>2. f[x] \in Int /\ 1 \in Int
    OBVIOUS
  <2>3. IsFiniteSet(1..f[x])
    BY <2>2, FS_Interval
  <2> QED BY <2>1, <2>3, FS_Product
<1>2. part \in Surjection(D, parts)
  BY DEF Surjection
<1>3. IsFiniteSet(parts)
  BY <1>2, FS_Surjection
<1>4. \A T \in parts : IsFiniteSet(T)
  BY <1>1
<1> HIDE DEF parts
<1> QED BY <1>3, <1>4, FS_UNION DEF parts

(* One value set apart from the others.                                    *)
LEMMA SumSplit ==
  ASSUME NEW D, IsFiniteSet(D), NEW f \in [D -> Nat], NEW p \in D
  PROVE  LET rest == UNION {{x} \X (1..f[x]) : x \in D \ {p}}
         IN  /\ IsFiniteSet(rest)
             /\ SumOf(f) = Cardinality(rest) + f[p]
<1> DEFINE rest == UNION {{x} \X (1..f[x]) : x \in D \ {p}}
           own == {p} \X (1..f[p])
           g == [x \in D \ {p} |-> f[x]]
<1>1. IsFiniteSet(rest)
  <2>1. IsFiniteSet(D \ {p}) /\ g \in [D \ {p} -> Nat]
    BY FS_Subset
  <2>2. IsFiniteSet(UNION {{x} \X (1..g[x]) : x \in D \ {p}})
    BY <2>1, UnitsFinite
  <2>3. rest = UNION {{x} \X (1..g[x]) : x \in D \ {p}}
    BY Zenon
  <2> QED BY <2>2, <2>3
<1>2. IsFiniteSet(own) /\ Cardinality(own) = f[p]
  <2>1. f[p] \in Nat /\ f[p] \in Int /\ 1 \in Int
    OBVIOUS
  <2>2. IsFiniteSet({p}) /\ Cardinality({p}) = 1
    BY FS_Singleton
  <2>3. /\ IsFiniteSet(1..f[p])
        /\ Cardinality(1..f[p]) = IF 1 > f[p] THEN 0 ELSE f[p] - 1 + 1
    BY <2>1, FS_Interval
  <2>4. IsFiniteSet(own) /\ Cardinality(own) = Cardinality({p}) * Cardinality(1..f[p])
    BY <2>2, <2>3, FS_Product
  <2>5. Cardinality(1..f[p]) = f[p]
    BY <2>1, <2>3
  <2>6. 1 * f[p] = f[p]
    BY <2>1
  <2> QED BY <2>2, <2>4, <2>5, <2>6
<1>3. Units(f) = rest \cup own
  BY DEF Units
<1>4. rest \cap own = {}
  OBVIOUS
<1>5. Cardinality(rest) \in Nat /\ f[p] \in Nat
  BY <1>1, FS_CardinalityType
<1> HIDE DEF rest, own
<1>6. Cardinality(rest \cup own)
        = Cardinality(rest) + Cardinality(own) - Cardinality(rest \cap own)
  BY <1>1, <1>2, FS_Union
<1>7. Cardinality(rest \cap own) = 0
  BY <1>4, FS_EmptySet
<1>8. SumOf(f) = Cardinality(rest) + f[p]
  BY <1>2, <1>3, <1>5, <1>6, <1>7 DEF SumOf
<1> QED BY <1>1, <1>8 DEF rest

LEMMA SumUpdated ==
  ASSUME NEW D, IsFiniteSet(D), NEW f \in [D -> Nat], NEW p \in D, NEW v \in Nat
  PROVE  /\ SumOf(f) \in Nat /\ f[p] <= SumOf(f)
         /\ SumOf([f EXCEPT ![p] = v]) = SumOf(f) - f[p] + v
<1> DEFINE g == [f EXCEPT ![p] = v]
           rest == UNION {{x} \X (1..f[x]) : x \in D \ {p}}
<1>1. g \in [D -> Nat] /\ g[p] = v
  OBVIOUS
<1>2. rest = UNION {{x} \X (1..g[x]) : x \in D \ {p}}
  <2>1. \A x \in D \ {p} : g[x] = f[x]
    OBVIOUS
  <2>2. {{x} \X (1..f[x]) : x \in D \ {p}} = {{x} \X (1..g[x]) : x \in D \ {p}}
    BY <2>1
  <2> QED BY <2>2
<1>3. SumOf(f) = Cardinality(rest) + f[p] /\ IsFiniteSet(rest)
  BY SumSplit
<1> HIDE DEF g
<1>4. SumOf(g) = Cardinality(rest) + g[p]
  BY <1>1, <1>2, SumSplit
<1>5. Cardinality(rest) \in Nat /\ f[p] \in Nat
  BY <1>3, FS_CardinalityType
<1> HIDE DEF rest
<1> QED BY <1>1, <1>3, <1>4, <1>5 DEF g

LEMMA SumOfZeros ==
  ASSUME NEW D, NEW f \in [D -> {0}]
  PROVE  SumOf(f) = 0
<1>1. \A x \in D : 1..f[x] = {}
  OBVIOUS
<1>2. Units(f) = {}
  BY <1>1 DEF Units
<1> QED BY <1>2, FS_EmptySet DEF SumOf

-----------------------------------------------------------------------------
(* The totals of a reserve record, by interest mode, and the share of a    *)
(* position, of either side, in the total of a mode.                       *)

SupplyTotal(r, mode) ==
  IF mode THEN r.total_supply_with_interest ELSE r.total_supply_interest_free
BorrowTotal(r, mode) ==
  IF mode THEN r.total_borrow_with_interest ELSE r.total_borrow_interest_free

Share(pos, mode) == IF pos.with_interest = mode THEN pos.amount ELSE 0

LEMMA TotalsBySide ==
  TotalsMatchPositions <=>
    \A mode \in BOOLEAN : /\ SupplyTotal(reserve, mode) = SumOf(SuppliedIn(mode))
                          /\ BorrowTotal(reserve, mode) = SumOf(BorrowedIn(mode))
BY DEF TotalsMatchPositions, SupplyTotal, BorrowTotal

(* Storing prices, utilization and rate leaves the totals alone; a shift   *)
(* moves one of them.                                                      *)
LEMMA RestatedTotals ==
  ASSUME NEW r \in LooseReserve, NEW prices, NEW m, NEW mode \in BOOLEAN
  PROVE  /\ SupplyTotal(Restated(r, prices, m), mode) = SupplyTotal(r, mode)
         /\ BorrowTotal(Restated(r, prices, m), mode) = BorrowTotal(r, mode)
         /\ SupplyTotal(WithPrices(r, prices), mode) = SupplyTotal(r, mode)
         /\ BorrowTotal(WithPrices(r, prices), mode) = BorrowTotal(r, mode)
BY DEF Restated, WithPrices, SupplyTotal, BorrowTotal, LooseReserve

LEMMA ShiftedTotals ==
  ASSUME NEW r \in LooseReserve, NEW own \in BOOLEAN, NEW delta \in Int, NEW mode \in BOOLEAN
  PROVE  /\ SupplyTotal(ShiftSupply(r, own, delta), mode)
              = IF mode = own THEN Shifted(SupplyTotal(r, mode), delta) ELSE SupplyTotal(r, mode)
         /\ BorrowTotal(ShiftSupply(r, own, delta), mode) = BorrowTotal(r, mode)
         /\ BorrowTotal(ShiftBorrow(r, own, delta), mode)
              = IF mode = own THEN Shifted(BorrowTotal(r, mode), delta) ELSE BorrowTotal(r, mode)
         /\ SupplyTotal(ShiftBorrow(r, own, delta), mode) = SupplyTotal(r, mode)
<1> HIDE DEF Shifted
<1> QED BY DEF ShiftSupply, ShiftBorrow, SupplyTotal, BorrowTotal, LooseReserve

(* The subtraction does not saturate when the total covers the decrease.   *)
LEMMA ShiftExact ==
  ASSUME NEW total \in Nat, NEW delta \in Int, total + delta >= 0
  PROVE  Shifted(total, delta) = total + delta
BY DEF Shifted, SaturatingSub

LEMMA SharesNatural ==
  ASSUME TypeInv, NEW p \in Protocols, NEW mode \in BOOLEAN
  PROVE  /\ Share(supplyPos[p], mode) \in Nat /\ Share(borrowPos[p], mode) \in Nat
         /\ SuppliedIn(mode) \in [Protocols -> Nat] /\ SuppliedIn(mode)[p] = Share(supplyPos[p], mode)
         /\ BorrowedIn(mode) \in [Protocols -> Nat] /\ BorrowedIn(mode)[p] = Share(borrowPos[p], mode)
<1>1. \A q \in Protocols : supplyPos[q].amount \in Nat /\ borrowPos[q].amount \in Nat
  BY Unpacked, Constants DEF SupplyPosition, BorrowPosition
<1> QED BY <1>1 DEF Share, SuppliedIn, BorrowedIn

(* The sums after one position has been rewritten.                         *)
LEMMA SuppliedUpdated ==
  ASSUME TypeInv, NEW p \in Protocols, NEW new, NEW mode \in BOOLEAN, Share(new, mode) \in Nat,
         supplyPos' = [supplyPos EXCEPT ![p] = new]
  PROVE  /\ Share(supplyPos[p], mode) <= SumOf(SuppliedIn(mode))
         /\ SumOf(SuppliedIn(mode)) \in Nat
         /\ SumOf(SuppliedIn(mode)') =
              SumOf(SuppliedIn(mode)) - Share(supplyPos[p], mode) + Share(new, mode)
<1>1. SuppliedIn(mode)' = [SuppliedIn(mode) EXCEPT ![p] = Share(new, mode)]
  <2>1. \A q \in Protocols : supplyPos'[q] = IF q = p THEN new ELSE supplyPos[q]
    BY Unpacked
  <2>2. SuppliedIn(mode)' = [q \in Protocols |-> Share(supplyPos'[q], mode)]
    BY DEF SuppliedIn, Share
  <2>3. SuppliedIn(mode) = [q \in Protocols |-> Share(supplyPos[q], mode)]
    BY DEF SuppliedIn, Share
  <2> HIDE DEF Share
  <2> QED BY <2>1, <2>2, <2>3
<1>2. IsFiniteSet(Protocols)
  BY AccessAssumption DEF AccessAssumption
<1>3. SuppliedIn(mode) \in [Protocols -> Nat] /\ SuppliedIn(mode)[p] = Share(supplyPos[p], mode)
  BY SharesNatural
<1>4. \A f \in [Protocols -> Nat] :
        /\ SumOf(f) \in Nat /\ f[p] <= SumOf(f)
        /\ SumOf([f EXCEPT ![p] = Share(new, mode)]) = SumOf(f) - f[p] + Share(new, mode)
  BY <1>2, SumUpdated
<1> QED BY <1>1, <1>3, <1>4

LEMMA BorrowedUpdated ==
  ASSUME TypeInv, NEW p \in Protocols, NEW new, NEW mode \in BOOLEAN, Share(new, mode) \in Nat,
         borrowPos' = [borrowPos EXCEPT ![p] = new]
  PROVE  /\ Share(borrowPos[p], mode) <= SumOf(BorrowedIn(mode))
         /\ SumOf(BorrowedIn(mode)) \in Nat
         /\ SumOf(BorrowedIn(mode)') =
              SumOf(BorrowedIn(mode)) - Share(borrowPos[p], mode) + Share(new, mode)
<1>1. BorrowedIn(mode)' = [BorrowedIn(mode) EXCEPT ![p] = Share(new, mode)]
  <2>1. \A q \in Protocols : borrowPos'[q] = IF q = p THEN new ELSE borrowPos[q]
    BY Unpacked
  <2>2. BorrowedIn(mode)' = [q \in Protocols |-> Share(borrowPos'[q], mode)]
    BY DEF BorrowedIn, Share
  <2>3. BorrowedIn(mode) = [q \in Protocols |-> Share(borrowPos[q], mode)]
    BY DEF BorrowedIn, Share
  <2> HIDE DEF Share
  <2> QED BY <2>1, <2>2, <2>3
<1>2. IsFiniteSet(Protocols)
  BY AccessAssumption DEF AccessAssumption
<1>3. BorrowedIn(mode) \in [Protocols -> Nat] /\ BorrowedIn(mode)[p] = Share(borrowPos[p], mode)
  BY SharesNatural
<1>4. \A f \in [Protocols -> Nat] :
        /\ SumOf(f) \in Nat /\ f[p] <= SumOf(f)
        /\ SumOf([f EXCEPT ![p] = Share(new, mode)]) = SumOf(f) - f[p] + Share(new, mode)
  BY <1>2, SumUpdated
<1> QED BY <1>1, <1>3, <1>4

-----------------------------------------------------------------------------
(* Totals and positions: each instruction either leaves both alone or      *)
(* books the new share of the one position it rewrites.                    *)

SuppliesMatch ==
  \A mode \in BOOLEAN : SupplyTotal(reserve, mode) = SumOf(SuppliedIn(mode))
BorrowsMatch ==
  \A mode \in BOOLEAN : BorrowTotal(reserve, mode) = SumOf(BorrowedIn(mode))

LEMMA SupplyBooked ==
  ASSUME TypeInv, SuppliesMatch, NEW p \in Protocols, NEW new,
         supplyPos' = [supplyPos EXCEPT ![p] = new],
         \A mode \in BOOLEAN :
           /\ Share(new, mode) \in Nat
           /\ SupplyTotal(reserve', mode) =
                SupplyTotal(reserve, mode) - Share(supplyPos[p], mode) + Share(new, mode)
  PROVE  SuppliesMatch'
BY SuppliedUpdated DEF SuppliesMatch

LEMMA BorrowBooked ==
  ASSUME TypeInv, BorrowsMatch, NEW p \in Protocols, NEW new,
         borrowPos' = [borrowPos EXCEPT ![p] = new],
         \A mode \in BOOLEAN :
           /\ Share(new, mode) \in Nat
           /\ BorrowTotal(reserve', mode) =
                BorrowTotal(reserve, mode) - Share(borrowPos[p], mode) + Share(new, mode)
  PROVE  BorrowsMatch'
BY BorrowedUpdated DEF BorrowsMatch

LEMMA SupplyUnchanged ==
  ASSUME SuppliesMatch,
         \A mode \in BOOLEAN : SupplyTotal(reserve', mode) = SupplyTotal(reserve, mode),
         \A q \in Protocols, mode \in BOOLEAN :
           Share(supplyPos'[q], mode) = Share(supplyPos[q], mode)
  PROVE  SuppliesMatch'
<1>1. \A mode \in BOOLEAN : SuppliedIn(mode) = [q \in Protocols |-> Share(supplyPos[q], mode)]
                         /\ SuppliedIn(mode)' = [q \in Protocols |-> Share(supplyPos'[q], mode)]
  BY DEF SuppliedIn, Share
<1>2. \A mode \in BOOLEAN : SuppliedIn(mode)' = SuppliedIn(mode)
  BY <1>1
<1> QED BY <1>2 DEF SuppliesMatch

LEMMA BorrowUnchanged ==
  ASSUME BorrowsMatch,
         \A mode \in BOOLEAN : BorrowTotal(reserve', mode) = BorrowTotal(reserve, mode),
         \A q \in Protocols, mode \in BOOLEAN :
           Share(borrowPos'[q], mode) = Share(borrowPos[q], mode)
  PROVE  BorrowsMatch'
<1>1. \A mode \in BOOLEAN : BorrowedIn(mode) = [q \in Protocols |-> Share(borrowPos[q], mode)]
                         /\ BorrowedIn(mode)' = [q \in Protocols |-> Share(borrowPos'[q], mode)]
  BY DEF BorrowedIn, Share
<1>2. \A mode \in BOOLEAN : BorrowedIn(mode)' = BorrowedIn(mode)
  BY <1>1
<1> QED BY <1>2 DEF BorrowsMatch

(* A total covers each share in it.                                        *)
LEMMA ShareInTotal ==
  ASSUME TypeInv, NEW p \in Protocols, NEW mode \in BOOLEAN
  PROVE  /\ SuppliesMatch => Share(supplyPos[p], mode) <= SupplyTotal(reserve, mode)
         /\ BorrowsMatch => Share(borrowPos[p], mode) <= BorrowTotal(reserve, mode)
         /\ SupplyTotal(reserve, mode) \in Nat /\ BorrowTotal(reserve, mode) \in Nat
<1>1. \A f \in [Protocols -> Nat] : f[p] <= SumOf(f)
  <2>1. IsFiniteSet(Protocols)
    BY AccessAssumption DEF AccessAssumption
  <2> QED BY <2>1, SumUpdated
<1>2. SupplyTotal(reserve, mode) \in Nat /\ BorrowTotal(reserve, mode) \in Nat
  BY Unpacked DEF SupplyTotal, BorrowTotal, LooseReserve
<1> QED BY <1>1, <1>2, SharesNatural DEF SuppliesMatch, BorrowsMatch

-----------------------------------------------------------------------------
(* operate.                                                                *)

LEMMA OperateBooks ==
  ASSUME TypeInv, SuppliesMatch, BorrowsMatch,
         NEW p \in Protocols, NEW supply \in Int, NEW borrow \in Int,
         NEW wto \in Recipients, NEW bto \in Recipients, NEW type,
         Operate(p, supply, borrow, wto, bto, type)
  PROVE  SuppliesMatch' /\ BorrowsMatch'
<1> DEFINE prices == CalculateExchangePrices(reserve, now)
           spos == supplyPos[p]
           bpos == borrowPos[p]
           sdelta == SupplyDelta(spos, supply, prices.supply)
           bdelta == BorrowDelta(bpos, borrow, prices.borrow)
           supplied == ShiftSupply(reserve, spos.with_interest, sdelta)
           moved == ShiftBorrow(supplied, bpos.with_interest, bdelta)
           final == Restated(moved, prices, rate_model)
           snew == SupplyOrWithdraw(spos, supply, prices.supply, now)
           bnew == BorrowOrPayback(bpos, borrow, prices.borrow, now)
<1>1. supply \in Int /\ borrow \in Int
  OBVIOUS
<1>2. /\ spos \in SupplyPosition /\ bpos \in BorrowPosition
      /\ prices.supply \in Nat \ {0} /\ prices.borrow \in Nat \ {0}
  BY Unpacked
<1>3. /\ supply # 0 => spos.amount + sdelta \in 0..U64_MAX
      /\ borrow # 0 => bpos.amount + bdelta \in 0..U64_MAX
      /\ supplyPos' = IF supply = 0 THEN supplyPos ELSE [supplyPos EXCEPT ![p] = snew]
      /\ borrowPos' = IF borrow = 0 THEN borrowPos ELSE [borrowPos EXCEPT ![p] = bnew]
      /\ reserve' = [final EXCEPT !.total_claim_amount =
                       final.total_claim_amount +
                         IF type = "CLAIM" THEN Positive(-supply) + Positive(borrow) ELSE 0]
  BY DEF Operate, SupplyOrWithdrawAllowed, BorrowOrPaybackAllowed
<1>4. /\ snew.amount = spos.amount + sdelta /\ snew.with_interest = spos.with_interest
      /\ bnew.amount = bpos.amount + bdelta /\ bnew.with_interest = bpos.with_interest
  BY <1>2 DEF SupplyOrWithdraw, BorrowOrPayback, SupplyPosition, BorrowPosition
<1>5. sdelta \in Int /\ bdelta \in Int
  BY <1>1, <1>2, SupplyDeltaInteger, BorrowDeltaInteger
<1>6. (supply = 0 => sdelta = 0) /\ (borrow = 0 => bdelta = 0)
  <2>1. \A price \in Nat \ {0} : DivCeil(-0 * Precision, price) = 0 /\ (-0 * Precision) \div price = 0
    <3>1. -0 * Precision = 0
      BY Constants
    <3>2. \A price \in Nat \ {0} : (0 + price - 1) \div price = 0 /\ 0 \div price = 0
      OBVIOUS
    <3> QED BY <3>1, <3>2 DEF DivCeil
  <2> QED BY <1>2, <2>1 DEF SupplyDelta, BorrowDelta
<1> HIDE DEF sdelta, bdelta, snew, bnew
<1>7. /\ spos.with_interest \in BOOLEAN /\ bpos.with_interest \in BOOLEAN
      /\ spos.amount \in Nat /\ bpos.amount \in Nat
  BY <1>2, Constants DEF SupplyPosition, BorrowPosition
<1>8. supplied \in LooseReserve
  BY <1>5, Unpacked, ShiftTyped
<1>9. moved \in LooseReserve
  BY <1>5, <1>8, ShiftTyped
<1>10. ASSUME NEW mode \in BOOLEAN
       PROVE  /\ SupplyTotal(reserve', mode) =
                   IF mode = spos.with_interest THEN Shifted(SupplyTotal(reserve, mode), sdelta)
                   ELSE SupplyTotal(reserve, mode)
              /\ BorrowTotal(reserve', mode) =
                   IF mode = bpos.with_interest THEN Shifted(BorrowTotal(reserve, mode), bdelta)
                   ELSE BorrowTotal(reserve, mode)
  <2>1. /\ SupplyTotal(supplied, mode) =
             IF mode = spos.with_interest THEN Shifted(SupplyTotal(reserve, mode), sdelta)
             ELSE SupplyTotal(reserve, mode)
        /\ BorrowTotal(supplied, mode) = BorrowTotal(reserve, mode)
    BY <1>5, <1>7, Unpacked, ShiftedTotals
  <2> HIDE DEF supplied
  <2>2. /\ BorrowTotal(moved, mode) =
             IF mode = bpos.with_interest THEN Shifted(BorrowTotal(supplied, mode), bdelta)
             ELSE BorrowTotal(supplied, mode)
        /\ SupplyTotal(moved, mode) = SupplyTotal(supplied, mode)
    BY <1>5, <1>7, <1>8, ShiftedTotals
  <2> HIDE DEF moved
  <2>3. /\ SupplyTotal(final, mode) = SupplyTotal(moved, mode)
        /\ BorrowTotal(final, mode) = BorrowTotal(moved, mode)
    BY <1>9, RestatedTotals
  <2>4. /\ SupplyTotal(reserve', mode) = SupplyTotal(final, mode)
        /\ BorrowTotal(reserve', mode) = BorrowTotal(final, mode)
    <3> HIDE DEF final
    <3> QED BY <1>3 DEF SupplyTotal, BorrowTotal
  <2> QED BY <2>1, <2>2, <2>3, <2>4
<1> HIDE DEF supplied, moved, final
<1>11. SuppliesMatch'
  <2>1. CASE supply = 0
    <3>1. \A mode \in BOOLEAN : SupplyTotal(reserve', mode) = SupplyTotal(reserve, mode)
      BY <1>6, <1>10, <2>1, ShareInTotal, ShiftExact
    <3>2. supplyPos' = supplyPos
      BY <1>3, <2>1
    <3> QED BY <3>1, <3>2, SupplyUnchanged
  <2>2. CASE supply # 0
    <3>1. spos.amount + sdelta \in Nat
      BY <1>3, <2>2, Constants
    <3>2. supplyPos' = [supplyPos EXCEPT ![p] = snew]
      BY <1>3, <2>2
    <3>3. ASSUME NEW mode \in BOOLEAN
          PROVE  /\ Share(snew, mode) \in Nat
                 /\ SupplyTotal(reserve', mode) =
                      SupplyTotal(reserve, mode) - Share(spos, mode) + Share(snew, mode)
      <4>1. /\ Share(spos, mode) <= SupplyTotal(reserve, mode)
            /\ SupplyTotal(reserve, mode) \in Nat
        BY ShareInTotal
      <4>2. CASE mode = spos.with_interest
        <5>1. Share(spos, mode) = spos.amount /\ Share(snew, mode) = spos.amount + sdelta
          BY <1>4, <4>2 DEF Share
        <5>2. Shifted(SupplyTotal(reserve, mode), sdelta) = SupplyTotal(reserve, mode) + sdelta
          BY <1>5, <1>7, <3>1, <4>1, <5>1, ShiftExact
        <5> QED BY <1>5, <1>7, <1>10, <3>1, <4>1, <4>2, <5>1, <5>2
      <4>3. CASE mode # spos.with_interest
        <5>1. Share(spos, mode) = 0 /\ Share(snew, mode) = 0
          BY <1>4, <4>3 DEF Share
        <5> QED BY <1>10, <4>1, <4>3, <5>1
      <4> QED BY <4>2, <4>3
    <3> QED BY <3>2, <3>3, SupplyBooked
  <2> QED BY <2>1, <2>2
<1>12. BorrowsMatch'
  <2>1. CASE borrow = 0
    <3>1. \A mode \in BOOLEAN : BorrowTotal(reserve', mode) = BorrowTotal(reserve, mode)
      BY <1>6, <1>10, <2>1, ShareInTotal, ShiftExact
    <3>2. borrowPos' = borrowPos
      BY <1>3, <2>1
    <3> QED BY <3>1, <3>2, BorrowUnchanged
  <2>2. CASE borrow # 0
    <3>1. bpos.amount + bdelta \in Nat
      BY <1>3, <2>2, Constants
    <3>2. borrowPos' = [borrowPos EXCEPT ![p] = bnew]
      BY <1>3, <2>2
    <3>3. ASSUME NEW mode \in BOOLEAN
          PROVE  /\ Share(bnew, mode) \in Nat
                 /\ BorrowTotal(reserve', mode) =
                      BorrowTotal(reserve, mode) - Share(bpos, mode) + Share(bnew, mode)
      <4>1. /\ Share(bpos, mode) <= BorrowTotal(reserve, mode)
            /\ BorrowTotal(reserve, mode) \in Nat
        BY ShareInTotal
      <4>2. CASE mode = bpos.with_interest
        <5>1. Share(bpos, mode) = bpos.amount /\ Share(bnew, mode) = bpos.amount + bdelta
          BY <1>4, <4>2 DEF Share
        <5>2. Shifted(BorrowTotal(reserve, mode), bdelta) = BorrowTotal(reserve, mode) + bdelta
          BY <1>5, <1>7, <3>1, <4>1, <5>1, ShiftExact
        <5> QED BY <1>5, <1>7, <1>10, <3>1, <4>1, <4>2, <5>1, <5>2
      <4>3. CASE mode # bpos.with_interest
        <5>1. Share(bpos, mode) = 0 /\ Share(bnew, mode) = 0
          BY <1>4, <4>3 DEF Share
        <5> QED BY <1>10, <4>1, <4>3, <5>1
      <4> QED BY <4>2, <4>3
    <3> QED BY <3>2, <3>3, BorrowBooked
  <2> QED BY <2>1, <2>2
<1> QED BY <1>11, <1>12

-----------------------------------------------------------------------------
(* Changes of interest mode.  The two modes differ, so the amount leaves   *)
(* one total and its conversion enters the other.                          *)

LEMMA SupplySwitchBooks ==
  ASSUME TypeInv, SuppliesMatch, BorrowsMatch, NEW signer \in Accounts, NEW p \in Protocols,
         NEW c \in UserSupplyConfigs, SwitchSupplyMode(signer, p, c)
  PROVE  SuppliesMatch' /\ BorrowsMatch'
<1> DEFINE prices == CalculateExchangePrices(reserve, now)
           pos == supplyPos[p]
           converted == ConvertedSupply(pos, c.mode, prices.supply)
           accrued == Accrued(reserve)
           left == ShiftSupply(accrued, pos.with_interest, -pos.amount)
           bears == c.mode = 1
           moved == ShiftSupply(left, bears, converted.amount)
           new == WithSupplyConfig(converted, c)
<1>1. /\ pos \in SupplyPosition /\ prices.supply \in Nat \ {0}
      /\ pos.with_interest \in BOOLEAN /\ pos.amount \in Nat
  BY Unpacked, Constants DEF SupplyPosition
<1>2. converted \in SupplyPosition /\ converted.amount \in Nat
  BY <1>1, SupplyConverted, Constants DEF SwitchSupplyMode, SupplyPosition
<1>3. /\ pos.with_interest # bears
      /\ supplyPos' = [supplyPos EXCEPT ![p] = new] /\ UNCHANGED borrowPos
      /\ reserve' = Refreshed(moved, rate_model)
      /\ PricesFit(prices)
  BY DEF SwitchSupplyMode, ModeChanges
<1> HIDE DEF converted
<1>4. new.amount = converted.amount /\ new.with_interest = bears
  BY <1>2 DEF WithSupplyConfig, SupplyPosition
<1>5. bears \in BOOLEAN
  OBVIOUS
<1> HIDE DEF new, bears
<1>6. accrued \in LooseReserve
  BY <1>3, Unpacked, AccruedTyped, Loosened
<1>7. left \in LooseReserve
  BY <1>1, <1>6, ShiftTyped
<1>8. moved \in LooseReserve
  BY <1>2, <1>7, ShiftTyped
<1>9. ASSUME NEW mode \in BOOLEAN
      PROVE  /\ SupplyTotal(reserve', mode) =
                  IF mode = bears
                  THEN Shifted(SupplyTotal(reserve, mode), converted.amount)
                  ELSE Shifted(SupplyTotal(reserve, mode), -pos.amount)
             /\ BorrowTotal(reserve', mode) = BorrowTotal(reserve, mode)
  <2>1. /\ SupplyTotal(accrued, mode) = SupplyTotal(reserve, mode)
        /\ BorrowTotal(accrued, mode) = BorrowTotal(reserve, mode)
    BY Unpacked, RestatedTotals DEF Accrued
  <2> HIDE DEF accrued
  <2>2. /\ SupplyTotal(left, mode) =
             IF mode = pos.with_interest THEN Shifted(SupplyTotal(accrued, mode), -pos.amount)
             ELSE SupplyTotal(accrued, mode)
        /\ BorrowTotal(left, mode) = BorrowTotal(accrued, mode)
    BY <1>1, <1>6, ShiftedTotals
  <2> HIDE DEF left
  <2>3. /\ SupplyTotal(moved, mode) =
             IF mode = bears THEN Shifted(SupplyTotal(left, mode), converted.amount)
             ELSE SupplyTotal(left, mode)
        /\ BorrowTotal(moved, mode) = BorrowTotal(left, mode)
    BY <1>2, <1>7, <1>5, ShiftedTotals
  <2> HIDE DEF moved
  <2>4. /\ SupplyTotal(reserve', mode) = SupplyTotal(moved, mode)
        /\ BorrowTotal(reserve', mode) = BorrowTotal(moved, mode)
    BY <1>3, <1>8, RestatedTotals DEF Refreshed
  <2>5. mode = pos.with_interest <=> mode # bears
    BY <1>1, <1>3, <1>5
  <2> QED BY <2>1, <2>2, <2>3, <2>4, <2>5
<1> HIDE DEF moved, left, accrued
<1>10. ASSUME NEW mode \in BOOLEAN
      PROVE  /\ Share(new, mode) \in Nat
             /\ SupplyTotal(reserve', mode) =
                  SupplyTotal(reserve, mode) - Share(pos, mode) + Share(new, mode)
  <2>1. Share(pos, mode) <= SupplyTotal(reserve, mode) /\ SupplyTotal(reserve, mode) \in Nat
    BY ShareInTotal
  <2>2. CASE mode = bears
    <3>1. Share(pos, mode) = 0 /\ Share(new, mode) = converted.amount
      BY <1>1, <1>3, <1>4, <1>5, <2>2 DEF Share
    <3>2. Shifted(SupplyTotal(reserve, mode), converted.amount)
            = SupplyTotal(reserve, mode) + converted.amount
      BY <1>2, <2>1, ShiftExact
    <3> QED BY <1>2, <1>9, <2>1, <2>2, <3>1, <3>2
  <2>3. CASE mode # bears
    <3>1. Share(pos, mode) = pos.amount /\ Share(new, mode) = 0
      BY <1>1, <1>3, <1>4, <1>5, <2>3 DEF Share
    <3>2. Shifted(SupplyTotal(reserve, mode), -pos.amount) = SupplyTotal(reserve, mode) + (-pos.amount)
      BY <1>1, <2>1, <3>1, ShiftExact
    <3> QED BY <1>1, <1>9, <2>1, <2>3, <3>1, <3>2
  <2> QED BY <2>2, <2>3
<1>11. SuppliesMatch'
  BY <1>3, <1>10, SupplyBooked
<1>12. BorrowsMatch'
  BY <1>3, <1>9, BorrowUnchanged
<1> QED BY <1>11, <1>12

LEMMA BorrowSwitchBooks ==
  ASSUME TypeInv, SuppliesMatch, BorrowsMatch, NEW signer \in Accounts, NEW p \in Protocols,
         NEW c \in UserBorrowConfigs, SwitchBorrowMode(signer, p, c)
  PROVE  SuppliesMatch' /\ BorrowsMatch'
<1> DEFINE prices == CalculateExchangePrices(reserve, now)
           pos == borrowPos[p]
           converted == ConvertedBorrow(pos, c.mode, prices.borrow)
           accrued == Accrued(reserve)
           left == ShiftBorrow(accrued, pos.with_interest, -pos.amount)
           bears == c.mode = 1
           moved == ShiftBorrow(left, bears, converted.amount)
           new == WithBorrowConfig(converted, c)
<1>1. /\ pos \in BorrowPosition /\ prices.borrow \in Nat \ {0}
      /\ pos.with_interest \in BOOLEAN /\ pos.amount \in Nat
  BY Unpacked, Constants DEF BorrowPosition
<1>2. converted \in BorrowPosition /\ converted.amount \in Nat
  BY <1>1, BorrowConverted, Constants DEF SwitchBorrowMode, BorrowPosition
<1>3. /\ pos.with_interest # bears
      /\ borrowPos' = [borrowPos EXCEPT ![p] = new] /\ UNCHANGED supplyPos
      /\ reserve' = Refreshed(moved, rate_model)
      /\ PricesFit(prices)
  BY DEF SwitchBorrowMode, ModeChanges
<1> HIDE DEF converted
<1>4. new.amount = converted.amount /\ new.with_interest = bears
  BY <1>2 DEF WithBorrowConfig, BorrowPosition
<1>5. bears \in BOOLEAN
  OBVIOUS
<1> HIDE DEF new, bears
<1>6. accrued \in LooseReserve
  BY <1>3, Unpacked, AccruedTyped, Loosened
<1>7. left \in LooseReserve
  BY <1>1, <1>6, ShiftTyped
<1>8. moved \in LooseReserve
  BY <1>2, <1>7, ShiftTyped
<1>9. ASSUME NEW mode \in BOOLEAN
      PROVE  /\ BorrowTotal(reserve', mode) =
                  IF mode = bears
                  THEN Shifted(BorrowTotal(reserve, mode), converted.amount)
                  ELSE Shifted(BorrowTotal(reserve, mode), -pos.amount)
             /\ SupplyTotal(reserve', mode) = SupplyTotal(reserve, mode)
  <2>1. /\ BorrowTotal(accrued, mode) = BorrowTotal(reserve, mode)
        /\ SupplyTotal(accrued, mode) = SupplyTotal(reserve, mode)
    BY Unpacked, RestatedTotals DEF Accrued
  <2> HIDE DEF accrued
  <2>2. /\ BorrowTotal(left, mode) =
             IF mode = pos.with_interest THEN Shifted(BorrowTotal(accrued, mode), -pos.amount)
             ELSE BorrowTotal(accrued, mode)
        /\ SupplyTotal(left, mode) = SupplyTotal(accrued, mode)
    BY <1>1, <1>6, ShiftedTotals
  <2> HIDE DEF left
  <2>3. /\ BorrowTotal(moved, mode) =
             IF mode = bears THEN Shifted(BorrowTotal(left, mode), converted.amount)
             ELSE BorrowTotal(left, mode)
        /\ SupplyTotal(moved, mode) = SupplyTotal(left, mode)
    BY <1>2, <1>7, <1>5, ShiftedTotals
  <2> HIDE DEF moved
  <2>4. /\ BorrowTotal(reserve', mode) = BorrowTotal(moved, mode)
        /\ SupplyTotal(reserve', mode) = SupplyTotal(moved, mode)
    BY <1>3, <1>8, RestatedTotals DEF Refreshed
  <2>5. mode = pos.with_interest <=> mode # bears
    BY <1>1, <1>3, <1>5
  <2> QED BY <2>1, <2>2, <2>3, <2>4, <2>5
<1> HIDE DEF moved, left, accrued
<1>10. ASSUME NEW mode \in BOOLEAN
      PROVE  /\ Share(new, mode) \in Nat
             /\ BorrowTotal(reserve', mode) =
                  BorrowTotal(reserve, mode) - Share(pos, mode) + Share(new, mode)
  <2>1. Share(pos, mode) <= BorrowTotal(reserve, mode) /\ BorrowTotal(reserve, mode) \in Nat
    BY ShareInTotal
  <2>2. CASE mode = bears
    <3>1. Share(pos, mode) = 0 /\ Share(new, mode) = converted.amount
      BY <1>1, <1>3, <1>4, <1>5, <2>2 DEF Share
    <3>2. Shifted(BorrowTotal(reserve, mode), converted.amount)
            = BorrowTotal(reserve, mode) + converted.amount
      BY <1>2, <2>1, ShiftExact
    <3> QED BY <1>2, <1>9, <2>1, <2>2, <3>1, <3>2
  <2>3. CASE mode # bears
    <3>1. Share(pos, mode) = pos.amount /\ Share(new, mode) = 0
      BY <1>1, <1>3, <1>4, <1>5, <2>3 DEF Share
    <3>2. Shifted(BorrowTotal(reserve, mode), -pos.amount) = BorrowTotal(reserve, mode) + (-pos.amount)
      BY <1>1, <2>1, <3>1, ShiftExact
    <3> QED BY <1>1, <1>9, <2>1, <2>3, <3>1, <3>2
  <2> QED BY <2>2, <2>3
<1>11. BorrowsMatch'
  BY <1>3, <1>10, BorrowBooked
<1>12. SuppliesMatch'
  BY <1>3, <1>9, SupplyUnchanged
<1> QED BY <1>11, <1>12

-----------------------------------------------------------------------------
(* A position holds nothing before its first configuration, so choosing    *)
(* its mode then moves nothing between the totals.                         *)

Empty(pos) == pos.status \in {"Absent", "NotSet"} => pos.amount = 0
UnconfiguredEmpty ==
  \A p \in Protocols : Empty(supplyPos[p]) /\ Empty(borrowPos[p])

LEMMA SupplyStaysEmpty ==
  ASSUME NEW t \in Nat, NEW pos \in SupplyPosition, Empty(pos), NEW new, SupplyChange(pos, new, t)
  PROVE  Empty(new)
<1>1. CASE SupplyOperation(pos, new, t)
  BY <1>1 DEF SupplyOperation, SupplyOrWithdrawAllowed, SupplyOrWithdraw, SupplyPosition, Empty
<1>2. CASE SupplyCreation(pos, new, t)
  BY <1>2 DEF SupplyCreation, NewSupplyPosition, Empty
<1>3. CASE SupplyConfiguration(pos, new)
  BY <1>3 DEF SupplyConfiguration, WithSupplyConfig, Activated, SupplyPosition, Empty
<1>4. CASE SupplySwitch(pos, new)
  <2>1. new.status = pos.status /\ pos.status \notin {"Absent", "NotSet"}
    BY <1>4 DEF SupplySwitch, WithSupplyConfig, ConvertedSupply, ModeChanges, Activated, SupplyPosition
  <2> QED BY <2>1 DEF Empty
<1>5. CASE SupplyLimitSet(pos, new, t)
  BY <1>5 DEF SupplyLimitSet, SupplyPosition, Empty
<1>6. CASE StatusSet(pos, new)
  BY <1>6 DEF StatusSet, SupplyPosition, Empty
<1> QED BY <1>1, <1>2, <1>3, <1>4, <1>5, <1>6 DEF SupplyChange

LEMMA BorrowStaysEmpty ==
  ASSUME NEW t \in Nat, NEW pos \in BorrowPosition, Empty(pos), NEW new, BorrowChange(pos, new, t)
  PROVE  Empty(new)
<1>1. CASE BorrowOperation(pos, new, t)
  BY <1>1 DEF BorrowOperation, BorrowOrPaybackAllowed, BorrowOrPayback, BorrowPosition, Empty
<1>2. CASE BorrowCreation(pos, new, t)
  BY <1>2 DEF BorrowCreation, NewBorrowPosition, Empty
<1>3. CASE BorrowConfiguration(pos, new)
  BY <1>3 DEF BorrowConfiguration, WithBorrowConfig, Activated, BorrowPosition, Empty
<1>4. CASE BorrowSwitch(pos, new)
  <2>1. new.status = pos.status /\ pos.status \notin {"Absent", "NotSet"}
    BY <1>4 DEF BorrowSwitch, WithBorrowConfig, ConvertedBorrow, ModeChanges, Activated, BorrowPosition
  <2> QED BY <2>1 DEF Empty
<1>5. CASE StatusSet(pos, new)
  BY <1>5 DEF StatusSet, BorrowPosition, Empty
<1> QED BY <1>1, <1>2, <1>3, <1>4, <1>5 DEF BorrowChange

(* Every other instruction about positions keeps reserve and shares.       *)
LEMMA PositionAdminBooks ==
  ASSUME TypeInv, UnconfiguredEmpty, SuppliesMatch, BorrowsMatch,
         NEW signer \in Accounts, NEW p \in Protocols,
         \/ \E sides \in NonEmptySides : InitNewProtocol(signer, p, sides)
         \/ \E limit \in WithdrawalLimits : UpdateUserWithdrawalLimit(signer, p, limit)
         \/ \E c \in UserSupplyConfigs : UpdateUserSupplyConfig(signer, p, c)
         \/ \E c \in UserBorrowConfigs : UpdateUserBorrowConfig(signer, p, c)
         \/ \E sides \in NonEmptySides :
              PauseUser(signer, p, sides) \/ UnpauseUser(signer, p, sides)
  PROVE  SuppliesMatch' /\ BorrowsMatch'
<1>1. reserve' = reserve
  BY DEF InitNewProtocol, UpdateUserWithdrawalLimit, UpdateUserSupplyConfig,
         UpdateUserBorrowConfig, PauseUser, UnpauseUser
<1>2. /\ supplyPos \in [Protocols -> SupplyPosition] /\ borrowPos \in [Protocols -> BorrowPosition]
      /\ supplyPos[p] \in SupplyPosition /\ borrowPos[p] \in BorrowPosition
  BY Unpacked
<1> DEFINE Kept(old, new) == \A mode \in BOOLEAN : Share(new, mode) = Share(old, mode)
<1>3. PICK s, b :
        /\ supplyPos' = [supplyPos EXCEPT ![p] = s] /\ Kept(supplyPos[p], s)
        /\ borrowPos' = [borrowPos EXCEPT ![p] = b] /\ Kept(borrowPos[p], b)
  <2>0. /\ supplyPos = [supplyPos EXCEPT ![p] = supplyPos[p]] /\ Kept(supplyPos[p], supplyPos[p])
        /\ borrowPos = [borrowPos EXCEPT ![p] = borrowPos[p]] /\ Kept(borrowPos[p], borrowPos[p])
    BY <1>2
  <2>1. ASSUME NEW sides \in NonEmptySides, InitNewProtocol(signer, p, sides)
        PROVE  \E s, b : /\ supplyPos' = [supplyPos EXCEPT ![p] = s] /\ Kept(supplyPos[p], s)
                         /\ borrowPos' = [borrowPos EXCEPT ![p] = b] /\ Kept(borrowPos[p], b)
    <3> DEFINE s == NewSupplyPosition("NotSet", now)
               b == NewBorrowPosition("NotSet", now)
    <3>1. /\ supplyPos[p].status = "Absent" => Kept(supplyPos[p], s)
          /\ borrowPos[p].status = "Absent" => Kept(borrowPos[p], b)
      BY DEF UnconfiguredEmpty, Empty, Share, NewSupplyPosition, NewBorrowPosition
    <3>2. /\ \/ supplyPos' = supplyPos
             \/ supplyPos' = [supplyPos EXCEPT ![p] = s] /\ supplyPos[p].status = "Absent"
          /\ \/ borrowPos' = borrowPos
             \/ borrowPos' = [borrowPos EXCEPT ![p] = b] /\ borrowPos[p].status = "Absent"
      BY <2>1 DEF InitNewProtocol
    <3> HIDE DEF s, b, Kept
    <3> QED BY <2>0, <3>1, <3>2
  <2>2. ASSUME NEW limit \in WithdrawalLimits, UpdateUserWithdrawalLimit(signer, p, limit)
        PROVE  \E s, b : /\ supplyPos' = [supplyPos EXCEPT ![p] = s] /\ Kept(supplyPos[p], s)
                         /\ borrowPos' = [borrowPos EXCEPT ![p] = b] /\ Kept(borrowPos[p], b)
    <3> DEFINE s == [supplyPos[p] EXCEPT
                       !.withdrawal_limit = AdjustedWithdrawalLimit(supplyPos[p], limit),
                       !.last_update = now]
    <3>1. supplyPos' = [supplyPos EXCEPT ![p] = s] /\ borrowPos' = borrowPos
      BY <1>2, <2>2 DEF UpdateUserWithdrawalLimit
    <3>2. Kept(supplyPos[p], s)
      BY <1>2 DEF Share, SupplyPosition
    <3> HIDE DEF s, Kept
    <3> QED BY <2>0, <3>1, <3>2
  <2>3. ASSUME NEW c \in UserSupplyConfigs, UpdateUserSupplyConfig(signer, p, c)
        PROVE  \E s, b : /\ supplyPos' = [supplyPos EXCEPT ![p] = s] /\ Kept(supplyPos[p], s)
                         /\ borrowPos' = [borrowPos EXCEPT ![p] = b] /\ Kept(borrowPos[p], b)
    <3> DEFINE s == WithSupplyConfig(supplyPos[p], c)
    <3>1. supplyPos' = [supplyPos EXCEPT ![p] = s] /\ borrowPos' = borrowPos
      BY <2>3 DEF UpdateUserSupplyConfig
    <3>2. Empty(supplyPos[p]) /\ ~ModeChanges(supplyPos[p], c)
      BY <2>3 DEF UpdateUserSupplyConfig, UnconfiguredEmpty
    <3>3. s.amount = supplyPos[p].amount /\ s.with_interest = (c.mode = 1)
      BY <1>2 DEF WithSupplyConfig, SupplyPosition
    <3>4. supplyPos[p].amount = 0 \/ supplyPos[p].with_interest = s.with_interest
      BY <3>2, <3>3 DEF ModeChanges, Empty
    <3> HIDE DEF s
    <3>5. Kept(supplyPos[p], s)
      BY <3>3, <3>4 DEF Share
    <3> HIDE DEF Kept
    <3> QED BY <2>0, <3>1, <3>5
  <2>4. ASSUME NEW c \in UserBorrowConfigs, UpdateUserBorrowConfig(signer, p, c)
        PROVE  \E s, b : /\ supplyPos' = [supplyPos EXCEPT ![p] = s] /\ Kept(supplyPos[p], s)
                         /\ borrowPos' = [borrowPos EXCEPT ![p] = b] /\ Kept(borrowPos[p], b)
    <3> DEFINE b == WithBorrowConfig(borrowPos[p], c)
    <3>1. borrowPos' = [borrowPos EXCEPT ![p] = b] /\ supplyPos' = supplyPos
      BY <2>4 DEF UpdateUserBorrowConfig
    <3>2. Empty(borrowPos[p]) /\ ~ModeChanges(borrowPos[p], c)
      BY <2>4 DEF UpdateUserBorrowConfig, UnconfiguredEmpty
    <3>3. b.amount = borrowPos[p].amount /\ b.with_interest = (c.mode = 1)
      BY <1>2 DEF WithBorrowConfig, BorrowPosition
    <3>4. borrowPos[p].amount = 0 \/ borrowPos[p].with_interest = b.with_interest
      BY <3>2, <3>3 DEF ModeChanges, Empty
    <3> HIDE DEF b
    <3>5. Kept(borrowPos[p], b)
      BY <3>3, <3>4 DEF Share
    <3> HIDE DEF Kept
    <3> QED BY <2>0, <3>1, <3>5
  <2>5. ASSUME NEW sides \in NonEmptySides, PauseUser(signer, p, sides) \/ UnpauseUser(signer, p, sides)
        PROVE  \E s, b : /\ supplyPos' = [supplyPos EXCEPT ![p] = s] /\ Kept(supplyPos[p], s)
                         /\ borrowPos' = [borrowPos EXCEPT ![p] = b] /\ Kept(borrowPos[p], b)
    <3>1. PICK status :
            /\ supplyPos' = supplyPos \/ supplyPos' = [supplyPos EXCEPT ![p].status = status]
            /\ borrowPos' = borrowPos \/ borrowPos' = [borrowPos EXCEPT ![p].status = status]
      BY <2>5 DEF PauseUser, UnpauseUser
    <3> DEFINE s == [supplyPos[p] EXCEPT !.status = status]
               b == [borrowPos[p] EXCEPT !.status = status]
    <3>2. Kept(supplyPos[p], s) /\ Kept(borrowPos[p], b)
      BY <1>2 DEF Share, SupplyPosition, BorrowPosition
    <3>3. /\ supplyPos' = supplyPos \/ supplyPos' = [supplyPos EXCEPT ![p] = s]
          /\ borrowPos' = borrowPos \/ borrowPos' = [borrowPos EXCEPT ![p] = b]
      BY <1>2, <3>1
    <3> HIDE DEF s, b, Kept
    <3> QED BY <2>0, <3>2, <3>3
  <2> HIDE DEF Kept
  <2> QED BY <2>1, <2>2, <2>3, <2>4, <2>5
<1>4. \A q \in Protocols, mode \in BOOLEAN :
        /\ Share(supplyPos'[q], mode) = Share(supplyPos[q], mode)
        /\ Share(borrowPos'[q], mode) = Share(borrowPos[q], mode)
  BY <1>2, <1>3
<1> QED BY <1>1, <1>4, SupplyUnchanged, BorrowUnchanged

-----------------------------------------------------------------------------
(* Instructions that leave the positions alone leave the totals alone, and *)
(* all but claim the claim total.                                          *)

SameTotals(r, old) ==
  /\ \A mode \in BOOLEAN : /\ SupplyTotal(r, mode) = SupplyTotal(old, mode)
                           /\ BorrowTotal(r, mode) = BorrowTotal(old, mode)
  /\ r.total_claim_amount = old.total_claim_amount

LEMMA RefreshKeepsTotals ==
  ASSUME NEW r \in LooseReserve, NEW prices, NEW m
  PROVE  SameTotals(Restated(r, prices, m), r) /\ SameTotals(WithPrices(r, prices), r)
<1>1. WithPrices(r, prices).total_claim_amount = r.total_claim_amount
  BY DEF WithPrices, LooseReserve
<1> QED BY <1>1, RestatedTotals, ClaimsUntouched DEF SameTotals

LEMMA ReserveStepsKeepTotals ==
  ASSUME TypeInv,
         \/ UpdateExchangePrice
         \/ \E signer \in Accounts, d \in RateDataV1 : UpdateRateDataV1(signer, d)
         \/ \E signer \in Accounts, d \in RateDataV2 : UpdateRateDataV2(signer, d)
         \/ \E signer \in Accounts, c \in TokenConfigs : UpdateTokenConfig(signer, c)
  PROVE  SameTotals(reserve', reserve)
<1>1. CASE UpdateExchangePrice
  BY <1>1, Unpacked, RefreshKeepsTotals DEF UpdateExchangePrice, Refreshed
<1>2. ASSUME NEW signer, NEW curve, InstallCurve(signer, curve)
      PROVE  SameTotals(reserve', reserve)
  <2> DEFINE accrued == Accrued(reserve)
  <2>1. accrued \in LooseReserve
    BY <1>2, Unpacked, AccruedTyped, Loosened DEF InstallCurve
  <2>2. SameTotals(accrued, reserve)
    BY Unpacked, RefreshKeepsTotals DEF Accrued
  <2>3. reserve' = Refreshed(accrued, curve)
    BY <1>2 DEF InstallCurve
  <2> HIDE DEF accrued
  <2>4. SameTotals(reserve', accrued)
    BY <2>1, <2>3, RefreshKeepsTotals DEF Refreshed
  <2> QED BY <2>2, <2>4 DEF SameTotals
<1>3. ASSUME NEW signer \in Accounts, NEW c \in TokenConfigs, UpdateTokenConfig(signer, c)
      PROVE  SameTotals(reserve', reserve)
  <2> DEFINE accrued == Accrued(reserve)
             configured == WithTokenConfig(reserve, c)
  <2>1. accrued \in LooseReserve
    BY <1>3, Unpacked, AccruedTyped, Loosened DEF UpdateTokenConfig
  <2>2. SameTotals(accrued, reserve)
    BY Unpacked, RefreshKeepsTotals DEF Accrued
  <2>3. c.fee \in 0..FOUR_DECIMALS /\ c.max_utilization \in 0..FOUR_DECIMALS
    BY <1>3, Constants, LiquidityAssumption DEF UpdateTokenConfig, LiquidityAssumption
  <2>4. configured = [accrued EXCEPT !.fee_on_interest = c.fee, !.max_utilization = c.max_utilization]
    BY DEF WithTokenConfig
  <2>5. reserve' = Refreshed(configured, rate_model)
    BY <1>3 DEF UpdateTokenConfig
  <2> HIDE DEF accrued, configured
  <2>6. configured \in LooseReserve /\ SameTotals(configured, accrued)
    BY <2>1, <2>3, <2>4 DEF LooseReserve, SameTotals, SupplyTotal, BorrowTotal
  <2>7. SameTotals(reserve', configured)
    BY <2>5, <2>6, RefreshKeepsTotals DEF Refreshed
  <2> QED BY <2>2, <2>6, <2>7 DEF SameTotals
<1> QED BY <1>1, <1>2, <1>3 DEF UpdateRateDataV1, UpdateRateDataV2

LEMMA ClaimKeepsTotals ==
  ASSUME TypeInv, NEW user \in Recipients, Claim(user), NEW mode \in BOOLEAN
  PROVE  /\ SupplyTotal(reserve', mode) = SupplyTotal(reserve, mode)
         /\ BorrowTotal(reserve', mode) = BorrowTotal(reserve, mode)
BY Unpacked DEF Claim, SupplyTotal, BorrowTotal, LooseReserve

BooksInv == LimitInv /\ UnconfiguredEmpty /\ SuppliesMatch /\ BorrowsMatch

LEMMA BooksInit == Init => BooksInv
<1> SUFFICES ASSUME Init PROVE BooksInv
  OBVIOUS
<1>1. \A p \in Protocols : supplyPos[p].amount = 0 /\ borrowPos[p].amount = 0
  BY DEF Init, NewSupplyPosition, NewBorrowPosition
<1>2. UnconfiguredEmpty
  BY <1>1 DEF UnconfiguredEmpty, Empty
<1>3. \A mode \in BOOLEAN : SuppliedIn(mode) \in [Protocols -> {0}] /\ BorrowedIn(mode) \in [Protocols -> {0}]
  BY <1>1 DEF SuppliedIn, BorrowedIn
<1>4. \A mode \in BOOLEAN : SupplyTotal(reserve, mode) = 0 /\ BorrowTotal(reserve, mode) = 0
  BY DEF Init, NewReserve, SupplyTotal, BorrowTotal
<1>5. SuppliesMatch /\ BorrowsMatch
  BY <1>3, <1>4, SumOfZeros DEF SuppliesMatch, BorrowsMatch
<1> QED BY <1>2, <1>5, LimitInit DEF BooksInv

LEMMA BooksStep == BooksInv /\ [LayerNext]_vars => BooksInv'
<1> SUFFICES ASSUME BooksInv, [LayerNext]_vars PROVE BooksInv'
  OBVIOUS
<1>1. TypeInv /\ LimitInv'
  BY LimitStep DEF BooksInv, LimitInv
<1>2. UnconfiguredEmpty'
  BY <1>1, Unpacked, PositionsChange, SupplyStaysEmpty, BorrowStaysEmpty DEF BooksInv, UnconfiguredEmpty
<1>3. ASSUME UNCHANGED <<supplyPos, borrowPos>>,
             \A mode \in BOOLEAN : /\ SupplyTotal(reserve', mode) = SupplyTotal(reserve, mode)
                                   /\ BorrowTotal(reserve', mode) = BorrowTotal(reserve, mode)
      PROVE  SuppliesMatch' /\ BorrowsMatch'
  BY <1>3, SupplyUnchanged, BorrowUnchanged DEF BooksInv
<1>4. ASSUME UNCHANGED <<reserve, supplyPos, borrowPos>>
      PROVE  SuppliesMatch' /\ BorrowsMatch'
  BY <1>3, <1>4
<1>5. ASSUME \/ UpdateExchangePrice
             \/ \E signer \in Accounts, d \in RateDataV1 : UpdateRateDataV1(signer, d)
             \/ \E signer \in Accounts, d \in RateDataV2 : UpdateRateDataV2(signer, d)
             \/ \E signer \in Accounts, c \in TokenConfigs : UpdateTokenConfig(signer, c)
      PROVE  SuppliesMatch' /\ BorrowsMatch'
  <2>1. UNCHANGED <<supplyPos, borrowPos>>
    BY <1>5 DEF UpdateExchangePrice, UpdateRateDataV1, UpdateRateDataV2, InstallCurve,
                UpdateTokenConfig, positionVars
  <2> QED BY <1>1, <1>3, <1>5, <2>1, ReserveStepsKeepTotals DEF SameTotals
<1>6. ASSUME NEW user \in Recipients, Claim(user) PROVE SuppliesMatch' /\ BorrowsMatch'
  BY <1>1, <1>3, <1>6, ClaimKeepsTotals DEF Claim, positionVars
<1>7. ASSUME NEW p \in Protocols, NEW s \in Int, NEW b \in Int,
             NEW wto \in Recipients, NEW bto \in Recipients, NEW type,
             Operate(p, s, b, wto, bto, type)
      PROVE  SuppliesMatch' /\ BorrowsMatch'
  BY <1>1, <1>7, OperateBooks DEF BooksInv
<1>8. ASSUME NEW signer \in Accounts, PositionAdminNext(signer)
      PROVE  SuppliesMatch' /\ BorrowsMatch'
  BY <1>1, <1>8, PositionAdminBooks, SupplySwitchBooks, BorrowSwitchBooks
     DEF BooksInv, PositionAdminNext
<1>9. ASSUME \/ UNCHANGED vars
             \/ AccessNext /\ UNCHANGED moneyVars
             \/ \E p \in Protocols : PreOperate(p)
             \/ \E amount \in Nat : TransferIn(amount)
             \/ \E user \in Recipients : InitClaimAccount(user) \/ CloseClaimAccount(user)
             \/ Tick
             \/ \E signer \in Accounts : CollectRevenue(signer)
      PROVE  SuppliesMatch' /\ BorrowsMatch'
  <2>1. UNCHANGED <<reserve, supplyPos, borrowPos>>
    BY <1>9 DEF vars, moneyVars, positionVars, PreOperate, TransferIn, InitClaimAccount,
                CloseClaimAccount, Tick, CollectRevenue
  <2> QED BY <1>4, <2>1
<1>10. SuppliesMatch' /\ BorrowsMatch'
  BY <1>5, <1>6, <1>7, <1>8, <1>9 DEF LayerNext, ReserveAdminNext
<1> QED BY <1>1, <1>2, <1>10 DEF BooksInv

(* After any deposits, withdrawals, borrows, paybacks, pauses and mode     *)
(* switches the four totals of the reserve are exactly the sums of the     *)
(* positions: no saturating subtraction of ShiftSupply or ShiftBorrow ever *)
(* hides a shortfall (token_reserve.rs set_user_*_total).                  *)
THEOREM TotalsHold == Spec => []TotalsMatchPositions
<1>1. BooksInv => TotalsMatchPositions
  BY TotalsBySide DEF BooksInv, SuppliesMatch, BorrowsMatch
<1> QED BY <1>1, BooksInit, BooksStep, LayerSpec, PTL

-----------------------------------------------------------------------------
(* Claims.  An account that does not exist holds nothing, so that creating *)
(* it, which writes a zero, takes nothing from the claim total.            *)

ClosedEmpty == \A u \in Recipients \ claimOpen : claimAmount[u] = 0
ClaimsInv == TypeInv /\ ClosedEmpty /\ ClaimsMatchAccounts

LEMMA ClaimAdded ==
  ASSUME NEW f \in [Recipients -> Nat], NEW u \in Recipients, NEW v \in Nat
  PROVE  /\ SumOf(f) \in Nat /\ f[u] <= SumOf(f)
         /\ SumOf([f EXCEPT ![u] = v]) = SumOf(f) - f[u] + v
<1>1. IsFiniteSet(Recipients)
  BY LiquidityAssumption DEF LiquidityAssumption
<1> QED BY <1>1, SumUpdated

(* What a payout into claim accounts reserves for them.                    *)
LEMMA OperateReserves ==
  ASSUME TypeInv,
         NEW p \in Protocols, NEW supply \in Int, NEW borrow \in Int,
         NEW wto \in Recipients, NEW bto \in Recipients, NEW type,
         Operate(p, supply, borrow, wto, bto, type)
  PROVE  reserve'.total_claim_amount = reserve.total_claim_amount
           + IF type = "CLAIM" THEN Positive(-supply) + Positive(borrow) ELSE 0
<1> DEFINE prices == CalculateExchangePrices(reserve, now)
           sdelta == SupplyDelta(supplyPos[p], supply, prices.supply)
           bdelta == BorrowDelta(borrowPos[p], borrow, prices.borrow)
           supplied == ShiftSupply(reserve, supplyPos[p].with_interest, sdelta)
           moved == ShiftBorrow(supplied, borrowPos[p].with_interest, bdelta)
           final == Restated(moved, prices, rate_model)
           paid == IF type = "CLAIM" THEN Positive(-supply) + Positive(borrow) ELSE 0
<1>1. supply \in Int /\ borrow \in Int /\ reserve \in LooseReserve
  BY Unpacked
<1>2. sdelta \in Int /\ bdelta \in Int
  BY <1>1, Unpacked, SupplyDeltaInteger, BorrowDeltaInteger
<1>3. reserve' = [final EXCEPT !.total_claim_amount = final.total_claim_amount + paid]
  BY DEF Operate
<1> HIDE DEF paid, sdelta, bdelta
<1>4. supplied \in LooseReserve /\ supplied.total_claim_amount = reserve.total_claim_amount
  BY <1>1, <1>2, ShiftTyped, ClaimsUntouched
<1> HIDE DEF supplied
<1>5. moved \in LooseReserve /\ moved.total_claim_amount = reserve.total_claim_amount
  BY <1>2, <1>4, ShiftTyped, ClaimsUntouched
<1> HIDE DEF moved
<1>6. final.total_claim_amount = reserve.total_claim_amount
  BY <1>5, ClaimsUntouched
<1>7. "total_claim_amount" \in DOMAIN final
  BY <1>5 DEF final, Restated, WithPrices, LooseReserve
<1> HIDE DEF final
<1>8. reserve'.total_claim_amount = reserve.total_claim_amount + paid
  BY <1>3, <1>6, <1>7
<1> QED BY <1>8 DEF paid

LEMMA OperateClaims ==
  ASSUME ClaimsInv,
         NEW p \in Protocols, NEW supply \in Int, NEW borrow \in Int,
         NEW wto \in Recipients, NEW bto \in Recipients, NEW type,
         Operate(p, supply, borrow, wto, bto, type)
  PROVE  ClosedEmpty' /\ ClaimsMatchAccounts'
<1> DEFINE withdrawn == Positive(-supply)
           borrowed == Positive(borrow)
           once == [claimAmount EXCEPT ![wto] = claimAmount[wto] + withdrawn]
           twice == [once EXCEPT ![bto] = once[bto] + borrowed]
<1>1. /\ TypeInv /\ supply \in Int /\ borrow \in Int
      /\ reserve \in LooseReserve /\ claimAmount \in [Recipients -> Nat]
  BY Unpacked DEF ClaimsInv
<1>2. /\ claimAmount' = IF ~(type = "CLAIM") THEN claimAmount
                        ELSE [u \in Recipients |->
                               claimAmount[u] + (IF u = wto THEN withdrawn ELSE 0)
                                              + (IF u = bto THEN borrowed ELSE 0)]
      /\ UNCHANGED claimOpen
      /\ PayoutAllowed(type, withdrawn, wto, borrowed, bto)
  BY DEF Operate
<1>3. withdrawn \in Nat /\ borrowed \in Nat
  BY <1>1 DEF Positive
<1>4. reserve'.total_claim_amount =
        reserve.total_claim_amount + IF type = "CLAIM" THEN withdrawn + borrowed ELSE 0
  BY <1>1, OperateReserves
<1> HIDE DEF withdrawn, borrowed
<1>5. reserve.total_claim_amount = SumOf(claimAmount)
  BY DEF ClaimsInv, ClaimsMatchAccounts
<1>6. CASE type = "CLAIM"
  <2>1. claimAmount' = twice
    <3>1. claimAmount' = [u \in Recipients |->
                            claimAmount[u] + (IF u = wto THEN withdrawn ELSE 0)
                                           + (IF u = bto THEN borrowed ELSE 0)]
      BY <1>2, <1>6
    <3>2. twice \in [Recipients -> Nat] /\ claimAmount' \in [Recipients -> Nat]
      BY <1>1, <1>3, <3>1
    <3>3. ASSUME NEW u \in Recipients PROVE claimAmount'[u] = twice[u]
      <4>1. claimAmount[u] \in Nat /\ claimAmount[wto] \in Nat
        BY <1>1
      <4>2. once[u] = claimAmount[u] + (IF u = wto THEN withdrawn ELSE 0)
        BY <1>1, <1>3, <4>1
      <4>3. twice[u] = once[u] + (IF u = bto THEN borrowed ELSE 0)
        <5>1. once \in [Recipients -> Nat]
          BY <1>1, <1>3
        <5> HIDE DEF once
        <5>2. once[u] \in Nat
          BY <5>1
        <5> QED BY <1>3, <5>1, <5>2
      <4> QED BY <3>1, <4>2, <4>3
    <3> HIDE DEF twice
    <3> QED BY <3>2, <3>3
  <2>2. once \in [Recipients -> Nat] /\ twice \in [Recipients -> Nat]
    BY <1>1, <1>3
  <2>3. /\ SumOf(claimAmount) \in Nat
        /\ SumOf(once) = SumOf(claimAmount) - claimAmount[wto] + (claimAmount[wto] + withdrawn)
    <3>1. claimAmount[wto] + withdrawn \in Nat
      BY <1>1, <1>3
    <3> QED BY <1>1, <3>1, ClaimAdded
  <2>4. claimAmount[wto] \in Nat /\ once[bto] \in Nat
    BY <1>1, <2>2
  <2> HIDE DEF once
  <2>5. SumOf(twice) = SumOf(once) - once[bto] + (once[bto] + borrowed) /\ SumOf(once) \in Nat
    BY <1>3, <2>2, <2>4, ClaimAdded
  <2> HIDE DEF twice
  <2>6. SumOf(twice) = SumOf(claimAmount) + (withdrawn + borrowed)
    BY <1>3, <2>3, <2>4, <2>5
  <2>7. ClaimsMatchAccounts'
    BY <1>4, <1>5, <1>6, <2>1, <2>6 DEF ClaimsMatchAccounts
  <2>8. ClosedEmpty'
    <3>1. /\ withdrawn > 0 => wto \in claimOpen
          /\ borrowed > 0 => bto \in claimOpen
      BY <1>2, <1>3, <1>6 DEF PayoutAllowed
    <3>2. ASSUME NEW u \in Recipients \ claimOpen PROVE claimAmount'[u] = 0
      BY <1>2, <1>3, <1>6, <3>1 DEF ClaimsInv, ClosedEmpty
    <3> QED BY <1>2, <3>2 DEF ClosedEmpty
  <2> QED BY <2>7, <2>8
<1>7. CASE type # "CLAIM"
  <2>1. claimAmount' = claimAmount /\ reserve'.total_claim_amount = reserve.total_claim_amount
    BY <1>1, <1>2, <1>4, <1>7, Constants DEF LooseReserve, Amount
  <2> QED BY <1>2, <1>5, <2>1 DEF ClaimsInv, ClosedEmpty, ClaimsMatchAccounts
<1> QED BY <1>6, <1>7

LEMMA ClaimantSteps ==
  ASSUME ClaimsInv, NEW user \in Recipients,
         InitClaimAccount(user) \/ CloseClaimAccount(user) \/ Claim(user)
  PROVE  ClosedEmpty' /\ ClaimsMatchAccounts'
<1>1. /\ claimAmount \in [Recipients -> Nat] /\ claimOpen \subseteq Recipients
      /\ reserve \in LooseReserve /\ reserve.total_claim_amount = SumOf(claimAmount)
      /\ ClosedEmpty
  BY Unpacked DEF ClaimsInv, ClaimsMatchAccounts
<1> DEFINE cleared == [claimAmount EXCEPT ![user] = 0]
<1>2. /\ SumOf(claimAmount) \in Nat /\ claimAmount[user] \in Nat
      /\ SumOf(cleared) = SumOf(claimAmount) - claimAmount[user]
  <2>1. SumOf(claimAmount) \in Nat /\ claimAmount[user] \in Nat
    BY <1>1, ClaimAdded
  <2>2. SumOf(cleared) = SumOf(claimAmount) - claimAmount[user] + 0
    BY <1>1, ClaimAdded
  <2> QED BY <2>1, <2>2
<1>3. CASE InitClaimAccount(user)
  <2>1. claimAmount[user] = 0
    BY <1>1, <1>3 DEF InitClaimAccount, ClosedEmpty
  <2>2. claimAmount' = cleared /\ claimOpen' = claimOpen \cup {user} /\ reserve' = reserve
    BY <1>3 DEF InitClaimAccount
  <2>3. SumOf(claimAmount') = reserve'.total_claim_amount
    BY <1>1, <1>2, <2>1, <2>2
  <2>4. ClosedEmpty'
    BY <1>1, <2>2 DEF ClosedEmpty
  <2> QED BY <2>3, <2>4 DEF ClaimsMatchAccounts
<1>4. CASE CloseClaimAccount(user)
  BY <1>1, <1>4 DEF CloseClaimAccount, ClosedEmpty, ClaimsMatchAccounts
<1>5. CASE Claim(user)
  <2>1. /\ claimAmount' = cleared /\ claimOpen' = claimOpen
        /\ reserve' = [reserve EXCEPT !.total_claim_amount =
                         reserve.total_claim_amount - claimAmount[user]]
    BY <1>5 DEF Claim
  <2>2. reserve'.total_claim_amount = reserve.total_claim_amount - claimAmount[user]
    BY <1>1, <2>1 DEF LooseReserve
  <2>3. SumOf(claimAmount') = reserve'.total_claim_amount
    BY <1>1, <1>2, <2>1, <2>2
  <2>4. ClosedEmpty'
    BY <1>1, <2>1 DEF ClosedEmpty
  <2> QED BY <2>3, <2>4 DEF ClaimsMatchAccounts
<1> QED BY <1>3, <1>4, <1>5

LEMMA SwitchKeepsClaims ==
  ASSUME TypeInv, NEW signer \in Accounts, NEW p \in Protocols,
         \/ \E c \in UserSupplyConfigs : SwitchSupplyMode(signer, p, c)
         \/ \E c \in UserBorrowConfigs : SwitchBorrowMode(signer, p, c)
  PROVE  reserve'.total_claim_amount = reserve.total_claim_amount
<1>1. ASSUME NEW mode \in BOOLEAN, NEW other \in BOOLEAN, NEW out \in Int, NEW in \in Int, NEW m,
             PricesFit(CalculateExchangePrices(reserve, now)),
             \/ reserve' = Refreshed(ShiftSupply(ShiftSupply(Accrued(reserve), mode, out), other, in), m)
             \/ reserve' = Refreshed(ShiftBorrow(ShiftBorrow(Accrued(reserve), mode, out), other, in), m)
      PROVE  reserve'.total_claim_amount = reserve.total_claim_amount
  <2>1. Accrued(reserve) \in LooseReserve
    BY <1>1, Unpacked, AccruedTyped, Loosened
  <2>2. Accrued(reserve).total_claim_amount = reserve.total_claim_amount
    BY Unpacked, RefreshKeepsTotals DEF Accrued, SameTotals
  <2>3. ASSUME NEW r \in LooseReserve, reserve' = Refreshed(r, m)
        PROVE  reserve'.total_claim_amount = r.total_claim_amount
    BY <2>3, ClaimsUntouched DEF Refreshed
  <2> DEFINE sleft == ShiftSupply(Accrued(reserve), mode, out)
             bleft == ShiftBorrow(Accrued(reserve), mode, out)
  <2>4. /\ sleft \in LooseReserve /\ sleft.total_claim_amount = reserve.total_claim_amount
        /\ bleft \in LooseReserve /\ bleft.total_claim_amount = reserve.total_claim_amount
    BY <2>1, <2>2, ShiftTyped, ClaimsUntouched
  <2>5. reserve' = Refreshed(ShiftSupply(sleft, other, in), m)
          \/ reserve' = Refreshed(ShiftBorrow(bleft, other, in), m)
    BY <1>1
  <2> HIDE DEF sleft, bleft
  <2>6. /\ ShiftSupply(sleft, other, in) \in LooseReserve
        /\ ShiftSupply(sleft, other, in).total_claim_amount = reserve.total_claim_amount
        /\ ShiftBorrow(bleft, other, in) \in LooseReserve
        /\ ShiftBorrow(bleft, other, in).total_claim_amount = reserve.total_claim_amount
    BY <2>4, ShiftTyped, ClaimsUntouched
  <2> QED BY <2>3, <2>5, <2>6
<1>2. ASSUME NEW c \in UserSupplyConfigs, SwitchSupplyMode(signer, p, c)
      PROVE  reserve'.total_claim_amount = reserve.total_claim_amount
  <2> DEFINE price == CalculateExchangePrices(reserve, now).supply
             in == ConvertedSupply(supplyPos[p], c.mode, price).amount
             bears == c.mode = 1
  <2>1. /\ supplyPos[p].with_interest \in BOOLEAN /\ -supplyPos[p].amount \in Int
        /\ supplyPos[p] \in SupplyPosition /\ price \in Nat \ {0}
    BY Unpacked, Constants DEF SupplyPosition
  <2>2. in \in Int
    <3>1. ConvertedSupply(supplyPos[p], c.mode, price) \in SupplyPosition
      BY <1>2, <2>1, SupplyConverted DEF SwitchSupplyMode
    <3> QED BY <3>1, Constants DEF SupplyPosition
  <2>3. /\ PricesFit(CalculateExchangePrices(reserve, now))
        /\ reserve' = Refreshed(ShiftSupply(ShiftSupply(Accrued(reserve),
                        supplyPos[p].with_interest, -supplyPos[p].amount), bears, in), rate_model)
    BY <1>2 DEF SwitchSupplyMode
  <2>4. bears \in BOOLEAN
    OBVIOUS
  <2> HIDE DEF in, bears
  <2> QED BY <1>1, <2>1, <2>2, <2>3, <2>4
<1>3. ASSUME NEW c \in UserBorrowConfigs, SwitchBorrowMode(signer, p, c)
      PROVE  reserve'.total_claim_amount = reserve.total_claim_amount
  <2> DEFINE price == CalculateExchangePrices(reserve, now).borrow
             in == ConvertedBorrow(borrowPos[p], c.mode, price).amount
             bears == c.mode = 1
  <2>1. /\ borrowPos[p].with_interest \in BOOLEAN /\ -borrowPos[p].amount \in Int
        /\ borrowPos[p] \in BorrowPosition /\ price \in Nat \ {0}
    BY Unpacked, Constants DEF BorrowPosition
  <2>2. in \in Int
    <3>1. ConvertedBorrow(borrowPos[p], c.mode, price) \in BorrowPosition
      BY <1>3, <2>1, BorrowConverted DEF SwitchBorrowMode
    <3> QED BY <3>1, Constants DEF BorrowPosition
  <2>3. /\ PricesFit(CalculateExchangePrices(reserve, now))
        /\ reserve' = Refreshed(ShiftBorrow(ShiftBorrow(Accrued(reserve),
                        borrowPos[p].with_interest, -borrowPos[p].amount), bears, in), rate_model)
    BY <1>3 DEF SwitchBorrowMode
  <2>4. bears \in BOOLEAN
    OBVIOUS
  <2> HIDE DEF in, bears
  <2> QED BY <1>1, <2>1, <2>2, <2>3, <2>4
<1> QED BY <1>2, <1>3

LEMMA ClaimsInit == Init => ClaimsInv
<1> SUFFICES ASSUME Init PROVE ClaimsInv
  OBVIOUS
<1>1. claimAmount \in [Recipients -> {0}] /\ reserve.total_claim_amount = 0
  BY DEF Init, NewReserve
<1>2. ClosedEmpty
  BY <1>1 DEF ClosedEmpty
<1>3. ClaimsMatchAccounts
  BY <1>1, SumOfZeros DEF ClaimsMatchAccounts
<1> QED BY <1>2, <1>3, TypeInit DEF ClaimsInv

LEMMA ClaimsStep == ClaimsInv /\ [LayerNext]_vars => ClaimsInv'
<1> SUFFICES ASSUME ClaimsInv, [LayerNext]_vars PROVE ClaimsInv'
  OBVIOUS
<1>1. TypeInv /\ TypeInv'
  BY TypeStep DEF ClaimsInv
<1>2. ASSUME UNCHANGED claimVars, reserve'.total_claim_amount = reserve.total_claim_amount
      PROVE  ClosedEmpty' /\ ClaimsMatchAccounts'
  BY <1>2 DEF ClaimsInv, ClosedEmpty, ClaimsMatchAccounts, claimVars
<1>3. ASSUME \/ UNCHANGED vars
             \/ AccessNext /\ UNCHANGED moneyVars
             \/ \E p \in Protocols : PreOperate(p)
             \/ \E amount \in Nat : TransferIn(amount)
             \/ Tick
             \/ \E signer \in Accounts : CollectRevenue(signer)
             \/ \E signer \in Accounts, p \in Protocols :
                  \/ \E sides \in NonEmptySides : InitNewProtocol(signer, p, sides)
                  \/ \E limit \in WithdrawalLimits : UpdateUserWithdrawalLimit(signer, p, limit)
                  \/ \E c \in UserSupplyConfigs : UpdateUserSupplyConfig(signer, p, c)
                  \/ \E c \in UserBorrowConfigs : UpdateUserBorrowConfig(signer, p, c)
                  \/ \E sides \in NonEmptySides :
                       PauseUser(signer, p, sides) \/ UnpauseUser(signer, p, sides)
      PROVE  ClosedEmpty' /\ ClaimsMatchAccounts'
  <2>1. UNCHANGED claimVars /\ UNCHANGED reserve
    BY <1>3 DEF vars, moneyVars, claimVars, PreOperate, TransferIn, Tick, CollectRevenue,
                InitNewProtocol, UpdateUserWithdrawalLimit, UpdateUserSupplyConfig,
                UpdateUserBorrowConfig, PauseUser, UnpauseUser
  <2> QED BY <1>2, <2>1
<1>4. ASSUME \/ UpdateExchangePrice
             \/ \E signer \in Accounts, d \in RateDataV1 : UpdateRateDataV1(signer, d)
             \/ \E signer \in Accounts, d \in RateDataV2 : UpdateRateDataV2(signer, d)
             \/ \E signer \in Accounts, c \in TokenConfigs : UpdateTokenConfig(signer, c)
      PROVE  ClosedEmpty' /\ ClaimsMatchAccounts'
  <2>1. UNCHANGED claimVars
    BY <1>4 DEF UpdateExchangePrice, UpdateRateDataV1, UpdateRateDataV2, InstallCurve,
                UpdateTokenConfig
  <2> QED BY <1>1, <1>2, <1>4, <2>1, ReserveStepsKeepTotals DEF SameTotals
<1>5. ASSUME NEW signer \in Accounts, NEW p \in Protocols,
             \/ \E c \in UserSupplyConfigs : SwitchSupplyMode(signer, p, c)
             \/ \E c \in UserBorrowConfigs : SwitchBorrowMode(signer, p, c)
      PROVE  ClosedEmpty' /\ ClaimsMatchAccounts'
  <2>1. UNCHANGED claimVars
    BY <1>5 DEF SwitchSupplyMode, SwitchBorrowMode
  <2> QED BY <1>1, <1>2, <1>5, <2>1, SwitchKeepsClaims
<1>6. ASSUME NEW p \in Protocols, NEW s \in Int, NEW b \in Int,
             NEW wto \in Recipients, NEW bto \in Recipients, NEW type,
             Operate(p, s, b, wto, bto, type)
      PROVE  ClosedEmpty' /\ ClaimsMatchAccounts'
  BY <1>6, OperateClaims
<1>7. ClosedEmpty' /\ ClaimsMatchAccounts'
  BY <1>3, <1>4, <1>5, <1>6, ClaimantSteps
     DEF LayerNext, ReserveAdminNext, PositionAdminNext
<1> QED BY <1>1, <1>7 DEF ClaimsInv

(* What is reserved for claims is what the claim accounts hold together,   *)
(* through any sequence of payouts into accounts, claims, closings and     *)
(* creations of accounts: reduce_claim_amount cannot fail on a claim.      *)
THEOREM ClaimsHold == Spec => []ClaimsMatchAccounts
<1>1. ClaimsInv => ClaimsMatchAccounts
  BY DEF ClaimsInv
<1> QED BY <1>1, ClaimsInit, ClaimsStep, LayerSpec, PTL

-----------------------------------------------------------------------------
(* The one way in which the reserve is rewritten: prices accrued up to now *)
(* under the old reserve, then utilization and rate of the new totals and  *)
(* the new curve.  Only a claim changes less.                              *)

ReserveRewritten ==
  \E r \in LooseReserve, claims \in Nat :
    reserve' = [Restated(r, CalculateExchangePrices(reserve, now), rate_model')
                  EXCEPT !.total_claim_amount = claims]

ReserveKept ==
  /\ UNCHANGED rate_model
  /\ \E claims \in Nat : reserve' = [reserve EXCEPT !.total_claim_amount = claims]

LEMMA PlainlyRewritten ==
  ASSUME NEW r \in LooseReserve,
         reserve' = Restated(r, CalculateExchangePrices(reserve, now), rate_model')
  PROVE  ReserveRewritten
<1> DEFINE new == Restated(r, CalculateExchangePrices(reserve, now), rate_model')
<1>1. new.total_claim_amount = r.total_claim_amount /\ r.total_claim_amount \in Nat
  BY Constants DEF Restated, WithPrices, LooseReserve, Amount
<1>2. new = [new EXCEPT !.total_claim_amount = new.total_claim_amount]
  BY DEF Restated, WithPrices, LooseReserve
<1> QED BY <1>1, <1>2 DEF ReserveRewritten

(* Nothing accrues in no time.                                             *)
LEMMA NoTimeNoInterest ==
  ASSUME NEW r, now \in Nat, r.last_update_timestamp = now
  PROVE  CalculateExchangePrices(r, now) = StoredPrices(r)
BY DEF CalculateExchangePrices, StoredPrices

LEMMA AccruedStored ==
  ASSUME TypeInv
  PROVE  /\ Accrued(reserve).last_update_timestamp = now
         /\ StoredPrices(Accrued(reserve)) = CalculateExchangePrices(reserve, now)
<1>1. CalculateExchangePrices(reserve, now) \in [supply : Nat \ {0}, borrow : Nat \ {0}]
  BY Unpacked
<1> HIDE DEF CalculateExchangePrices
<1> QED BY <1>1, Unpacked DEF Accrued, WithPrices, StoredPrices, LooseReserve

(* A refresh of a reserve just accrued stores the prices it has.           *)
LEMMA RefreshedAfterAccrual ==
  ASSUME TypeInv, NEW r \in LooseReserve,
         r.last_update_timestamp = now,
         StoredPrices(r) = CalculateExchangePrices(reserve, now),
         reserve' = Refreshed(r, rate_model')
  PROVE  ReserveRewritten
<1>1. CalculateExchangePrices(r, now) = CalculateExchangePrices(reserve, now)
  BY Unpacked, NoTimeNoInterest
<1> QED BY <1>1, PlainlyRewritten DEF Refreshed

LEMMA OperateRewrites ==
  ASSUME TypeInv,
         NEW p \in Protocols, NEW supply \in Int, NEW borrow \in Int,
         NEW wto \in Recipients, NEW bto \in Recipients, NEW type,
         Operate(p, supply, borrow, wto, bto, type)
  PROVE  ReserveRewritten
<1> DEFINE prices == CalculateExchangePrices(reserve, now)
           sdelta == SupplyDelta(supplyPos[p], supply, prices.supply)
           bdelta == BorrowDelta(borrowPos[p], borrow, prices.borrow)
           moved == ShiftBorrow(ShiftSupply(reserve, supplyPos[p].with_interest, sdelta),
                                borrowPos[p].with_interest, bdelta)
           final == Restated(moved, prices, rate_model)
           paid == IF type = "CLAIM" THEN Positive(-supply) + Positive(borrow) ELSE 0
<1>1. supply \in Int /\ borrow \in Int
  OBVIOUS
<1>2. sdelta \in Int /\ bdelta \in Int
  BY <1>1, Unpacked, SupplyDeltaInteger, BorrowDeltaInteger
<1>3. /\ reserve' = [final EXCEPT !.total_claim_amount = final.total_claim_amount + paid]
      /\ rate_model' = rate_model
  BY DEF Operate
<1>4. paid \in Nat
  BY <1>1 DEF Positive
<1> HIDE DEF sdelta, bdelta, paid
<1>5. moved \in LooseReserve
  BY <1>2, Unpacked, ShiftTyped
<1> HIDE DEF moved
<1>6. final.total_claim_amount \in Nat
  BY <1>5, ClaimsUntouched, Constants DEF LooseReserve, Amount
<1> HIDE DEF final
<1>7. final.total_claim_amount + paid \in Nat
  BY <1>4, <1>6
<1> QED BY <1>3, <1>5, <1>7 DEF ReserveRewritten, final

LEMMA SwitchRewrites ==
  ASSUME TypeInv, NEW signer \in Accounts, NEW p \in Protocols,
         \/ \E c \in UserSupplyConfigs : SwitchSupplyMode(signer, p, c)
         \/ \E c \in UserBorrowConfigs : SwitchBorrowMode(signer, p, c)
  PROVE  ReserveRewritten
<1> DEFINE Stored(r) == /\ r \in LooseReserve
                        /\ r.last_update_timestamp = now
                        /\ StoredPrices(r) = CalculateExchangePrices(reserve, now)
<1>1. ASSUME NEW r, Stored(r), NEW mode \in BOOLEAN, NEW delta \in Int
      PROVE  Stored(ShiftSupply(r, mode, delta)) /\ Stored(ShiftBorrow(r, mode, delta))
  <2>1. /\ StoredPrices(ShiftSupply(r, mode, delta)) = StoredPrices(r)
        /\ StoredPrices(ShiftBorrow(r, mode, delta)) = StoredPrices(r)
    BY <1>1 DEF StoredPrices, ShiftSupply, ShiftBorrow, LooseReserve
  <2> QED BY <1>1, <2>1, ShiftTyped
<1>2. PricesFit(CalculateExchangePrices(reserve, now)) => Stored(Accrued(reserve))
  BY Unpacked, AccruedTyped, Loosened, AccruedStored
<1> HIDE DEF Stored
<1>3. ASSUME NEW r, Stored(r), reserve' = Refreshed(r, rate_model), UNCHANGED rate_model
      PROVE  ReserveRewritten
  BY <1>3, RefreshedAfterAccrual DEF Stored
<1>4. ASSUME NEW c \in UserSupplyConfigs, SwitchSupplyMode(signer, p, c)
      PROVE  ReserveRewritten
  <2> DEFINE price == CalculateExchangePrices(reserve, now).supply
             into == ConvertedSupply(supplyPos[p], c.mode, price).amount
             bears == c.mode = 1
             left == ShiftSupply(Accrued(reserve), supplyPos[p].with_interest, -supplyPos[p].amount)
  <2>1. /\ supplyPos[p].with_interest \in BOOLEAN /\ -supplyPos[p].amount \in Int
        /\ supplyPos[p] \in SupplyPosition /\ price \in Nat \ {0}
    BY Unpacked, Constants DEF SupplyPosition
  <2>2. into \in Int
    <3>1. ConvertedSupply(supplyPos[p], c.mode, price) \in SupplyPosition
      BY <1>4, <2>1, SupplyConverted DEF SwitchSupplyMode
    <3> QED BY <3>1, Constants DEF SupplyPosition
  <2>3. /\ PricesFit(CalculateExchangePrices(reserve, now))
        /\ reserve' = Refreshed(ShiftSupply(left, bears, into), rate_model)
        /\ UNCHANGED rate_model
    BY <1>4 DEF SwitchSupplyMode
  <2>4. bears \in BOOLEAN
    OBVIOUS
  <2>5. Stored(left)
    BY <1>1, <1>2, <2>1, <2>3
  <2> HIDE DEF into, bears, left
  <2>6. Stored(ShiftSupply(left, bears, into))
    BY <1>1, <2>2, <2>4, <2>5
  <2> QED BY <1>3, <2>3, <2>6
<1>5. ASSUME NEW c \in UserBorrowConfigs, SwitchBorrowMode(signer, p, c)
      PROVE  ReserveRewritten
  <2> DEFINE price == CalculateExchangePrices(reserve, now).borrow
             into == ConvertedBorrow(borrowPos[p], c.mode, price).amount
             bears == c.mode = 1
             left == ShiftBorrow(Accrued(reserve), borrowPos[p].with_interest, -borrowPos[p].amount)
  <2>1. /\ borrowPos[p].with_interest \in BOOLEAN /\ -borrowPos[p].amount \in Int
        /\ borrowPos[p] \in BorrowPosition /\ price \in Nat \ {0}
    BY Unpacked, Constants DEF BorrowPosition
  <2>2. into \in Int
    <3>1. ConvertedBorrow(borrowPos[p], c.mode, price) \in BorrowPosition
      BY <1>5, <2>1, BorrowConverted DEF SwitchBorrowMode
    <3> QED BY <3>1, Constants DEF BorrowPosition
  <2>3. /\ PricesFit(CalculateExchangePrices(reserve, now))
        /\ reserve' = Refreshed(ShiftBorrow(left, bears, into), rate_model)
        /\ UNCHANGED rate_model
    BY <1>5 DEF SwitchBorrowMode
  <2>4. bears \in BOOLEAN
    OBVIOUS
  <2>5. Stored(left)
    BY <1>1, <1>2, <2>1, <2>3
  <2> HIDE DEF into, bears, left
  <2>6. Stored(ShiftBorrow(left, bears, into))
    BY <1>1, <2>2, <2>4, <2>5
  <2> QED BY <1>3, <2>3, <2>6
<1> QED BY <1>4, <1>5

LEMMA ReserveStepsRewrite ==
  ASSUME TypeInv,
         \/ UpdateExchangePrice
         \/ \E signer \in Accounts, d \in RateDataV1 : UpdateRateDataV1(signer, d)
         \/ \E signer \in Accounts, d \in RateDataV2 : UpdateRateDataV2(signer, d)
         \/ \E signer \in Accounts, c \in TokenConfigs : UpdateTokenConfig(signer, c)
  PROVE  ReserveRewritten
<1>1. CASE UpdateExchangePrice
  BY <1>1, Unpacked, PlainlyRewritten DEF UpdateExchangePrice, Refreshed
<1>2. ASSUME NEW signer, NEW curve, InstallCurve(signer, curve)
      PROVE  ReserveRewritten
  <2>1. Accrued(reserve) \in LooseReserve
    BY <1>2, Unpacked, AccruedTyped, Loosened DEF InstallCurve
  <2>2. reserve' = Refreshed(Accrued(reserve), rate_model')
    BY <1>2 DEF InstallCurve
  <2> QED BY <2>1, <2>2, AccruedStored, RefreshedAfterAccrual
<1>3. ASSUME NEW signer \in Accounts, NEW c \in TokenConfigs, UpdateTokenConfig(signer, c)
      PROVE  ReserveRewritten
  <2> DEFINE accrued == Accrued(reserve)
             configured == WithTokenConfig(reserve, c)
  <2>1. accrued \in LooseReserve
    BY <1>3, Unpacked, AccruedTyped, Loosened DEF UpdateTokenConfig
  <2>2. /\ accrued.last_update_timestamp = now
        /\ StoredPrices(accrued) = CalculateExchangePrices(reserve, now)
    BY AccruedStored
  <2>3. c.fee \in 0..FOUR_DECIMALS /\ c.max_utilization \in 0..FOUR_DECIMALS
    BY <1>3, Constants, LiquidityAssumption DEF UpdateTokenConfig, LiquidityAssumption
  <2>4. configured = [accrued EXCEPT !.fee_on_interest = c.fee, !.max_utilization = c.max_utilization]
    BY DEF WithTokenConfig
  <2>5. reserve' = Refreshed(configured, rate_model')
    BY <1>3 DEF UpdateTokenConfig
  <2> HIDE DEF accrued, configured
  <2>6. /\ configured \in LooseReserve
        /\ configured.last_update_timestamp = accrued.last_update_timestamp
        /\ StoredPrices(configured) = StoredPrices(accrued)
    BY <2>1, <2>3, <2>4 DEF LooseReserve, StoredPrices
  <2> QED BY <2>2, <2>5, <2>6, RefreshedAfterAccrual
<1> QED BY <1>1, <1>2, <1>3 DEF UpdateRateDataV1, UpdateRateDataV2

LEMMA ReserveStep ==
  ASSUME TypeInv, [LayerNext]_vars
  PROVE  ReserveRewritten \/ ReserveKept
<1>1. ASSUME UNCHANGED <<reserve, rate_model>> PROVE ReserveKept
  <2>1. /\ reserve = [reserve EXCEPT !.total_claim_amount = reserve.total_claim_amount]
        /\ reserve.total_claim_amount \in Nat
    BY Unpacked, Constants DEF LooseReserve, Amount
  <2> QED BY <1>1, <2>1 DEF ReserveKept
<1>2. ASSUME \/ UNCHANGED vars
             \/ AccessNext /\ UNCHANGED moneyVars
             \/ \E p \in Protocols : PreOperate(p)
             \/ \E amount \in Nat : TransferIn(amount)
             \/ \E user \in Recipients : InitClaimAccount(user) \/ CloseClaimAccount(user)
             \/ Tick
             \/ \E signer \in Accounts : CollectRevenue(signer)
             \/ \E signer \in Accounts, p \in Protocols :
                  \/ \E sides \in NonEmptySides : InitNewProtocol(signer, p, sides)
                  \/ \E limit \in WithdrawalLimits : UpdateUserWithdrawalLimit(signer, p, limit)
                  \/ \E c \in UserSupplyConfigs : UpdateUserSupplyConfig(signer, p, c)
                  \/ \E c \in UserBorrowConfigs : UpdateUserBorrowConfig(signer, p, c)
                  \/ \E sides \in NonEmptySides :
                       PauseUser(signer, p, sides) \/ UnpauseUser(signer, p, sides)
      PROVE  ReserveKept
  <2>1. UNCHANGED <<reserve, rate_model>>
    BY <1>2 DEF vars, moneyVars, PreOperate, TransferIn, InitClaimAccount, CloseClaimAccount,
                Tick, CollectRevenue, InitNewProtocol, UpdateUserWithdrawalLimit,
                UpdateUserSupplyConfig, UpdateUserBorrowConfig, PauseUser, UnpauseUser
  <2> QED BY <1>1, <2>1
<1>3. ASSUME NEW user \in Recipients, Claim(user) PROVE ReserveKept
  <2>1. reserve.total_claim_amount - claimAmount[user] \in Nat
    BY <1>3, Unpacked, Constants DEF Claim, LooseReserve, Amount
  <2> QED BY <1>3, <2>1 DEF Claim, ReserveKept
<1> QED BY <1>2, <1>3, OperateRewrites, SwitchRewrites, ReserveStepsRewrite
        DEF LayerNext, ReserveAdminNext, PositionAdminNext

LEMMA RestatedCurrent ==
  ASSUME TypeInv, ReserveRewritten
  PROVE  CachedRateCurrent'
<1> DEFINE prices == CalculateExchangePrices(reserve, now)
<1>1. PICK r \in LooseReserve, claims \in Nat :
        reserve' = [Restated(r, prices, rate_model') EXCEPT !.total_claim_amount = claims]
  BY DEF ReserveRewritten
<1>2. prices \in [supply : Nat \ {0}, borrow : Nat \ {0}]
  BY Unpacked
<1> HIDE DEF prices
<1> DEFINE used == CalcUtilization(r, prices)
<1>3. /\ reserve'.last_utilization = used
      /\ reserve'.borrow_rate = CalcBorrowRate(rate_model', used)
      /\ reserve'.supply_exchange_price = prices.supply
      /\ reserve'.borrow_exchange_price = prices.borrow
      /\ reserve'.total_supply_with_interest = r.total_supply_with_interest
      /\ reserve'.total_supply_interest_free = r.total_supply_interest_free
      /\ reserve'.total_borrow_with_interest = r.total_borrow_with_interest
      /\ reserve'.total_borrow_interest_free = r.total_borrow_interest_free
  BY <1>1 DEF Restated, WithPrices, LooseReserve
<1>4. StoredPrices(reserve') = prices
  BY <1>2, <1>3 DEF StoredPrices
<1>5. CalcUtilization(reserve', prices) = used
  BY <1>3 DEF CalcUtilization, ScaledSupply, ScaledBorrow
<1>6. /\ reserve'.last_utilization = CalcUtilization(reserve', StoredPrices(reserve'))
      /\ reserve'.borrow_rate = CalcBorrowRate(rate_model', reserve'.last_utilization)
  BY <1>3, <1>4, <1>5
<1> QED BY <1>6 DEF CachedRateCurrent

LEMMA KeptCurrent ==
  ASSUME TypeInv, ReserveKept, CachedRateCurrent
  PROVE  CachedRateCurrent'
<1>1. PICK claims \in Nat : reserve' = [reserve EXCEPT !.total_claim_amount = claims]
  BY DEF ReserveKept
<1>2. /\ reserve'.last_utilization = reserve.last_utilization
      /\ reserve'.borrow_rate = reserve.borrow_rate
      /\ reserve'.total_supply_with_interest = reserve.total_supply_with_interest
      /\ reserve'.total_supply_interest_free = reserve.total_supply_interest_free
      /\ reserve'.total_borrow_with_interest = reserve.total_borrow_with_interest
      /\ reserve'.total_borrow_interest_free = reserve.total_borrow_interest_free
      /\ StoredPrices(reserve') = StoredPrices(reserve)
  BY <1>1, Unpacked DEF LooseReserve, StoredPrices
<1>3. CalcUtilization(reserve', StoredPrices(reserve')) = CalcUtilization(reserve, StoredPrices(reserve))
  BY <1>2 DEF CalcUtilization, ScaledSupply, ScaledBorrow
<1>4. UNCHANGED rate_model
  BY DEF ReserveKept
<1>5. /\ reserve'.last_utilization = CalcUtilization(reserve', StoredPrices(reserve'))
      /\ rate_model'.version # 0 =>
           reserve'.borrow_rate = CalcBorrowRate(rate_model', reserve'.last_utilization)
  BY <1>2, <1>3, <1>4 DEF CachedRateCurrent
<1> QED BY <1>5 DEF CachedRateCurrent

LEMMA CachedRateInit == Init => CachedRateCurrent
<1> SUFFICES ASSUME Init PROVE CachedRateCurrent
  OBVIOUS
<1>1. /\ reserve.last_utilization = 0 /\ rate_model.version = 0
      /\ reserve.total_supply_with_interest = 0 /\ reserve.total_supply_interest_free = 0
      /\ reserve.supply_exchange_price = Precision
  BY DEF Init, NewReserve, NewRateModel, Precision
<1>2. 0 * Precision + 0 * Precision = 0
  BY Constants
<1>3. ScaledSupply(reserve, StoredPrices(reserve).supply) = 0
  BY <1>1, <1>2 DEF ScaledSupply, StoredPrices
<1> QED BY <1>1, <1>3 DEF CachedRateCurrent, CalcUtilization

LEMMA CachedRateStep ==
  ASSUME TypeInv, CachedRateCurrent, [LayerNext]_vars
  PROVE  CachedRateCurrent'
BY ReserveStep, RestatedCurrent, KeptCurrent

(* Interest never accrues at a stale rate: whatever changes totals, prices *)
(* or curve also recomputes utilization and borrow rate from them          *)
(* (update_exchange_prices_and_rates).                                     *)
THEOREM CachedRatesHold == Spec => []CachedRateCurrent
<1>1. TypeInv /\ CachedRateCurrent /\ [LayerNext]_vars => CachedRateCurrent'
  BY CachedRateStep
<1> QED BY <1>1, CachedRateInit, TypeInit, TypeStep, LayerSpec, PTL

(* What is rewritten is brought up to date.                                *)
LEMMA RewrittenPrices ==
  ASSUME TypeInv, ReserveRewritten
  PROVE  /\ reserve'.last_update_timestamp = now
         /\ StoredPrices(reserve') = CalculateExchangePrices(reserve, now)
<1> DEFINE prices == CalculateExchangePrices(reserve, now)
<1>1. PICK r \in LooseReserve, claims \in Nat :
        reserve' = [Restated(r, prices, rate_model') EXCEPT !.total_claim_amount = claims]
  BY DEF ReserveRewritten
<1>2. prices \in [supply : Nat \ {0}, borrow : Nat \ {0}]
  BY Unpacked
<1> HIDE DEF prices
<1>3. /\ reserve'.last_update_timestamp = now
      /\ reserve'.supply_exchange_price = prices.supply
      /\ reserve'.borrow_exchange_price = prices.borrow
  BY <1>1 DEF Restated, WithPrices, LooseReserve
<1>4. StoredPrices(reserve') = prices
  BY <1>2, <1>3 DEF StoredPrices
<1> QED BY <1>3, <1>4 DEF prices

(* A step that changes the reserve in anything but its claim total stores  *)
(* the prices accrued up to now at the old values: no change of curve, fee *)
(* or totals applies to time already elapsed.                              *)
THEOREM AccrualsHold == Spec => NothingRetroactive
<1> DEFINE Accruing == [reserve EXCEPT !.total_claim_amount = 0]
                         # [reserve' EXCEPT !.total_claim_amount = 0] =>
                       /\ reserve'.last_update_timestamp = now
                       /\ StoredPrices(reserve') = CalculateExchangePrices(reserve, now)
<1>1. TypeInv /\ [LayerNext]_vars => Accruing
  <2> SUFFICES ASSUME TypeInv, [LayerNext]_vars PROVE Accruing
    OBVIOUS
  <2>1. CASE ReserveRewritten
    BY <2>1, RewrittenPrices
  <2>2. CASE ReserveKept
    <3>1. PICK claims \in Nat : reserve' = [reserve EXCEPT !.total_claim_amount = claims]
      BY <2>2 DEF ReserveKept
    <3>2. [reserve' EXCEPT !.total_claim_amount = 0] = [reserve EXCEPT !.total_claim_amount = 0]
      BY <3>1, Unpacked DEF LooseReserve
    <3> QED BY <3>2
  <2> QED BY <2>1, <2>2, ReserveStep
<1>2. TypeInv /\ [LayerNext]_vars => [Accruing]_vars
  BY <1>1
<1> QED BY <1>2, TypeInit, TypeStep, LayerSpec, PTL DEF NothingRetroactive

-----------------------------------------------------------------------------
(* Interest.                                                               *)

LEMMA CancelFactor ==
  ASSUME NEW a \in Nat, NEW b \in Nat, NEW c \in Nat \ {0}, a * c <= b * c
  PROVE  a <= b
<1> SUFFICES ASSUME b + 1 <= a PROVE FALSE
  OBVIOUS
<1>1. (b + 1) * c <= a * c
  BY ProductMonotonic
<1>2. (b + 1) * c = b * c + c
  OBVIOUS
<1>3. b * c \in Nat /\ a * c \in Nat
  OBVIOUS
<1> QED BY <1>1, <1>2, <1>3

(* A supply gain that is at most the utilization's part of the interest,   *)
(* and a borrow gain that is at least all of it.                           *)
LEMMA YieldBound ==
  ASSUME NEW supply \in Nat, NEW borrow \in Nat, NEW sp \in Nat, NEW bp \in Nat,
         NEW used \in Nat, NEW rate \in Nat, NEW elapsed \in Nat, NEW srate \in Nat,
         NEW sgain \in Nat, NEW bgain \in Nat, NEW pc \in Nat \ {0}, NEW year \in Nat \ {0},
         used * (supply * sp) <= (borrow * bp) * pc,
         srate <= (rate * used) * pc,
         (sgain * (pc * pc)) * year <= (sp * srate) * elapsed,
         (bp * rate) * elapsed <= bgain * year
  PROVE  supply * sgain <= borrow * bgain
<1> DEFINE scale == (pc * pc) * year
<1>1. scale \in Nat \ {0}
  OBVIOUS
<1>2. (supply * sgain) * scale <= (supply * sp) * (srate * elapsed)
  <2>1. supply * ((sgain * (pc * pc)) * year) <= supply * ((sp * srate) * elapsed)
    BY ProductMonotonic
  <2>2. supply * ((sgain * (pc * pc)) * year) = (supply * sgain) * scale
    OBVIOUS
  <2>3. supply * ((sp * srate) * elapsed) = (supply * sp) * (srate * elapsed)
    OBVIOUS
  <2> QED BY <2>1, <2>2, <2>3
<1>3. (supply * sp) * (srate * elapsed) <= (used * (supply * sp)) * ((rate * elapsed) * pc)
  <2>1. ((supply * sp) * elapsed) * srate <= ((supply * sp) * elapsed) * ((rate * used) * pc)
    BY ProductMonotonic
  <2>2. ((supply * sp) * elapsed) * srate = (supply * sp) * (srate * elapsed)
    OBVIOUS
  <2>3. ((supply * sp) * elapsed) * ((rate * used) * pc)
          = (used * (supply * sp)) * ((rate * elapsed) * pc)
    OBVIOUS
  <2> QED BY <2>1, <2>2, <2>3
<1>4. (used * (supply * sp)) * ((rate * elapsed) * pc)
        <= ((borrow * bp) * pc) * ((rate * elapsed) * pc)
  BY ProductMonotonic
<1>5. ((borrow * bp) * pc) * ((rate * elapsed) * pc) <= (borrow * bgain) * scale
  <2>1. (borrow * (pc * pc)) * ((bp * rate) * elapsed) <= (borrow * (pc * pc)) * (bgain * year)
    BY ProductMonotonic
  <2>2. (borrow * (pc * pc)) * ((bp * rate) * elapsed)
          = ((borrow * bp) * pc) * ((rate * elapsed) * pc)
    OBVIOUS
  <2>3. (borrow * (pc * pc)) * (bgain * year) = (borrow * bgain) * scale
    OBVIOUS
  <2> QED BY <2>1, <2>2, <2>3
<1>6. /\ (supply * sgain) * scale \in Nat /\ (borrow * bgain) * scale \in Nat
      /\ (supply * sp) * (srate * elapsed) \in Nat
      /\ (used * (supply * sp)) * ((rate * elapsed) * pc) \in Nat
      /\ ((borrow * bp) * pc) * ((rate * elapsed) * pc) \in Nat
  OBVIOUS
<1> HIDE DEF scale
<1>7. (supply * sgain) * scale <= (borrow * bgain) * scale
  BY <1>2, <1>3, <1>4, <1>5, <1>6
<1>8. supply * sgain \in Nat /\ borrow * bgain \in Nat
  OBVIOUS
<1> QED BY <1>1, <1>7, <1>8, CancelFactor

(* Without interest-free amounts the ratios are exact, and the yield of    *)
(* the suppliers is at most the utilization's part of the borrow rate.     *)
LEMMA SupplyRateBound ==
  ASSUME NEW r \in LooseReserve, ~NoEarningSupply(r),
         r.total_supply_interest_free = 0, r.total_borrow_interest_free = 0
  PROVE  SupplyRate(r) \in Nat /\ SupplyRate(r) <= (r.borrow_rate * r.last_utilization) * Percent
<1> DEFINE supply == r.total_supply_with_interest
           borrow == r.total_borrow_with_interest
           used == r.last_utilization
           lent == LenderYield(r)
<1>1. /\ supply \in Nat \ {0} /\ borrow \in Nat /\ used \in Nat /\ r.borrow_rate \in Nat
      /\ r.fee_on_interest \in 0..Percent
  BY Constants DEF NoEarningSupply, LooseReserve, Percent
<1>2. \A n \in Nat : WithInterestVsFreeRatio(n, 0) = 0
  <2> SUFFICES ASSUME NEW n \in Nat PROVE WithInterestVsFreeRatio(n, 0) = 0
    OBVIOUS
  <2>1. n # 0 => Least(n, 0) = 0 /\ Greatest(n, 0) = n
    BY DEF Least, Greatest
  <2>2. 0 * Percent = 0
    BY Constants
  <2>3. n # 0 => 0 \div n = 0
    OBVIOUS
  <2> QED BY <2>1, <2>2, <2>3 DEF WithInterestVsFreeRatio
<1>3. SupplyRatio(r) = 0 /\ BorrowRatio(r) = 0
  BY <1>1, <1>2 DEF SupplyRatio, BorrowRatio
<1>4. PayingBorrowers(r) = Output
  <2>1. 0 * Output = 0 /\ Percent + 0 = Percent /\ 0 \div Percent = 0
    BY Constants
  <2>2. (0 * Output) \div (Percent + 0) = 0
    BY <2>1
  <2>3. ~(borrow < 0) /\ Output - 0 = Output
    BY <1>1, Constants
  <2> QED BY <1>3, <2>2, <2>3 DEF PayingBorrowers
<1>5. lent \in Nat /\ lent * Percent <= used * Output
  <2> DEFINE whole == used * Output * (Percent + 0)
  <2>1. lent = whole \div (Percent * Percent)
    BY <1>1, <1>3 DEF LenderYield
  <2>2. whole \in Nat /\ Percent * Percent \in Nat \ {0}
    BY <1>1, Constants
  <2>3. lent \in Nat /\ (Percent * Percent) * lent <= whole
    BY <2>1, <2>2, Quotient
  <2> HIDE DEF lent
  <2>4. whole = (used * Output) * Percent
    BY <1>1, Constants
  <2>5. (Percent * Percent) * lent = (lent * Percent) * Percent
    BY <2>3, Constants
  <2>6. lent * Percent \in Nat /\ used * Output \in Nat
    BY <1>1, <2>3, Constants
  <2> HIDE DEF whole
  <2>7. (lent * Percent) * Percent <= (used * Output) * Percent
    BY <2>3, <2>4, <2>5
  <2> QED BY <2>3, <2>6, <2>7, Constants, CancelFactor
<1> HIDE DEF lent
<1> DEFINE ratio == (((lent * PayingBorrowers(r)) \div Output) * Percent) \div Output
<1>6. ratio \in Nat /\ ratio <= used
  <2>1. (lent * Output) \div Output = lent
    BY <1>5, Constants
  <2>2. ratio = (lent * Percent) \div Output
    BY <1>4, <2>1
  <2>3. lent * Percent \in Nat
    BY <1>5, Constants
  <2> QED BY <1>1, <1>5, <2>2, <2>3, Quotient, QuotientBound, Constants
<1> HIDE DEF ratio
<1>7. SupplyRate(r) = r.borrow_rate * ratio * (Percent - r.fee_on_interest)
  BY DEF SupplyRate, ratio, lent
<1>8. Percent - r.fee_on_interest \in Nat /\ Percent - r.fee_on_interest <= Percent
  BY <1>1, Constants
<1>9. r.borrow_rate * ratio <= r.borrow_rate * used
      /\ r.borrow_rate * ratio \in Nat /\ r.borrow_rate * used \in Nat
  BY <1>1, <1>6, ProductMonotonic
<1>10. /\ (r.borrow_rate * ratio) * (Percent - r.fee_on_interest) <= (r.borrow_rate * ratio) * Percent
       /\ (r.borrow_rate * ratio) * Percent <= (r.borrow_rate * used) * Percent
  BY <1>8, <1>9, Constants, ProductMonotonic
<1>11. /\ (r.borrow_rate * ratio) * (Percent - r.fee_on_interest) \in Nat
       /\ (r.borrow_rate * ratio) * Percent \in Nat
       /\ (r.borrow_rate * used) * Percent \in Nat
  BY <1>8, <1>9, Constants
<1> HIDE DEF used
<1>12. SupplyRate(r) \in Nat /\ SupplyRate(r) <= (r.borrow_rate * used) * Percent
  BY <1>7, <1>10, <1>11
<1> QED BY <1>12 DEF used

InterestBearing(r) ==
  r.total_supply_interest_free = 0 /\ r.total_borrow_interest_free = 0

LEMMA ScaledNatural ==
  ASSUME NEW r \in LooseReserve, NEW price \in Nat
  PROVE  /\ ScaledSupply(r, price) \in Nat /\ ScaledBorrow(r, price) \in Nat
         /\ InterestBearing(r) =>
              /\ ScaledSupply(r, price) = r.total_supply_with_interest * price
              /\ ScaledBorrow(r, price) = r.total_borrow_with_interest * price
<1>1. /\ r.total_supply_with_interest \in Nat /\ r.total_supply_interest_free \in Nat
      /\ r.total_borrow_with_interest \in Nat /\ r.total_borrow_interest_free \in Nat
  BY DEF LooseReserve
<1>2. /\ r.total_supply_with_interest * price \in Nat
      /\ r.total_borrow_with_interest * price \in Nat
      /\ r.total_supply_interest_free * Precision \in Nat
      /\ r.total_borrow_interest_free * Precision \in Nat
  BY <1>1, Constants
<1>3. 0 * Precision = 0
  BY Constants
<1> QED BY <1>2, <1>3 DEF ScaledSupply, ScaledBorrow, InterestBearing

(* The gains of both prices over a time that is not idle.                  *)
LEMMA GainsBound ==
  ASSUME NEW r \in LooseReserve, NEW t \in Nat, r.last_update_timestamp <= t,
         InterestBearing(r), ~NoEarningSupply(r),
         r.last_utilization = CalcUtilization(r, StoredPrices(r)),
         NEW year, year = SECONDS_PER_YEAR * Percent,
         NEW elapsed, elapsed = t - r.last_update_timestamp,
         NEW sgain, sgain = ((r.supply_exchange_price * SupplyRate(r) * elapsed) \div year)
                              \div (Percent * Percent),
         NEW bgain, bgain = DivCeil(r.borrow_exchange_price * r.borrow_rate * elapsed, year)
  PROVE  /\ sgain \in Nat /\ bgain \in Nat
         /\ r.total_supply_with_interest * sgain <= r.total_borrow_with_interest * bgain
<1> DEFINE sp == r.supply_exchange_price
           bp == r.borrow_exchange_price
           supply == r.total_supply_with_interest
           borrow == r.total_borrow_with_interest
           used == r.last_utilization
           rate == r.borrow_rate
           srate == SupplyRate(r)
<1>1. /\ sp \in Nat \ {0} /\ bp \in Nat \ {0} /\ supply \in Nat \ {0} /\ borrow \in Nat
      /\ used \in Nat /\ rate \in Nat /\ elapsed \in Nat /\ year \in Nat \ {0}
      /\ Percent * Percent \in Nat \ {0}
  BY Constants DEF NoEarningSupply, LooseReserve
<1>2. srate \in Nat /\ srate <= (rate * used) * Percent
  BY SupplyRateBound DEF InterestBearing
<1>3. used * (supply * sp) <= (borrow * bp) * Percent
  <2>1. /\ ScaledSupply(r, sp) = supply * sp /\ ScaledBorrow(r, bp) = borrow * bp
    BY <1>1, ScaledNatural
  <2>2. supply * sp \in Nat \ {0} /\ borrow * bp \in Nat
    BY <1>1
  <2>3. used = ((borrow * bp) * Percent) \div (supply * sp)
    BY <2>1, <2>2 DEF CalcUtilization, StoredPrices
  <2>4. (borrow * bp) * Percent \in Nat
    BY <2>2, Constants
  <2>5. (supply * sp) * used <= (borrow * bp) * Percent
    BY <2>2, <2>3, <2>4, Quotient
  <2>6. (supply * sp) * used = used * (supply * sp)
    BY <1>1
  <2> QED BY <2>5, <2>6
<1> HIDE DEF sp, bp, supply, borrow, used, rate, srate
<1>4. sgain \in Nat /\ (sgain * (Percent * Percent)) * year <= (sp * srate) * elapsed
  <2> DEFINE whole == (sp * srate) * elapsed
             yearly == whole \div year
  <2>1. whole \in Nat
    BY <1>1, <1>2
  <2>2. sgain = yearly \div (Percent * Percent)
    BY DEF sp, srate
  <2> HIDE DEF whole
  <2>3. yearly \in Nat /\ year * yearly <= whole
    BY <1>1, <2>1, Quotient
  <2> HIDE DEF yearly
  <2>4. sgain \in Nat /\ (Percent * Percent) * sgain <= yearly
    BY <1>1, <2>2, <2>3, Quotient
  <2>5. (Percent * Percent) * sgain \in Nat
    BY <1>1, <2>4
  <2>6. year * ((Percent * Percent) * sgain) <= year * yearly
    BY <1>1, <2>3, <2>4, <2>5, ProductMonotonic
  <2>7. year * ((Percent * Percent) * sgain) = (sgain * (Percent * Percent)) * year
    BY <1>1, <2>4, Constants
  <2>8. year * yearly \in Nat /\ (sgain * (Percent * Percent)) * year \in Nat
    BY <1>1, <2>3, <2>4
  <2> QED BY <2>1, <2>3, <2>4, <2>6, <2>7, <2>8 DEF whole
<1>5. bgain \in Nat /\ (bp * rate) * elapsed <= bgain * year
  <2>1. (bp * rate) * elapsed \in Nat
    BY <1>1
  <2>2. bgain \in Nat /\ (bp * rate) * elapsed <= year * bgain
    BY <1>1, <2>1, CeilQuotient DEF bp, rate
  <2> QED BY <1>1, <2>2
<1>6. supply * sgain <= borrow * bgain
  BY <1>1, <1>2, <1>3, <1>4, <1>5, Constants, YieldBound
<1> QED BY <1>4, <1>5, <1>6 DEF supply, borrow

LEMMA AccrualCovered ==
  ASSUME NEW r \in LooseReserve, NEW t \in Nat, r.last_update_timestamp <= t,
         InterestBearing(r), r.last_utilization = CalcUtilization(r, StoredPrices(r))
  PROVE  LET prices == CalculateExchangePrices(r, t)
         IN  ScaledSupply(r, prices.supply) + ScaledBorrow(r, r.borrow_exchange_price)
               <= ScaledSupply(r, r.supply_exchange_price) + ScaledBorrow(r, prices.borrow)
<1> DEFINE elapsed == t - r.last_update_timestamp
           idle == elapsed = 0 \/ r.borrow_rate = 0 \/ r.total_borrow_with_interest = 0
           sp == r.supply_exchange_price
           bp == r.borrow_exchange_price
           supply == r.total_supply_with_interest
           borrow == r.total_borrow_with_interest
           year == SECONDS_PER_YEAR * Percent
           sgain == ((sp * SupplyRate(r) * elapsed) \div year) \div (Percent * Percent)
           bgain == DivCeil(bp * r.borrow_rate * elapsed, year)
           prices == CalculateExchangePrices(r, t)
<1>1. /\ sp \in Nat /\ bp \in Nat /\ supply \in Nat /\ borrow \in Nat
      /\ prices.supply \in Nat /\ prices.borrow \in Nat /\ prices.borrow >= bp
  BY PricesGrow, Constants DEF LooseReserve
<1>2. /\ ScaledSupply(r, prices.supply) = supply * prices.supply
      /\ ScaledSupply(r, sp) = supply * sp
      /\ ScaledBorrow(r, prices.borrow) = borrow * prices.borrow
      /\ ScaledBorrow(r, bp) = borrow * bp
  <2> HIDE DEF prices
  <2> QED BY <1>1, ScaledNatural
<1>3. CASE prices.supply = sp
  <2> HIDE DEF prices
  <2>1. borrow * bp <= borrow * prices.borrow
    BY <1>1, ProductMonotonic
  <2>2. borrow * bp \in Nat /\ borrow * prices.borrow \in Nat /\ supply * sp \in Nat
    BY <1>1
  <2> HIDE DEF borrow, supply, bp, sp
  <2>3. supply * sp + borrow * bp <= supply * sp + borrow * prices.borrow
    BY <2>1, <2>2
  <2> QED BY <1>2, <1>3, <2>3 DEF prices, sp, bp
<1>4. CASE prices.supply # sp
  <2>1. ~NoEarningSupply(r)
    BY <1>4 DEF CalculateExchangePrices
  <2>2. prices.supply = sp + sgain /\ prices.borrow = bp + bgain
    BY <1>4 DEF CalculateExchangePrices
  <2>3. sgain \in Nat /\ bgain \in Nat /\ supply * sgain <= borrow * bgain
    BY <2>1, GainsBound
  <2> HIDE DEF sgain, bgain, prices
  <2>4. /\ supply * (sp + sgain) = supply * sp + supply * sgain
        /\ borrow * (bp + bgain) = borrow * bp + borrow * bgain
    BY <1>1, <2>3
  <2>5. /\ supply * sp \in Nat /\ supply * sgain \in Nat
        /\ borrow * bp \in Nat /\ borrow * bgain \in Nat
    BY <1>1, <2>3
  <2> HIDE DEF borrow, supply, bp, sp
  <2>6. (supply * sp + supply * sgain) + borrow * bp <= supply * sp + (borrow * bp + borrow * bgain)
    BY <2>3, <2>5
  <2> QED BY <1>2, <2>2, <2>4, <2>6 DEF prices, sp, bp
<1> QED BY <1>3, <1>4

-----------------------------------------------------------------------------
(* What a position adds to its side at a price, before and after an        *)
(* instruction that rewrites it.                                           *)

Unit(pos, price) == IF pos.with_interest THEN price ELSE Precision
Worth(pos, price) == pos.amount * Unit(pos, price)

LEMMA ScaledByTotals ==
  ASSUME NEW r, NEW price
  PROVE  /\ ScaledSupply(r, price) = SupplyTotal(r, TRUE) * price + SupplyTotal(r, FALSE) * Precision
         /\ ScaledBorrow(r, price) = BorrowTotal(r, TRUE) * price + BorrowTotal(r, FALSE) * Precision
BY DEF ScaledSupply, ScaledBorrow, SupplyTotal, BorrowTotal

LEMMA WorthByShares ==
  ASSUME NEW pos, pos.amount \in Nat, pos.with_interest \in BOOLEAN, NEW price \in Nat
  PROVE  /\ Share(pos, TRUE) \in Nat /\ Share(pos, FALSE) \in Nat
         /\ Worth(pos, price) = Share(pos, TRUE) * price + Share(pos, FALSE) * Precision
BY Constants DEF Worth, Unit, Share

LEMMA ScaledSupplyMoves ==
  ASSUME TypeInv, TypeInv', SuppliesMatch, SuppliesMatch', NEW p \in Protocols, NEW new,
         new.amount \in Nat, new.with_interest \in BOOLEAN,
         supplyPos' = [supplyPos EXCEPT ![p] = new], NEW price \in Nat
  PROVE  ScaledSupply(reserve', price)
           = ScaledSupply(reserve, price) - Worth(supplyPos[p], price) + Worth(new, price)
<1> DEFINE old == supplyPos[p]
<1>1. old.amount \in Nat /\ old.with_interest \in BOOLEAN
  BY Unpacked, Constants DEF SupplyPosition
<1>2. \A mode \in BOOLEAN : Share(new, mode) \in Nat
  BY DEF Share
<1>3. \A mode \in BOOLEAN : /\ SupplyTotal(reserve, mode) \in Nat
                            /\ SupplyTotal(reserve', mode) \in Nat
  BY Constants DEF TypeInv, TypeOK, Reserve, Amount, SupplyTotal
<1>4. \A mode \in BOOLEAN :
        SupplyTotal(reserve', mode) = SupplyTotal(reserve, mode) - Share(old, mode) + Share(new, mode)
  BY <1>2, SuppliedUpdated DEF SuppliesMatch
<1> HIDE DEF old
<1> DEFINE bearing == SupplyTotal(reserve, TRUE)
           free == SupplyTotal(reserve, FALSE)
           bearingAfter == SupplyTotal(reserve', TRUE)
           freeAfter == SupplyTotal(reserve', FALSE)
<1>5. /\ bearing \in Nat /\ free \in Nat /\ bearingAfter \in Nat /\ freeAfter \in Nat
      /\ bearingAfter = bearing - Share(old, TRUE) + Share(new, TRUE)
      /\ freeAfter = free - Share(old, FALSE) + Share(new, FALSE)
  BY <1>3, <1>4
<1> HIDE DEF bearing, free, bearingAfter, freeAfter
<1> DEFINE ob == Share(old, TRUE)
           of == Share(old, FALSE)
           nb == Share(new, TRUE)
           nf == Share(new, FALSE)
<1>6. /\ ob \in Nat /\ of \in Nat /\ nb \in Nat /\ nf \in Nat
      /\ Worth(old, price) = ob * price + of * Precision
      /\ Worth(new, price) = nb * price + nf * Precision
      /\ bearingAfter = bearing - ob + nb /\ freeAfter = free - of + nf
  BY <1>1, <1>5, WorthByShares
<1> HIDE DEF ob, of, nb, nf
<1>7. /\ (bearing - ob + nb) * price = bearing * price - ob * price + nb * price
      /\ (free - of + nf) * Precision = free * Precision - of * Precision + nf * Precision
  BY <1>5, <1>6, Constants
<1>8. \A n \in {bearing, ob, nb, free, of, nf} : n * price \in Int /\ n * Precision \in Int
  BY <1>5, <1>6, Constants
<1>9. bearingAfter * price + freeAfter * Precision
        = (bearing * price + free * Precision) - (ob * price + of * Precision)
            + (nb * price + nf * Precision)
  BY <1>6, <1>7, <1>8
<1> QED BY <1>6, <1>9, ScaledByTotals DEF old, bearing, free, bearingAfter, freeAfter

LEMMA ScaledBorrowMoves ==
  ASSUME TypeInv, TypeInv', BorrowsMatch, BorrowsMatch', NEW p \in Protocols, NEW new,
         new.amount \in Nat, new.with_interest \in BOOLEAN,
         borrowPos' = [borrowPos EXCEPT ![p] = new], NEW price \in Nat
  PROVE  ScaledBorrow(reserve', price)
           = ScaledBorrow(reserve, price) - Worth(borrowPos[p], price) + Worth(new, price)
<1> DEFINE old == borrowPos[p]
<1>1. old.amount \in Nat /\ old.with_interest \in BOOLEAN
  BY Unpacked, Constants DEF BorrowPosition
<1>2. \A mode \in BOOLEAN : Share(new, mode) \in Nat
  BY DEF Share
<1>3. \A mode \in BOOLEAN : /\ BorrowTotal(reserve, mode) \in Nat
                            /\ BorrowTotal(reserve', mode) \in Nat
  BY Constants DEF TypeInv, TypeOK, Reserve, Amount, BorrowTotal
<1>4. \A mode \in BOOLEAN :
        BorrowTotal(reserve', mode) = BorrowTotal(reserve, mode) - Share(old, mode) + Share(new, mode)
  BY <1>2, BorrowedUpdated DEF BorrowsMatch
<1> HIDE DEF old
<1> DEFINE bearing == BorrowTotal(reserve, TRUE)
           free == BorrowTotal(reserve, FALSE)
           bearingAfter == BorrowTotal(reserve', TRUE)
           freeAfter == BorrowTotal(reserve', FALSE)
<1>5. /\ bearing \in Nat /\ free \in Nat /\ bearingAfter \in Nat /\ freeAfter \in Nat
      /\ bearingAfter = bearing - Share(old, TRUE) + Share(new, TRUE)
      /\ freeAfter = free - Share(old, FALSE) + Share(new, FALSE)
  BY <1>3, <1>4
<1> HIDE DEF bearing, free, bearingAfter, freeAfter
<1> DEFINE ob == Share(old, TRUE)
           of == Share(old, FALSE)
           nb == Share(new, TRUE)
           nf == Share(new, FALSE)
<1>6. /\ ob \in Nat /\ of \in Nat /\ nb \in Nat /\ nf \in Nat
      /\ Worth(old, price) = ob * price + of * Precision
      /\ Worth(new, price) = nb * price + nf * Precision
      /\ bearingAfter = bearing - ob + nb /\ freeAfter = free - of + nf
  BY <1>1, <1>5, WorthByShares
<1> HIDE DEF ob, of, nb, nf
<1>7. /\ (bearing - ob + nb) * price = bearing * price - ob * price + nb * price
      /\ (free - of + nf) * Precision = free * Precision - of * Precision + nf * Precision
  BY <1>5, <1>6, Constants
<1>8. \A n \in {bearing, ob, nb, free, of, nf} : n * price \in Int /\ n * Precision \in Int
  BY <1>5, <1>6, Constants
<1>9. bearingAfter * price + freeAfter * Precision
        = (bearing * price + free * Precision) - (ob * price + of * Precision)
            + (nb * price + nf * Precision)
  BY <1>6, <1>7, <1>8
<1> QED BY <1>6, <1>9, ScaledByTotals DEF old, bearing, free, bearingAfter, freeAfter

LEMMA WorthNatural ==
  ASSUME NEW price \in Nat \ {0},
         NEW pos, pos.amount \in Nat, pos.with_interest \in BOOLEAN
  PROVE  Unit(pos, price) \in Nat \ {0} /\ Worth(pos, price) \in Nat
<1>1. Unit(pos, price) \in Nat \ {0}
  BY Constants DEF Unit
<1> QED BY <1>1 DEF Worth

(* Deposits round down and withdrawals up: a supply position never gains   *)
(* more than the tokens that moved.                                        *)
LEMMA SupplyDeltaFavoursLayer ==
  ASSUME NEW pos \in SupplyPosition, NEW amount \in Int, NEW price \in Nat \ {0}
  PROVE  SupplyDelta(pos, amount, price) * Unit(pos, price) <= amount * Precision
<1>1. pos.with_interest \in BOOLEAN /\ Precision \in Nat \ {0}
  BY Constants DEF SupplyPosition
<1>2. CASE ~pos.with_interest
  BY <1>1, <1>2 DEF SupplyDelta, Unit
<1>3. CASE pos.with_interest /\ amount > 0
  <2> DEFINE raw == (amount * Precision) \div price
  <2>1. amount * Precision \in Nat
    BY <1>1, <1>3
  <2>2. raw \in Nat /\ price * raw <= amount * Precision
    BY <2>1, Quotient
  <2> HIDE DEF raw
  <2>3. raw * price = price * raw
    BY <2>2
  <2>4. SupplyDelta(pos, amount, price) = raw /\ Unit(pos, price) = price
    BY <1>3 DEF SupplyDelta, Unit, raw
  <2> QED BY <2>2, <2>3, <2>4
<1>4. CASE pos.with_interest /\ amount <= 0
  <2> DEFINE raw == DivCeil(-amount * Precision, price)
  <2>1. -amount * Precision \in Nat
    BY <1>1, <1>4
  <2>2. raw \in Nat /\ -amount * Precision <= price * raw
    BY <2>1, CeilQuotient
  <2> HIDE DEF raw
  <2>3. (-raw) * price = -(price * raw) /\ -amount * Precision = -(amount * Precision)
    BY <1>1, <2>2
  <2>4. SupplyDelta(pos, amount, price) = -raw /\ Unit(pos, price) = price
    BY <1>4 DEF SupplyDelta, Unit, raw
  <2>5. price * raw \in Int /\ amount * Precision \in Int
    BY <1>1, <2>2
  <2> QED BY <2>2, <2>3, <2>4, <2>5
<1> QED BY <1>1, <1>2, <1>3, <1>4

(* Borrows round up and paybacks down.                                     *)
LEMMA BorrowDeltaFavoursLayer ==
  ASSUME NEW pos \in BorrowPosition, NEW amount \in Int, NEW price \in Nat \ {0}
  PROVE  BorrowDelta(pos, amount, price) * Unit(pos, price) >= amount * Precision
<1>1. pos.with_interest \in BOOLEAN /\ Precision \in Nat \ {0}
  BY Constants DEF BorrowPosition
<1>2. CASE ~pos.with_interest
  BY <1>1, <1>2 DEF BorrowDelta, Unit
<1>3. CASE pos.with_interest /\ amount > 0
  <2> DEFINE raw == DivCeil(amount * Precision, price)
  <2>1. amount * Precision \in Nat
    BY <1>1, <1>3
  <2>2. raw \in Nat /\ amount * Precision <= price * raw
    BY <2>1, CeilQuotient
  <2> HIDE DEF raw
  <2>3. raw * price = price * raw
    BY <2>2
  <2>4. BorrowDelta(pos, amount, price) = raw /\ Unit(pos, price) = price
    BY <1>3 DEF BorrowDelta, Unit, raw
  <2> QED BY <2>2, <2>3, <2>4
<1>4. CASE pos.with_interest /\ amount <= 0
  <2> DEFINE raw == (-amount * Precision) \div price
  <2>1. -amount * Precision \in Nat
    BY <1>1, <1>4
  <2>2. raw \in Nat /\ price * raw <= -amount * Precision
    BY <2>1, Quotient
  <2> HIDE DEF raw
  <2>3. (-raw) * price = -(price * raw) /\ -amount * Precision = -(amount * Precision)
    BY <1>1, <2>2
  <2>4. BorrowDelta(pos, amount, price) = -raw /\ Unit(pos, price) = price
    BY <1>4 DEF BorrowDelta, Unit, raw
  <2>5. price * raw \in Int /\ amount * Precision \in Int
    BY <1>1, <2>2
  <2> QED BY <2>2, <2>3, <2>4, <2>5
<1> QED BY <1>1, <1>2, <1>3, <1>4

(* A change of mode converts a supply down and a debt up.                  *)
LEMMA ConversionFavoursLayer ==
  ASSUME NEW amount \in Nat, NEW price \in Nat \ {0}
  PROVE  /\ ToMode(amount, 1, price) * price <= amount * Precision
         /\ ToModeCeil(amount, 1, price) * price >= amount * Precision
         /\ \A mode : mode # 1 => /\ ToMode(amount, mode, price) * Precision <= amount * price
                                  /\ ToModeCeil(amount, mode, price) * Precision >= amount * price
<1>1. Precision \in Nat \ {0} /\ amount * Precision \in Nat /\ amount * price \in Nat
  BY Constants
<1>2. \A x \in Nat, y \in Nat \ {0} : (x \div y) * y <= x /\ DivCeil(x, y) * y >= x
  <2> SUFFICES ASSUME NEW x \in Nat, NEW y \in Nat \ {0}
               PROVE  (x \div y) * y <= x /\ DivCeil(x, y) * y >= x
    OBVIOUS
  <2>1. x \div y \in Nat /\ y * (x \div y) <= x /\ DivCeil(x, y) \in Nat /\ x <= y * DivCeil(x, y)
    BY Quotient, CeilQuotient
  <2>2. \A q \in Nat : q * y = y * q
    OBVIOUS
  <2> QED BY <2>1, <2>2
<1> QED BY <1>1, <1>2 DEF ToMode, ToModeCeil

-----------------------------------------------------------------------------
(* Cover at the prices accrued up to now, stored or not.                   *)

AccruedPrices == CalculateExchangePrices(reserve, now)

CoveredNow ==
  vault * Precision + ScaledBorrow(reserve, AccruedPrices.borrow)
    >= ScaledSupply(reserve, AccruedPrices.supply)
         + reserve.total_claim_amount * Precision + InFlight * Precision

InteractionPast == interacting.timestamp <= now

SolvencyInv == BooksInv /\ CachedRateCurrent /\ InteractionPast

LEMMA SolvencyTyped ==
  ASSUME TypeInv
  PROVE  /\ vault \in Nat /\ reserve.total_claim_amount \in Nat /\ InFlight \in Nat
         /\ AccruedPrices.supply \in Nat \ {0} /\ AccruedPrices.borrow \in Nat \ {0}
         /\ reserve.supply_exchange_price \in Nat \ {0}
         /\ reserve.borrow_exchange_price \in Nat \ {0}
         /\ interacting.balance \in Nat /\ interacting.timestamp \in Nat
         /\ interacting.protocol \in Protocols \cup {NoProtocol}
<1>1. /\ vault \in Nat /\ reserve.total_claim_amount \in Nat
      /\ reserve.supply_exchange_price \in Nat \ {0}
      /\ reserve.borrow_exchange_price \in Nat \ {0}
  BY Unpacked, Constants DEF Amount, LooseReserve
<1>2. /\ interacting.balance \in Nat /\ interacting.timestamp \in Nat
      /\ interacting.protocol \in Protocols \cup {NoProtocol}
  BY Unpacked, Constants DEF Interaction, Amount
<1>3. InFlight \in Nat
  BY <1>1, <1>2 DEF InFlight, SaturatingSub
<1>4. AccruedPrices.supply \in Nat \ {0} /\ AccruedPrices.borrow \in Nat \ {0}
  BY Unpacked DEF AccruedPrices
<1> QED BY <1>1, <1>2, <1>3, <1>4

LEMMA CoverAccrues ==
  ASSUME SolvencyInv, InterestOnly, Covered
  PROVE  CoveredNow
<1>1. TypeInv /\ CachedRateCurrent
  BY DEF SolvencyInv, BooksInv, LimitInv
<1> DEFINE sp == reserve.supply_exchange_price
           bp == reserve.borrow_exchange_price
           owedNow == ScaledSupply(reserve, AccruedPrices.supply)
           owed == ScaledSupply(reserve, sp)
           lentNow == ScaledBorrow(reserve, AccruedPrices.borrow)
           lent == ScaledBorrow(reserve, bp)
           held == vault * Precision
           claims == reserve.total_claim_amount * Precision
           coming == InFlight * Precision
<1>2. owedNow + lent <= owed + lentNow
  <2>1. reserve \in LooseReserve /\ now \in Nat /\ reserve.last_update_timestamp <= now
    BY <1>1, Unpacked
  <2>2. InterestBearing(reserve)
    BY DEF InterestOnly, InterestBearing
  <2>3. reserve.last_utilization = CalcUtilization(reserve, StoredPrices(reserve))
    BY <1>1 DEF CachedRateCurrent
  <2> QED BY <2>1, <2>2, <2>3, AccrualCovered DEF AccruedPrices
<1>3. owedNow \in Nat /\ owed \in Nat /\ lentNow \in Nat /\ lent \in Nat
  BY <1>1, Unpacked, SolvencyTyped, ScaledNatural
<1>4. held \in Nat /\ claims \in Nat /\ coming \in Nat
  BY <1>1, SolvencyTyped, Constants
<1>5. held + lent >= owed + claims + coming
  BY DEF Covered, Backing, Owed
<1> HIDE DEF owedNow, owed, lentNow, lent, held, claims, coming
<1>6. held + lentNow >= owedNow + claims + coming
  BY <1>2, <1>3, <1>4, <1>5
<1> QED BY <1>6 DEF CoveredNow, owedNow, lentNow, held, claims, coming

(* A refresh stores the accrued prices, so cover at them is cover.         *)
LEMMA CoverStored ==
  ASSUME TypeInv, ReserveRewritten,
         vault' * Precision + ScaledBorrow(reserve', AccruedPrices.borrow)
           >= ScaledSupply(reserve', AccruedPrices.supply)
                + reserve'.total_claim_amount * Precision + InFlight' * Precision
  PROVE  Covered'
<1>1. StoredPrices(reserve') = AccruedPrices
  BY RewrittenPrices DEF AccruedPrices
<1>2. /\ reserve'.supply_exchange_price = AccruedPrices.supply
      /\ reserve'.borrow_exchange_price = AccruedPrices.borrow
  BY <1>1 DEF StoredPrices
<1> HIDE DEF AccruedPrices
<1> QED BY <1>2 DEF Covered, Backing, Owed

(* Instructions that only refresh the reserve.                             *)
LEMMA RefreshesCovered ==
  ASSUME SolvencyInv, CoveredNow,
         \/ UpdateExchangePrice
         \/ \E signer \in Accounts, d \in RateDataV1 : UpdateRateDataV1(signer, d)
         \/ \E signer \in Accounts, d \in RateDataV2 : UpdateRateDataV2(signer, d)
         \/ \E signer \in Accounts, c \in TokenConfigs : UpdateTokenConfig(signer, c)
  PROVE  Covered'
<1>1. TypeInv
  BY DEF SolvencyInv, BooksInv, LimitInv
<1>2. SameTotals(reserve', reserve) /\ ReserveRewritten
  BY <1>1, ReserveStepsKeepTotals, ReserveStepsRewrite
<1>3. UNCHANGED <<vault, interacting, now>>
  BY DEF UpdateExchangePrice, UpdateRateDataV1, UpdateRateDataV2, InstallCurve, UpdateTokenConfig
<1>4. InFlight' = InFlight
  BY <1>3 DEF InFlight
<1>5. /\ ScaledBorrow(reserve', AccruedPrices.borrow) = ScaledBorrow(reserve, AccruedPrices.borrow)
      /\ ScaledSupply(reserve', AccruedPrices.supply) = ScaledSupply(reserve, AccruedPrices.supply)
      /\ reserve'.total_claim_amount = reserve.total_claim_amount
  BY <1>2, ScaledByTotals DEF SameTotals
<1> QED BY <1>1, <1>2, <1>3, <1>4, <1>5, CoverStored DEF CoveredNow

-----------------------------------------------------------------------------
(* operate.                                                                *)

LEMMA OperateSupplies ==
  ASSUME TypeInv, TypeInv', SuppliesMatch, SuppliesMatch',
         NEW p \in Protocols, NEW supply \in Int, NEW borrow \in Int,
         NEW wto \in Recipients, NEW bto \in Recipients, NEW type,
         Operate(p, supply, borrow, wto, bto, type)
  PROVE  ScaledSupply(reserve', AccruedPrices.supply)
           <= ScaledSupply(reserve, AccruedPrices.supply) + supply * Precision
<1> DEFINE price == AccruedPrices.supply
           old == supplyPos[p]
           delta == SupplyDelta(old, supply, price)
           new == IF supply = 0 THEN old ELSE SupplyOrWithdraw(old, supply, price, now)
<1>1. supply \in Int /\ price \in Nat \ {0} /\ old \in SupplyPosition
  BY SolvencyTyped, Unpacked
<1>2. old.amount \in Nat /\ old.with_interest \in BOOLEAN
  BY <1>1, Constants DEF SupplyPosition
<1>3. delta \in Int /\ delta * Unit(old, price) <= supply * Precision
  BY <1>1, SupplyDeltaInteger, SupplyDeltaFavoursLayer
<1>4. supply # 0 => old.amount + delta \in 0..U64_MAX
  BY DEF Operate, SupplyOrWithdrawAllowed, AccruedPrices
<1>5. supplyPos' = [supplyPos EXCEPT ![p] = new]
  <2>1. supplyPos' = IF supply = 0 THEN supplyPos
                     ELSE [supplyPos EXCEPT ![p] = SupplyOrWithdraw(old, supply, price, now)]
    BY DEF Operate, AccruedPrices
  <2>2. supplyPos = [supplyPos EXCEPT ![p] = old]
    BY Unpacked
  <2> QED BY <2>1, <2>2
<1>6. supply # 0 => new.amount = old.amount + delta /\ new.with_interest = old.with_interest
  BY <1>1 DEF SupplyOrWithdraw, SupplyPosition
<1> HIDE DEF delta, price
<1>7. supply = 0 => new = old
  OBVIOUS
<1> HIDE DEF new, old
<1>8. new.amount \in Nat /\ new.with_interest \in BOOLEAN
  BY <1>2, <1>3, <1>4, <1>6, <1>7, Constants
<1>9. Unit(old, price) \in Nat /\ Worth(old, price) \in Nat /\ supply * Precision \in Int
  BY <1>1, <1>2, WorthNatural, Constants
<1>10. Worth(new, price) <= Worth(old, price) + supply * Precision
  <2>1. CASE supply = 0
    <3>1. supply * Precision = 0
      BY <2>1, Constants
    <3> QED BY <1>7, <1>9, <2>1, <3>1
  <2>2. CASE supply # 0
    <3>1. Unit(new, price) = Unit(old, price)
      BY <1>6, <2>2 DEF Unit
    <3>2. (old.amount + delta) * Unit(old, price) = old.amount * Unit(old, price) + delta * Unit(old, price)
      BY <1>2, <1>3, <1>9
    <3>3. Worth(new, price) = Worth(old, price) + delta * Unit(old, price)
      BY <1>6, <2>2, <3>1, <3>2 DEF Worth
    <3>4. delta * Unit(old, price) \in Int
      BY <1>3, <1>9
    <3> QED BY <1>3, <1>9, <3>3, <3>4
  <2> QED BY <2>1, <2>2
<1>11. ScaledSupply(reserve', price) = ScaledSupply(reserve, price) - Worth(old, price) + Worth(new, price)
  BY <1>1, <1>5, <1>8, ScaledSupplyMoves DEF old
<1>12. ScaledSupply(reserve, price) \in Nat /\ Worth(new, price) \in Nat
  BY <1>1, <1>8, Unpacked, ScaledNatural, WorthNatural
<1> QED BY <1>9, <1>10, <1>11, <1>12 DEF price

LEMMA OperateBorrows ==
  ASSUME TypeInv, TypeInv', BorrowsMatch, BorrowsMatch',
         NEW p \in Protocols, NEW supply \in Int, NEW borrow \in Int,
         NEW wto \in Recipients, NEW bto \in Recipients, NEW type,
         Operate(p, supply, borrow, wto, bto, type)
  PROVE  ScaledBorrow(reserve', AccruedPrices.borrow)
           >= ScaledBorrow(reserve, AccruedPrices.borrow) + borrow * Precision
<1> DEFINE price == AccruedPrices.borrow
           old == borrowPos[p]
           delta == BorrowDelta(old, borrow, price)
           new == IF borrow = 0 THEN old ELSE BorrowOrPayback(old, borrow, price, now)
<1>1. borrow \in Int /\ price \in Nat \ {0} /\ old \in BorrowPosition
  BY SolvencyTyped, Unpacked
<1>2. old.amount \in Nat /\ old.with_interest \in BOOLEAN
  BY <1>1, Constants DEF BorrowPosition
<1>3. delta \in Int /\ delta * Unit(old, price) >= borrow * Precision
  BY <1>1, BorrowDeltaInteger, BorrowDeltaFavoursLayer
<1>4. borrow # 0 => old.amount + delta \in 0..U64_MAX
  BY DEF Operate, BorrowOrPaybackAllowed, AccruedPrices
<1>5. borrowPos' = [borrowPos EXCEPT ![p] = new]
  <2>1. borrowPos' = IF borrow = 0 THEN borrowPos
                     ELSE [borrowPos EXCEPT ![p] = BorrowOrPayback(old, borrow, price, now)]
    BY DEF Operate, AccruedPrices
  <2>2. borrowPos = [borrowPos EXCEPT ![p] = old]
    BY Unpacked
  <2> QED BY <2>1, <2>2
<1>6. borrow # 0 => new.amount = old.amount + delta /\ new.with_interest = old.with_interest
  BY <1>1 DEF BorrowOrPayback, BorrowPosition
<1> HIDE DEF delta, price
<1>7. borrow = 0 => new = old
  OBVIOUS
<1> HIDE DEF new, old
<1>8. new.amount \in Nat /\ new.with_interest \in BOOLEAN
  BY <1>2, <1>3, <1>4, <1>6, <1>7, Constants
<1>9. Unit(old, price) \in Nat /\ Worth(old, price) \in Nat /\ borrow * Precision \in Int
  BY <1>1, <1>2, WorthNatural, Constants
<1>10. Worth(new, price) >= Worth(old, price) + borrow * Precision
  <2>1. CASE borrow = 0
    <3>1. borrow * Precision = 0
      BY <2>1, Constants
    <3> QED BY <1>7, <1>9, <2>1, <3>1
  <2>2. CASE borrow # 0
    <3>1. Unit(new, price) = Unit(old, price)
      BY <1>6, <2>2 DEF Unit
    <3>2. (old.amount + delta) * Unit(old, price) = old.amount * Unit(old, price) + delta * Unit(old, price)
      BY <1>2, <1>3, <1>9
    <3>3. Worth(new, price) = Worth(old, price) + delta * Unit(old, price)
      BY <1>6, <2>2, <3>1, <3>2 DEF Worth
    <3>4. delta * Unit(old, price) \in Int
      BY <1>3, <1>9
    <3> QED BY <1>3, <1>9, <3>3, <3>4
  <2> QED BY <2>1, <2>2
<1>11. ScaledBorrow(reserve', price) = ScaledBorrow(reserve, price) - Worth(old, price) + Worth(new, price)
  BY <1>1, <1>5, <1>8, ScaledBorrowMoves DEF old
<1>12. ScaledBorrow(reserve, price) \in Nat /\ Worth(new, price) \in Nat
  BY <1>1, <1>8, Unpacked, ScaledNatural, WorthNatural
<1> QED BY <1>9, <1>10, <1>11, <1>12 DEF price

(* What an operate accounts for arrived since its own pre_operate and is   *)
(* in flight no longer; what it pays out leaves the vault or is reserved.  *)
LEMMA OperateCovered ==
  ASSUME SolvencyInv, BooksInv', CoveredNow,
         NEW p \in Protocols, NEW supply \in Int, NEW borrow \in Int,
         NEW wto \in Recipients, NEW bto \in Recipients, NEW type,
         Operate(p, supply, borrow, wto, bto, type)
  PROVE  Covered'
<1>1. TypeInv /\ TypeInv' /\ SuppliesMatch /\ SuppliesMatch' /\ BorrowsMatch /\ BorrowsMatch'
  BY DEF SolvencyInv, BooksInv, LimitInv
<1> DEFINE out == Positive(-supply) + Positive(borrow)
           in == Positive(supply) + Positive(-borrow)
           owed == ScaledSupply(reserve, AccruedPrices.supply)
           lent == ScaledBorrow(reserve, AccruedPrices.borrow)
           owedAfter == ScaledSupply(reserve', AccruedPrices.supply)
           lentAfter == ScaledBorrow(reserve', AccruedPrices.borrow)
           claims == reserve.total_claim_amount
           claimsAfter == reserve'.total_claim_amount
<1>2. supply \in Int /\ borrow \in Int
  OBVIOUS
<1>3. in \in Nat /\ out \in Nat /\ borrow - supply = out - in
  BY <1>2 DEF Positive
<1>4. InFlight' = 0
  <2>1. interacting' = NoInteraction
    BY DEF Operate
  <2> QED BY <2>1 DEF InFlight, NoInteraction
<1>5. InFlight >= in
  <2>1. in > 0 => AmountArrived(p, in)
    BY DEF Operate
  <2>2. CASE in = 0
    BY <1>1, <2>2, SolvencyTyped
  <2>3. CASE in # 0
    <3>1. /\ interacting.protocol = p /\ interacting.timestamp = now
          /\ vault - interacting.balance >= in
      BY <1>3, <2>1, <2>3 DEF AmountArrived
    <3>2. p # NoProtocol
      BY LiquidityAssumption DEF LiquidityAssumption
    <3>3. vault > interacting.balance
      BY <1>1, <1>3, <2>3, <3>1, SolvencyTyped
    <3>4. InFlight = vault - interacting.balance
      BY <3>1, <3>2, <3>3 DEF InFlight, SaturatingSub
    <3> QED BY <3>1, <3>4
  <2> QED BY <2>2, <2>3
<1>6. owedAfter <= owed + supply * Precision /\ lentAfter >= lent + borrow * Precision
  BY <1>1, OperateSupplies, OperateBorrows
<1>7. vault' - claimsAfter = vault - claims - out
  <2>1. claimsAfter = claims + IF type = "CLAIM" THEN out ELSE 0
    BY <1>1, OperateReserves
  <2>2. vault' = IF type = "CLAIM" THEN vault ELSE vault - out
    BY DEF Operate
  <2>3. vault \in Nat /\ claims \in Nat
    BY <1>1, SolvencyTyped
  <2> HIDE DEF out, claims, claimsAfter
  <2> QED BY <1>3, <2>1, <2>2, <2>3
<1>8. /\ vault \in Nat /\ claims \in Nat /\ InFlight \in Nat
      /\ vault' \in Nat /\ claimsAfter \in Nat
      /\ owed \in Nat /\ lent \in Nat /\ owedAfter \in Nat /\ lentAfter \in Nat
  <2>1. vault' \in Nat /\ claimsAfter \in Nat /\ reserve' \in LooseReserve
    BY <1>1, Constants, Loosened DEF TypeInv, TypeOK, Reserve, Amount
  <2> QED BY <1>1, <2>1, SolvencyTyped, Unpacked, ScaledNatural
<1>9. vault * Precision + lent >= owed + claims * Precision + InFlight * Precision
  BY DEF CoveredNow
<1> HIDE DEF in, out, owed, lent, owedAfter, lentAfter, claims, claimsAfter
<1>10. vault' * Precision + lentAfter >= owedAfter + claimsAfter * Precision
  <2>1. Precision \in Nat
    BY Constants
  <2>2. /\ vault' * Precision - claimsAfter * Precision
             = vault * Precision - claims * Precision - out * Precision
        /\ borrow * Precision - supply * Precision = out * Precision - in * Precision
    <3>1. /\ (vault' - claimsAfter) * Precision = vault' * Precision - claimsAfter * Precision
          /\ (vault - claims - out) * Precision
               = vault * Precision - claims * Precision - out * Precision
          /\ (borrow - supply) * Precision = borrow * Precision - supply * Precision
          /\ (out - in) * Precision = out * Precision - in * Precision
      BY <1>2, <1>3, <1>8, <2>1
    <3> QED BY <1>3, <1>7, <3>1
  <2>3. InFlight * Precision >= in * Precision
    BY <1>3, <1>5, <1>8, <2>1, ProductMonotonic
  <2>4. /\ vault' * Precision \in Int /\ claimsAfter * Precision \in Int
        /\ vault * Precision \in Int /\ claims * Precision \in Int
        /\ out * Precision \in Int /\ in * Precision \in Int /\ InFlight * Precision \in Int
        /\ borrow * Precision \in Int /\ supply * Precision \in Int
    BY <1>2, <1>3, <1>8, <2>1
  <2> QED BY <1>6, <1>8, <1>9, <2>2, <2>3, <2>4
<1>11. 0 * Precision = 0 /\ claimsAfter * Precision \in Int /\ owedAfter + claimsAfter * Precision + 0
          = owedAfter + claimsAfter * Precision
  BY <1>8, Constants
<1>12. ReserveRewritten
  BY <1>1, OperateRewrites
<1> QED BY <1>1, <1>4, <1>10, <1>11, <1>12, CoverStored
        DEF owedAfter, lentAfter, claimsAfter

(* Changes of interest mode.                                               *)
LEMMA SwitchCovered ==
  ASSUME SolvencyInv, BooksInv', CoveredNow, NEW signer \in Accounts, NEW p \in Protocols,
         \/ \E c \in UserSupplyConfigs : SwitchSupplyMode(signer, p, c)
         \/ \E c \in UserBorrowConfigs : SwitchBorrowMode(signer, p, c)
  PROVE  Covered'
<1>1. TypeInv /\ TypeInv' /\ SuppliesMatch /\ SuppliesMatch' /\ BorrowsMatch /\ BorrowsMatch'
  BY DEF SolvencyInv, BooksInv, LimitInv
<1> DEFINE owed == ScaledSupply(reserve, AccruedPrices.supply)
           lent == ScaledBorrow(reserve, AccruedPrices.borrow)
           owedAfter == ScaledSupply(reserve', AccruedPrices.supply)
           lentAfter == ScaledBorrow(reserve', AccruedPrices.borrow)
<1>2. owed \in Nat /\ lent \in Nat /\ owedAfter \in Nat /\ lentAfter \in Nat
  <2>1. reserve' \in LooseReserve
    BY <1>1, Loosened DEF TypeInv, TypeOK
  <2> QED BY <1>1, <2>1, SolvencyTyped, Unpacked, ScaledNatural
<1>3. ASSUME NEW c \in UserSupplyConfigs, SwitchSupplyMode(signer, p, c)
      PROVE  owedAfter <= owed /\ lentAfter = lent
  <2> DEFINE price == AccruedPrices.supply
             old == supplyPos[p]
             converted == ConvertedSupply(old, c.mode, price)
             new == WithSupplyConfig(converted, c)
  <2>1. /\ old \in SupplyPosition /\ price \in Nat \ {0} /\ Precision \in Nat \ {0}
        /\ old.amount \in Nat /\ old.with_interest \in BOOLEAN
    BY <1>1, SolvencyTyped, Unpacked, Constants DEF SupplyPosition
  <2>2. /\ old.with_interest # (c.mode = 1)
        /\ supplyPos' = [supplyPos EXCEPT ![p] = new] /\ UNCHANGED borrowPos
    BY <1>3 DEF SwitchSupplyMode, ModeChanges, AccruedPrices
  <2>3. new.amount = ToMode(old.amount, c.mode, price) /\ new.with_interest = (c.mode = 1)
    BY <2>1 DEF WithSupplyConfig, ConvertedSupply, SupplyPosition
  <2>4. new.amount \in Nat /\ new.with_interest \in BOOLEAN
    BY <2>1, <2>3, Converted
  <2>5. Worth(new, price) <= Worth(old, price)
    <3> HIDE DEF new, price, old
    <3>1. CASE c.mode = 1
      BY <2>1, <2>2, <2>3, <3>1, ConversionFavoursLayer DEF Worth, Unit
    <3>2. CASE c.mode # 1
      BY <2>1, <2>2, <2>3, <3>2, ConversionFavoursLayer DEF Worth, Unit
    <3> QED BY <3>1, <3>2
  <2> HIDE DEF new
  <2>6. owedAfter = owed - Worth(old, price) + Worth(new, price)
    <3> HIDE DEF price
    <3>1. ScaledSupply(reserve', price)
            = ScaledSupply(reserve, price) - Worth(old, price) + Worth(new, price)
      BY <1>1, <2>1, <2>2, <2>4, ScaledSupplyMoves
    <3> QED BY <3>1 DEF price
  <2>7. Worth(old, price) \in Nat /\ Worth(new, price) \in Nat
    BY <2>1, <2>4, WorthNatural
  <2>8. lentAfter = lent
    <3> DEFINE debt == borrowPos[p]
    <3>1. borrowPos' = [borrowPos EXCEPT ![p] = debt]
      BY <1>1, <2>2, Unpacked
    <3>2. debt.amount \in Nat /\ debt.with_interest \in BOOLEAN /\ AccruedPrices.borrow \in Nat \ {0}
      BY <1>1, Unpacked, SolvencyTyped, Constants DEF BorrowPosition
    <3>3. Worth(debt, AccruedPrices.borrow) \in Nat
      BY <3>2, WorthNatural
    <3>4. lentAfter = lent - Worth(debt, AccruedPrices.borrow) + Worth(debt, AccruedPrices.borrow)
      BY <1>1, <3>1, <3>2, ScaledBorrowMoves
    <3> QED BY <1>2, <3>3, <3>4
  <2> QED BY <1>2, <2>5, <2>6, <2>7, <2>8
<1>4. ASSUME NEW c \in UserBorrowConfigs, SwitchBorrowMode(signer, p, c)
      PROVE  owedAfter = owed /\ lentAfter >= lent
  <2> DEFINE price == AccruedPrices.borrow
             old == borrowPos[p]
             converted == ConvertedBorrow(old, c.mode, price)
             new == WithBorrowConfig(converted, c)
  <2>1. /\ old \in BorrowPosition /\ price \in Nat \ {0} /\ Precision \in Nat \ {0}
        /\ old.amount \in Nat /\ old.with_interest \in BOOLEAN
    BY <1>1, SolvencyTyped, Unpacked, Constants DEF BorrowPosition
  <2>2. /\ old.with_interest # (c.mode = 1)
        /\ borrowPos' = [borrowPos EXCEPT ![p] = new] /\ UNCHANGED supplyPos
    BY <1>4 DEF SwitchBorrowMode, ModeChanges, AccruedPrices
  <2>3. new.amount = ToModeCeil(old.amount, c.mode, price) /\ new.with_interest = (c.mode = 1)
    BY <2>1 DEF WithBorrowConfig, ConvertedBorrow, BorrowPosition
  <2>4. new.amount \in Nat /\ new.with_interest \in BOOLEAN
    BY <2>1, <2>3, Converted
  <2>5. Worth(new, price) >= Worth(old, price)
    <3> HIDE DEF new, price, old
    <3>1. CASE c.mode = 1
      BY <2>1, <2>2, <2>3, <3>1, ConversionFavoursLayer DEF Worth, Unit
    <3>2. CASE c.mode # 1
      BY <2>1, <2>2, <2>3, <3>2, ConversionFavoursLayer DEF Worth, Unit
    <3> QED BY <3>1, <3>2
  <2> HIDE DEF new
  <2>6. lentAfter = lent - Worth(old, price) + Worth(new, price)
    <3> HIDE DEF price
    <3>1. ScaledBorrow(reserve', price)
            = ScaledBorrow(reserve, price) - Worth(old, price) + Worth(new, price)
      BY <1>1, <2>1, <2>2, <2>4, ScaledBorrowMoves
    <3> QED BY <3>1 DEF price
  <2>7. Worth(old, price) \in Nat /\ Worth(new, price) \in Nat
    BY <2>1, <2>4, WorthNatural
  <2>8. owedAfter = owed
    <3> DEFINE credit == supplyPos[p]
    <3>1. supplyPos' = [supplyPos EXCEPT ![p] = credit]
      BY <1>1, <2>2, Unpacked
    <3>2. credit.amount \in Nat /\ credit.with_interest \in BOOLEAN /\ AccruedPrices.supply \in Nat \ {0}
      BY <1>1, Unpacked, SolvencyTyped, Constants DEF SupplyPosition
    <3>3. Worth(credit, AccruedPrices.supply) \in Nat
      BY <3>2, WorthNatural
    <3>4. owedAfter = owed - Worth(credit, AccruedPrices.supply) + Worth(credit, AccruedPrices.supply)
      BY <1>1, <3>1, <3>2, ScaledSupplyMoves
    <3> QED BY <1>2, <3>3, <3>4
  <2> QED BY <1>2, <2>5, <2>6, <2>7, <2>8
<1>5. owedAfter <= owed /\ lentAfter >= lent
  BY <1>2, <1>3, <1>4
<1>6. UNCHANGED <<vault, interacting, now>>
  BY DEF SwitchSupplyMode, SwitchBorrowMode
<1>7. InFlight' = InFlight
  BY <1>6 DEF InFlight
<1>8. reserve'.total_claim_amount = reserve.total_claim_amount /\ ReserveRewritten
  BY <1>1, SwitchKeepsClaims, SwitchRewrites
<1>9. /\ vault * Precision \in Int /\ reserve.total_claim_amount * Precision \in Int
      /\ InFlight * Precision \in Int
  BY <1>1, SolvencyTyped, Constants
<1>10. vault * Precision + lent
         >= owed + reserve.total_claim_amount * Precision + InFlight * Precision
  BY DEF CoveredNow
<1> HIDE DEF owed, lent, owedAfter, lentAfter
<1>11. vault * Precision + lentAfter
         >= owedAfter + reserve.total_claim_amount * Precision + InFlight * Precision
  BY <1>2, <1>5, <1>9, <1>10
<1> QED BY <1>1, <1>6, <1>7, <1>8, <1>11, CoverStored DEF owedAfter, lentAfter

-----------------------------------------------------------------------------
(* Instructions that move tokens and leave the positions alone.            *)

(* Revenue is no more than what vault and debts exceed supply and claims   *)
(* by: the total supply is rounded up and the total borrow down.           *)
LEMMA RevenueWithinSurplus ==
  ASSUME TypeInv, CoveredNow
  PROVE  /\ CalcRevenue(reserve, vault, now) \in Nat
         /\ vault * Precision + ScaledBorrow(reserve, AccruedPrices.borrow)
              >= ScaledSupply(reserve, AccruedPrices.supply)
                   + reserve.total_claim_amount * Precision
                   + CalcRevenue(reserve, vault, now) * Precision
<1> DEFINE revenue == CalcRevenue(reserve, vault, now)
           supply == TotalSupplyCeil(reserve, AccruedPrices.supply)
           borrow == TotalBorrow(reserve, AccruedPrices.borrow)
           owed == ScaledSupply(reserve, AccruedPrices.supply)
           lent == ScaledBorrow(reserve, AccruedPrices.borrow)
           claims == reserve.total_claim_amount
<1>1. /\ vault \in Nat /\ claims \in Nat /\ InFlight \in Nat /\ Precision \in Nat \ {0}
      /\ AccruedPrices.supply \in Nat \ {0} /\ AccruedPrices.borrow \in Nat \ {0}
      /\ owed \in Nat /\ lent \in Nat
  BY SolvencyTyped, Unpacked, ScaledNatural, Constants
<1>2. /\ reserve.total_supply_with_interest \in Nat /\ reserve.total_supply_interest_free \in Nat
      /\ reserve.total_borrow_with_interest \in Nat /\ reserve.total_borrow_interest_free \in Nat
  BY Unpacked DEF LooseReserve
<1>3. supply \in Nat /\ supply * Precision >= owed
  <2> DEFINE scaled == reserve.total_supply_with_interest * AccruedPrices.supply
             free == reserve.total_supply_interest_free
             bearing == DivCeil(scaled, Precision)
  <2>1. scaled \in Nat
    BY <1>1, <1>2
  <2> HIDE DEF scaled
  <2>2. bearing \in Nat /\ scaled <= Precision * bearing
    BY <1>1, <2>1, CeilQuotient
  <2>3. supply = free + bearing /\ owed = scaled + free * Precision
    BY DEF TotalSupplyCeil, ScaledSupply, scaled
  <2> HIDE DEF bearing, free, supply, owed
  <2>4. free \in Nat
    BY <1>2 DEF free
  <2>5. (free + bearing) * Precision = free * Precision + Precision * bearing
    BY <1>1, <2>2, <2>4
  <2>6. free * Precision \in Nat /\ Precision * bearing \in Nat
    BY <1>1, <2>2, <2>4
  <2> QED BY <2>1, <2>2, <2>3, <2>4, <2>5, <2>6
<1>4. borrow \in Nat /\ borrow * Precision <= lent
  <2> DEFINE scaled == reserve.total_borrow_with_interest * AccruedPrices.borrow
             free == reserve.total_borrow_interest_free
             bearing == scaled \div Precision
  <2>1. scaled \in Nat
    BY <1>1, <1>2
  <2> HIDE DEF scaled
  <2>2. bearing \in Nat /\ Precision * bearing <= scaled
    BY <1>1, <2>1, Quotient
  <2>3. borrow = free + bearing /\ lent = scaled + free * Precision
    BY DEF TotalBorrow, ScaledBorrow, scaled
  <2> HIDE DEF bearing, free, borrow, lent
  <2>4. free \in Nat
    BY <1>2 DEF free
  <2>5. (free + bearing) * Precision = free * Precision + Precision * bearing
    BY <1>1, <2>2, <2>4
  <2>6. free * Precision \in Nat /\ Precision * bearing \in Nat
    BY <1>1, <2>2, <2>4
  <2> QED BY <2>1, <2>2, <2>3, <2>4, <2>5, <2>6
<1>5. revenue = IF supply > 0
                THEN SaturatingSub(SaturatingSub(vault + borrow, claims), supply)
                ELSE SaturatingSub(vault, claims)
  BY DEF CalcRevenue, AccruedPrices
<1>6. vault * Precision + lent >= owed + claims * Precision + InFlight * Precision
  BY DEF CoveredNow
<1> HIDE DEF revenue, supply, borrow, owed, lent, claims
<1>7. /\ vault * Precision \in Nat /\ claims * Precision \in Nat /\ InFlight * Precision \in Nat
      /\ supply * Precision \in Nat /\ borrow * Precision \in Nat
  BY <1>1, <1>3, <1>4
<1>8. CASE revenue = 0
  <2>1. revenue * Precision = 0
    BY <1>1, <1>8
  <2> QED BY <1>1, <1>6, <1>7, <1>8, <2>1 DEF revenue, owed, lent, claims
<1>9. CASE revenue # 0 /\ supply > 0
  <2>1. revenue = vault + borrow - claims - supply /\ revenue \in Nat
    BY <1>1, <1>3, <1>4, <1>5, <1>9 DEF SaturatingSub
  <2>2. (vault + borrow - claims - supply) * Precision
          = vault * Precision + borrow * Precision - claims * Precision - supply * Precision
    BY <1>1, <1>3, <1>4
  <2>3. vault * Precision + lent >= owed + claims * Precision + revenue * Precision
    BY <1>1, <1>3, <1>4, <1>7, <2>1, <2>2
  <2> QED BY <2>1, <2>3 DEF revenue, owed, lent, claims
<1>10. CASE revenue # 0 /\ ~(supply > 0)
  <2>1. revenue = vault - claims /\ revenue \in Nat
    BY <1>1, <1>5, <1>10 DEF SaturatingSub
  <2>2. (vault - claims) * Precision = vault * Precision - claims * Precision
    BY <1>1
  <2>3. supply * Precision = 0
    BY <1>1, <1>3, <1>10
  <2>4. vault * Precision + lent >= owed + claims * Precision + revenue * Precision
    BY <1>1, <1>3, <1>7, <2>1, <2>2, <2>3
  <2> QED BY <2>1, <2>4 DEF revenue, owed, lent, claims
<1> QED BY <1>8, <1>9, <1>10

LEMMA CollectionCovered ==
  ASSUME TypeInv, Covered, NEW signer \in Accounts, CollectRevenue(signer),
         reserve.last_update_timestamp = now
  PROVE  Covered'
<1> DEFINE revenue == CalcRevenue(reserve, vault, now)
           owed == ScaledSupply(reserve, reserve.supply_exchange_price)
           lent == ScaledBorrow(reserve, reserve.borrow_exchange_price)
           claims == reserve.total_claim_amount
<1>1. /\ AccruedPrices.supply = reserve.supply_exchange_price
      /\ AccruedPrices.borrow = reserve.borrow_exchange_price
  BY Unpacked, NoTimeNoInterest DEF AccruedPrices, StoredPrices
<1>2. CoveredNow
  BY <1>1 DEF CoveredNow, Covered, Backing, Owed
<1>3. revenue \in Nat /\ vault * Precision + lent >= owed + claims * Precision + revenue * Precision
  BY <1>1, <1>2, RevenueWithinSurplus
<1>4. /\ vault \in Nat /\ claims \in Nat /\ InFlight \in Nat /\ Precision \in Nat
      /\ interacting.balance \in Nat /\ owed \in Nat /\ lent \in Nat
  BY SolvencyTyped, Unpacked, ScaledNatural, Constants
<1>5. vault' = vault - revenue /\ revenue <= vault /\ UNCHANGED <<reserve, interacting, now>>
  BY DEF CollectRevenue
<1>6. vault * Precision + lent >= owed + claims * Precision + InFlight * Precision
  BY DEF Covered, Backing, Owed
<1> HIDE DEF revenue, owed, lent, claims
<1>7. vault' \in Nat /\ vault' * Precision = vault * Precision - revenue * Precision
  BY <1>3, <1>4, <1>5
<1>8. InFlight' = 0 \/ InFlight' = InFlight - revenue
  BY <1>3, <1>4, <1>5 DEF InFlight, SaturatingSub
<1> DEFINE held == vault'
           coming == InFlight'
           flying == InFlight
<1> HIDE DEF held, coming, flying
<1>9. /\ vault * Precision \in Nat /\ claims * Precision \in Nat /\ revenue * Precision \in Nat
      /\ flying \in Nat /\ flying * Precision \in Nat /\ held \in Nat /\ held * Precision \in Nat
  <2>1. flying \in Nat /\ held \in Nat
    BY <1>4, <1>7 DEF flying, held
  <2> QED BY <1>3, <1>4, <2>1
<1>10. held * Precision + lent >= owed + claims * Precision + coming * Precision
  <2>1. held * Precision = vault * Precision - revenue * Precision
    BY <1>7 DEF held
  <2>2. CASE coming = 0
    <3>1. coming * Precision = 0
      BY <1>4, <2>2
    <3> QED BY <1>3, <1>4, <1>9, <2>1, <3>1
  <2>3. CASE coming = flying - revenue
    <3>1. coming * Precision = flying * Precision - revenue * Precision
      BY <1>3, <1>4, <1>9, <2>3
    <3>2. vault * Precision + lent >= owed + claims * Precision + flying * Precision
      BY <1>6 DEF flying
    <3> QED BY <1>4, <1>9, <2>1, <3>1, <3>2
  <2> QED BY <1>8, <2>2, <2>3 DEF coming, flying
<1> QED BY <1>5, <1>10 DEF Covered, Backing, Owed, owed, lent, claims, held, coming

(* Tokens that arrive are in flight at most; a claim takes from the vault  *)
(* what was reserved for it; a pre_operate and a new second put an end to  *)
(* what was in flight.                                                     *)
LEMMA TransfersCovered ==
  ASSUME TypeInv, Covered, \E amount \in Nat : TransferIn(amount)
  PROVE  Covered'
<1>1. PICK amount \in Nat : TransferIn(amount)
  OBVIOUS
<1> DEFINE owed == Owed
           lent == ScaledBorrow(reserve, reserve.borrow_exchange_price)
<1>2. amount \in Nat /\ vault \in Nat /\ InFlight \in Nat /\ Precision \in Nat
      /\ interacting.balance \in Nat
  BY SolvencyTyped, Constants
<1>3. owed \in Nat /\ lent \in Nat
  BY SolvencyTyped, Unpacked, ScaledNatural, Constants DEF Owed
<1>4. vault' = vault + amount /\ UNCHANGED <<reserve, interacting, now>>
  BY <1>1 DEF TransferIn
<1>5. owed' = owed /\ lent' = lent
  BY <1>4 DEF Owed
<1>6. vault * Precision + lent >= owed + InFlight * Precision
  BY DEF Covered, Backing
<1>7. InFlight' \in Nat /\ InFlight' <= InFlight + amount
  BY <1>2, <1>4 DEF InFlight, SaturatingSub
<1> HIDE DEF owed, lent
<1> DEFINE coming == InFlight'
           flying == InFlight
<1>8. /\ coming \in Nat /\ flying \in Nat /\ coming <= flying + amount
      /\ vault * Precision + lent >= owed + flying * Precision
  BY <1>2, <1>6, <1>7
<1> HIDE DEF coming, flying
<1>9. coming * Precision <= (flying + amount) * Precision
  BY <1>2, <1>8, ProductMonotonic
<1>10. /\ (flying + amount) * Precision = flying * Precision + amount * Precision
       /\ (vault + amount) * Precision = vault * Precision + amount * Precision
       /\ flying * Precision \in Nat /\ amount * Precision \in Nat /\ vault * Precision \in Nat
       /\ coming * Precision \in Nat
  BY <1>2, <1>8
<1>11. (vault + amount) * Precision + lent >= owed + coming * Precision
  BY <1>3, <1>8, <1>9, <1>10
<1> QED BY <1>4, <1>5, <1>11 DEF Covered, Backing, owed, lent, coming

LEMMA ClaimCovered ==
  ASSUME TypeInv, Covered, NEW user \in Recipients, Claim(user)
  PROVE  Covered'
<1> DEFINE amount == claimAmount[user]
           owed == ScaledSupply(reserve, reserve.supply_exchange_price)
           lent == ScaledBorrow(reserve, reserve.borrow_exchange_price)
           claims == reserve.total_claim_amount
<1>1. /\ amount \in Nat /\ vault \in Nat /\ InFlight \in Nat /\ Precision \in Nat
      /\ interacting.balance \in Nat /\ claims \in Nat /\ owed \in Nat /\ lent \in Nat
  BY SolvencyTyped, Unpacked, ScaledNatural, Constants
<1>2. /\ amount <= claims /\ amount <= vault /\ vault' = vault - amount
      /\ reserve' = [reserve EXCEPT !.total_claim_amount = claims - amount]
      /\ UNCHANGED <<interacting, now>>
  BY DEF Claim
<1>3. /\ ScaledSupply(reserve', reserve'.supply_exchange_price) = owed
      /\ ScaledBorrow(reserve', reserve'.borrow_exchange_price) = lent
      /\ reserve'.total_claim_amount = claims - amount
  BY <1>2, Unpacked DEF LooseReserve, ScaledSupply, ScaledBorrow
<1>4. vault * Precision + lent >= owed + claims * Precision + InFlight * Precision
  BY DEF Covered, Backing, Owed
<1> HIDE DEF amount, owed, lent, claims
<1>5. InFlight' \in Nat /\ InFlight' <= InFlight
  BY <1>1, <1>2 DEF InFlight, SaturatingSub
<1> DEFINE coming == InFlight'
           flying == InFlight
<1>6. /\ coming \in Nat /\ flying \in Nat /\ coming <= flying
      /\ vault * Precision + lent >= owed + claims * Precision + flying * Precision
  BY <1>1, <1>4, <1>5
<1> HIDE DEF coming, flying
<1>7. coming * Precision <= flying * Precision
  BY <1>1, <1>6, ProductMonotonic
<1>8. /\ (vault - amount) * Precision = vault * Precision - amount * Precision
      /\ (claims - amount) * Precision = claims * Precision - amount * Precision
      /\ vault * Precision \in Nat /\ claims * Precision \in Nat /\ amount * Precision \in Nat
      /\ flying * Precision \in Nat /\ coming * Precision \in Nat
  BY <1>1, <1>6
<1>9. (vault - amount) * Precision + lent >= owed + (claims - amount) * Precision + coming * Precision
  BY <1>1, <1>6, <1>7, <1>8
<1> QED BY <1>2, <1>3, <1>9 DEF Covered, Backing, Owed, coming

LEMMA NothingInFlight ==
  ASSUME TypeInv, Covered, UNCHANGED <<vault, reserve>>,
         InFlight' = 0 \/ UNCHANGED <<interacting, now>>
  PROVE  Covered'
<1>1. CASE UNCHANGED <<interacting, now>>
  BY <1>1 DEF Covered, Backing, Owed, InFlight
<1>2. CASE InFlight' = 0
  <2>1. InFlight * Precision \in Nat /\ 0 * Precision = 0
    BY SolvencyTyped, Constants
  <2>2. Backing \in Nat /\ Owed \in Nat
    BY SolvencyTyped, Unpacked, ScaledNatural, Constants DEF Backing, Owed
  <2>3. Backing' = Backing /\ Owed' = Owed
    BY DEF Backing, Owed
  <2>4. Backing >= Owed + InFlight' * Precision
    BY <1>2, <2>1, <2>2 DEF Covered
  <2> QED BY <2>3, <2>4 DEF Covered
<1> QED BY <1>1, <1>2

LEMMA PauseInFlight ==
  ASSUME TypeInv, InteractionPast, Tick \/ \E p \in Protocols : PreOperate(p)
  PROVE  InFlight' = 0 /\ UNCHANGED <<vault, reserve>>
<1>1. /\ vault \in Nat /\ now \in Nat /\ interacting.timestamp \in Nat
  BY SolvencyTyped, Unpacked
<1>2. CASE Tick
  BY <1>1, <1>2 DEF Tick, InFlight, InteractionPast
<1>3. ASSUME NEW p \in Protocols, PreOperate(p) PROVE InFlight' = 0 /\ UNCHANGED <<vault, reserve>>
  BY <1>1, <1>3 DEF PreOperate, InFlight, SaturatingSub
<1> QED BY <1>2, <1>3

-----------------------------------------------------------------------------
(* Every step.                                                             *)

LEMMA SolvencyInit == Init => SolvencyInv
<1>1. Init => CachedRateCurrent
  BY CachedRateInit
<1>2. Init => InteractionPast
  BY DEF Init, NoInteraction, InteractionPast
<1> QED BY <1>1, <1>2, BooksInit DEF SolvencyInv

LEMMA InteractionStep ==
  ASSUME TypeInv, InteractionPast, [LayerNext]_vars
  PROVE  InteractionPast'
<1>1. now \in Nat /\ interacting.timestamp \in Nat /\ interacting.timestamp <= now
  BY SolvencyTyped, Unpacked DEF InteractionPast
<1>2. CASE UNCHANGED <<interacting, now>>
  BY <1>2 DEF InteractionPast
<1>3. CASE interacting' = NoInteraction /\ now' = now
  BY <1>1, <1>3 DEF InteractionPast, NoInteraction
<1>4. CASE Tick
  BY <1>1, <1>4 DEF InteractionPast, Tick
<1>5. ASSUME NEW p \in Protocols, PreOperate(p) PROVE InteractionPast'
  BY <1>1, <1>5 DEF InteractionPast, PreOperate
<1>6. ASSUME NEW p \in Protocols, NEW s \in Int, NEW b \in Int,
             NEW wto \in Recipients, NEW bto \in Recipients, NEW type,
             Operate(p, s, b, wto, bto, type)
      PROVE  InteractionPast'
  BY <1>3, <1>6 DEF Operate
<1>7. ASSUME \/ UNCHANGED vars
             \/ AccessNext /\ UNCHANGED moneyVars
             \/ \E amount \in Nat : TransferIn(amount)
             \/ \E user \in Recipients :
                  InitClaimAccount(user) \/ CloseClaimAccount(user) \/ Claim(user)
             \/ UpdateExchangePrice
      PROVE  UNCHANGED <<interacting, now>>
  BY <1>7 DEF vars, moneyVars, TransferIn, InitClaimAccount, CloseClaimAccount, Claim,
              UpdateExchangePrice
<1>8. ASSUME NEW signer \in Accounts, ReserveAdminNext(signer)
      PROVE  UNCHANGED <<interacting, now>>
  BY <1>8 DEF ReserveAdminNext, CollectRevenue, UpdateRateDataV1, UpdateRateDataV2, InstallCurve,
              UpdateTokenConfig
<1>9. ASSUME NEW signer \in Accounts, PositionAdminNext(signer)
      PROVE  UNCHANGED <<interacting, now>>
  <2>1. \A p \in Protocols, sides \in NonEmptySides :
          InitNewProtocol(signer, p, sides) \/ PauseUser(signer, p, sides)
            \/ UnpauseUser(signer, p, sides) => UNCHANGED <<interacting, now>>
    BY DEF InitNewProtocol, PauseUser, UnpauseUser
  <2>2. \A p \in Protocols, limit \in WithdrawalLimits :
          UpdateUserWithdrawalLimit(signer, p, limit) => UNCHANGED <<interacting, now>>
    BY DEF UpdateUserWithdrawalLimit
  <2>3. \A p \in Protocols, c \in UserSupplyConfigs :
          UpdateUserSupplyConfig(signer, p, c) \/ SwitchSupplyMode(signer, p, c)
            => UNCHANGED <<interacting, now>>
    BY DEF UpdateUserSupplyConfig, SwitchSupplyMode
  <2>4. \A p \in Protocols, c \in UserBorrowConfigs :
          UpdateUserBorrowConfig(signer, p, c) \/ SwitchBorrowMode(signer, p, c)
            => UNCHANGED <<interacting, now>>
    BY DEF UpdateUserBorrowConfig, SwitchBorrowMode
  <2> QED BY <1>9, <2>1, <2>2, <2>3, <2>4 DEF PositionAdminNext
<1> QED BY <1>2, <1>4, <1>5, <1>6, <1>7, <1>8, <1>9 DEF LayerNext

LEMMA SolvencyStep == SolvencyInv /\ [LayerNext]_vars => SolvencyInv'
<1> SUFFICES ASSUME SolvencyInv, [LayerNext]_vars PROVE SolvencyInv'
  OBVIOUS
<1>1. TypeInv /\ BooksInv /\ CachedRateCurrent /\ InteractionPast
  BY DEF SolvencyInv, BooksInv, LimitInv
<1>2. CachedRateCurrent'
  BY <1>1, CachedRateStep
<1> QED BY <1>1, <1>2, BooksStep, InteractionStep DEF SolvencyInv

LEMMA StepsCovered ==
  ASSUME SolvencyInv, SolvencyInv', [LayerNext]_vars, InterestOnly, Covered, ~UnsettledCollection
  PROVE  Covered'
<1>1. TypeInv /\ InteractionPast /\ BooksInv'
  BY DEF SolvencyInv, BooksInv, LimitInv
<1>2. CoveredNow
  BY CoverAccrues
<1>3. ASSUME \/ UNCHANGED vars
             \/ AccessNext /\ UNCHANGED moneyVars
             \/ \E user \in Recipients : InitClaimAccount(user) \/ CloseClaimAccount(user)
             \/ \E signer \in Accounts, p \in Protocols :
                  \/ \E sides \in NonEmptySides : InitNewProtocol(signer, p, sides)
                  \/ \E limit \in WithdrawalLimits : UpdateUserWithdrawalLimit(signer, p, limit)
                  \/ \E c \in UserSupplyConfigs : UpdateUserSupplyConfig(signer, p, c)
                  \/ \E c \in UserBorrowConfigs : UpdateUserBorrowConfig(signer, p, c)
                  \/ \E sides \in NonEmptySides :
                       PauseUser(signer, p, sides) \/ UnpauseUser(signer, p, sides)
      PROVE  Covered'
  <2>1. UNCHANGED <<vault, reserve, interacting, now>>
    BY <1>3 DEF vars, moneyVars, InitClaimAccount, CloseClaimAccount, InitNewProtocol,
                UpdateUserWithdrawalLimit, UpdateUserSupplyConfig, UpdateUserBorrowConfig,
                PauseUser, UnpauseUser
  <2> QED BY <1>1, <2>1, NothingInFlight
<1>4. ASSUME Tick \/ \E p \in Protocols : PreOperate(p)
      PROVE  Covered'
  BY <1>1, <1>4, PauseInFlight, NothingInFlight
<1>5. ASSUME NEW signer \in Accounts, CollectRevenue(signer)
      PROVE  Covered'
  <2>1. reserve.last_update_timestamp = now
    BY <1>5 DEF UnsettledCollection
  <2> QED BY <1>1, <1>5, <2>1, CollectionCovered
<1>6. ASSUME NEW p \in Protocols, NEW s \in Int, NEW b \in Int,
             NEW wto \in Recipients, NEW bto \in Recipients, NEW type,
             Operate(p, s, b, wto, bto, type)
      PROVE  Covered'
  BY <1>1, <1>2, <1>6, OperateCovered
<1> QED BY <1>1, <1>2, <1>3, <1>4, <1>5, <1>6, TransfersCovered, ClaimCovered,
           RefreshesCovered, SwitchCovered
        DEF LayerNext, ReserveAdminNext, PositionAdminNext

(* No instruction, no token transfer and no passing time makes the layer   *)
(* insolvent, not even by a rounding unit, as long as all amounts bear     *)
(* interest and revenue is not collected at prices that are not stored:    *)
(* deposits are credited only for tokens that arrived, once, every         *)
(* rounding of operate and of a change of mode favours the layer, interest *)
(* credited never exceeds interest charged, and collect_revenue pays out   *)
(* no more than the surplus.                                               *)
THEOREM SolvencyHolds == Spec => SolvencyKept
<1>1. SolvencyInv /\ SolvencyInv' /\ [LayerNext]_vars =>
        [InterestOnly /\ Covered /\ ~UnsettledCollection => Covered']_vars
  BY StepsCovered
<1> QED BY <1>1, SolvencyInit, SolvencyStep, LayerSpec, PTL DEF SolvencyKept

(* While all amounts bear interest, the suppliers are credited no more     *)
(* than the borrowers are charged, at any time and for any curve, fee and  *)
(* totals: what the comment of calculate_exchange_prices says, which a     *)
(* mixture with interest-free amounts breaks.                              *)
THEOREM YieldPaid == Spec => [](InterestOnly => YieldPaidByBorrowers)
<1>1. SolvencyInv => (InterestOnly => YieldPaidByBorrowers)
  <2> SUFFICES ASSUME SolvencyInv, InterestOnly PROVE YieldPaidByBorrowers
    OBVIOUS
  <2> DEFINE owedNow == ScaledSupply(reserve, AccruedPrices.supply)
             owed == ScaledSupply(reserve, reserve.supply_exchange_price)
             lentNow == ScaledBorrow(reserve, AccruedPrices.borrow)
             lent == ScaledBorrow(reserve, reserve.borrow_exchange_price)
  <2>1. TypeInv /\ CachedRateCurrent
    BY DEF SolvencyInv, BooksInv, LimitInv
  <2>2. owedNow + lent <= owed + lentNow
    <3>1. reserve \in LooseReserve /\ now \in Nat /\ reserve.last_update_timestamp <= now
      BY <2>1, Unpacked
    <3>2. InterestBearing(reserve)
      BY DEF InterestOnly, InterestBearing
    <3>3. reserve.last_utilization = CalcUtilization(reserve, StoredPrices(reserve))
      BY <2>1 DEF CachedRateCurrent
    <3> QED BY <3>1, <3>2, <3>3, AccrualCovered DEF AccruedPrices
  <2>3. owedNow \in Nat /\ owed \in Nat /\ lentNow \in Nat /\ lent \in Nat
    BY <2>1, Unpacked, SolvencyTyped, ScaledNatural
  <2> HIDE DEF owedNow, owed, lentNow, lent
  <2>4. owedNow - owed <= lentNow - lent
    BY <2>2, <2>3
  <2> QED BY <2>4 DEF YieldPaidByBorrowers, AccruedPrices, owedNow, owed, lentNow, lent
<1> QED BY <1>1, SolvencyInit, SolvencyStep, LayerSpec, PTL

-----------------------------------------------------------------------------
(* Claims.                                                                 *)

(* Only collect_revenue can leave the vault short of what users may claim: *)
(* every payout by operate leaves the reserved amount in the vault         *)
(* (handle_transfer_or_claim).                                             *)
THEOREM ClaimsAlwaysKept == Spec => ClaimsKept
<1> DEFINE Kept == \/ \E signer \in Accounts : CollectRevenue(signer)
                   \/ reserve.total_claim_amount <= vault => reserve'.total_claim_amount <= vault'
<1>1. TypeInv /\ [LayerNext]_vars => Kept
  <2> SUFFICES ASSUME TypeInv, [LayerNext]_vars, reserve.total_claim_amount <= vault,
                      ~\E signer \in Accounts : CollectRevenue(signer)
               PROVE  reserve'.total_claim_amount <= vault'
    OBVIOUS
  <2>1. vault \in Nat /\ reserve.total_claim_amount \in Nat
    BY SolvencyTyped
  <2>2. ASSUME vault' = vault, reserve'.total_claim_amount = reserve.total_claim_amount
        PROVE  reserve'.total_claim_amount <= vault'
    BY <2>2
  <2>3. ASSUME NEW p \in Protocols, NEW s \in Int, NEW b \in Int,
               NEW wto \in Recipients, NEW bto \in Recipients, NEW type,
               Operate(p, s, b, wto, bto, type)
        PROVE  reserve'.total_claim_amount <= vault'
    <3> DEFINE out == Positive(-s) + Positive(b)
               claims == reserve.total_claim_amount
    <3>1. reserve'.total_claim_amount = claims + IF type = "CLAIM" THEN out ELSE 0
      BY <2>3, OperateReserves
    <3>2. /\ out > 0 => out + claims <= vault
          /\ vault' = IF type = "CLAIM" THEN vault ELSE vault - out
      BY <2>3 DEF Operate, PayoutAllowed
    <3>3. out \in Nat
      BY <2>3 DEF Positive
    <3> HIDE DEF out, claims
    <3>4. claims \in Nat /\ claims <= vault
      BY <2>1 DEF claims
    <3> QED BY <2>1, <3>1, <3>2, <3>3, <3>4
  <2>4. ASSUME NEW user \in Recipients, Claim(user)
        PROVE  reserve'.total_claim_amount <= vault'
    <3>1. /\ claimAmount[user] \in Nat /\ vault' = vault - claimAmount[user]
          /\ reserve'.total_claim_amount = reserve.total_claim_amount - claimAmount[user]
      BY <2>4, Unpacked DEF Claim, LooseReserve
    <3> QED BY <2>1, <3>1
  <2>5. ASSUME NEW amount \in Nat, TransferIn(amount)
        PROVE  reserve'.total_claim_amount <= vault'
    <3>1. amount \in Nat /\ vault' = vault + amount /\ reserve' = reserve
      BY <2>5 DEF TransferIn
    <3> QED BY <2>1, <3>1
  <2>6. ASSUME \/ UpdateExchangePrice
               \/ \E signer \in Accounts, d \in RateDataV1 : UpdateRateDataV1(signer, d)
               \/ \E signer \in Accounts, d \in RateDataV2 : UpdateRateDataV2(signer, d)
               \/ \E signer \in Accounts, c \in TokenConfigs : UpdateTokenConfig(signer, c)
        PROVE  reserve'.total_claim_amount <= vault'
    <3>1. vault' = vault
      BY <2>6 DEF UpdateExchangePrice, UpdateRateDataV1, UpdateRateDataV2, InstallCurve,
                  UpdateTokenConfig
    <3> QED BY <2>2, <2>6, <3>1, ReserveStepsKeepTotals DEF SameTotals
  <2>7. ASSUME NEW signer \in Accounts, NEW p \in Protocols,
               \/ \E c \in UserSupplyConfigs : SwitchSupplyMode(signer, p, c)
               \/ \E c \in UserBorrowConfigs : SwitchBorrowMode(signer, p, c)
        PROVE  reserve'.total_claim_amount <= vault'
    <3>1. vault' = vault
      BY <2>7 DEF SwitchSupplyMode, SwitchBorrowMode
    <3> QED BY <2>2, <2>7, <3>1, SwitchKeepsClaims
  <2>8. ASSUME \/ UNCHANGED vars
               \/ AccessNext /\ UNCHANGED moneyVars
               \/ \E p \in Protocols : PreOperate(p)
               \/ \E user \in Recipients : InitClaimAccount(user) \/ CloseClaimAccount(user)
               \/ Tick
               \/ \E signer \in Accounts, p \in Protocols :
                    \/ \E sides \in NonEmptySides : InitNewProtocol(signer, p, sides)
                    \/ \E limit \in WithdrawalLimits : UpdateUserWithdrawalLimit(signer, p, limit)
                    \/ \E c \in UserSupplyConfigs : UpdateUserSupplyConfig(signer, p, c)
                    \/ \E c \in UserBorrowConfigs : UpdateUserBorrowConfig(signer, p, c)
                    \/ \E sides \in NonEmptySides :
                         PauseUser(signer, p, sides) \/ UnpauseUser(signer, p, sides)
        PROVE  reserve'.total_claim_amount <= vault'
    <3>1. UNCHANGED <<vault, reserve>>
      BY <2>8 DEF vars, moneyVars, PreOperate, InitClaimAccount, CloseClaimAccount, Tick,
                  InitNewProtocol, UpdateUserWithdrawalLimit, UpdateUserSupplyConfig,
                  UpdateUserBorrowConfig, PauseUser, UnpauseUser
    <3> QED BY <2>2, <3>1
  <2> QED BY <2>3, <2>4, <2>5, <2>6, <2>7, <2>8
          DEF LayerNext, ReserveAdminNext, PositionAdminNext
<1>2. TypeInv /\ [LayerNext]_vars => [Kept]_vars
  BY <1>1
<1> QED BY <1>2, TypeInit, TypeStep, LayerSpec, PTL DEF ClaimsKept

-----------------------------------------------------------------------------
(* The supply account each protocol relies on.                             *)

AccountPrice == CalculateExchangePrices(reserve, now).supply

(* A second of interest does not lower the price.                          *)
LEMMA PriceRises ==
  ASSUME NEW r \in LooseReserve, NEW t \in Nat, r.last_update_timestamp <= t
  PROVE  CalculateExchangePrices(r, t).supply <= CalculateExchangePrices(r, t + 1).supply
<1> DEFINE elapsed == t - r.last_update_timestamp
           still == r.borrow_rate = 0 \/ r.total_borrow_with_interest = 0 \/ NoEarningSupply(r)
           sp == r.supply_exchange_price
           year == SECONDS_PER_YEAR * Percent
           pp == Percent * Percent
           yield == sp * SupplyRate(r)
<1>1. /\ sp \in Nat \ {0} /\ elapsed \in Nat /\ elapsed + 1 \in Nat
      /\ pp \in Nat \ {0} /\ year \in Nat \ {0}
      /\ (t + 1) - r.last_update_timestamp = elapsed + 1
  BY Constants DEF LooseReserve
<1> HIDE DEF elapsed, year, pp, sp
<1>2. CalculateExchangePrices(r, t).supply =
        IF elapsed = 0 \/ still THEN sp ELSE sp + ((yield * elapsed) \div year) \div pp
  BY DEF CalculateExchangePrices, elapsed, year, pp, sp
<1>3. CalculateExchangePrices(r, t + 1).supply =
        IF still THEN sp ELSE sp + ((yield * (elapsed + 1)) \div year) \div pp
  <2>1. CalculateExchangePrices(r, t + 1).supply =
          IF elapsed + 1 = 0 \/ still THEN sp ELSE sp + ((yield * (elapsed + 1)) \div year) \div pp
    BY <1>1 DEF CalculateExchangePrices, year, pp, sp
  <2>2. elapsed + 1 # 0
    BY <1>1
  <2> QED BY <2>1, <2>2
<1>4. CASE still
  BY <1>1, <1>2, <1>3, <1>4
<1>5. CASE ~still
  <2>1. yield \in Nat
    BY <1>1, <1>5, SupplyRateNatural
  <2> HIDE DEF yield
  <2> DEFINE before == yield * elapsed
             after == yield * (elapsed + 1)
  <2>2. before \in Nat /\ after \in Nat /\ before <= after
    BY <1>1, <2>1, ProductMonotonic
  <2> HIDE DEF before, after
  <2>3. /\ before \div year \in Nat /\ after \div year \in Nat
        /\ before \div year <= after \div year
    BY <1>1, <2>2, Quotient, QuotientMonotonic
  <2>4. /\ (before \div year) \div pp \in Nat /\ (after \div year) \div pp \in Nat
        /\ (before \div year) \div pp <= (after \div year) \div pp
    BY <1>1, <2>3, Quotient, QuotientMonotonic
  <2>5. /\ CalculateExchangePrices(r, t).supply =
             IF elapsed = 0 THEN sp ELSE sp + (before \div year) \div pp
        /\ CalculateExchangePrices(r, t + 1).supply = sp + (after \div year) \div pp
    BY <1>2, <1>3, <1>5 DEF before, after
  <2> QED BY <1>1, <2>4, <2>5
<1> QED BY <1>4, <1>5

LEMMA AccountPricePositive == TypeInv => AccountPrice \in Nat \ {0}
BY Unpacked DEF AccountPrice

(* Within a second no instruction moves the accrued price: what it stores  *)
(* is what had accrued.                                                    *)
LEMMA PriceKept ==
  ASSUME TypeInv, TypeInv', [LayerNext]_vars, now' = now
  PROVE  AccountPrice' = AccountPrice
<1>1. CASE ReserveRewritten
  <2>1. /\ reserve'.last_update_timestamp = now'
        /\ StoredPrices(reserve') = CalculateExchangePrices(reserve, now)
    BY <1>1, RewrittenPrices
  <2>2. CalculateExchangePrices(reserve', now') = StoredPrices(reserve')
    BY <2>1, NoTimeNoInterest, Unpacked
  <2> QED BY <2>1, <2>2 DEF AccountPrice
<1>2. CASE ReserveKept
  <2>1. PICK claims \in Nat : reserve' = [reserve EXCEPT !.total_claim_amount = claims]
    BY <1>2 DEF ReserveKept
  <2>2. /\ reserve'.borrow_rate = reserve.borrow_rate
        /\ reserve'.fee_on_interest = reserve.fee_on_interest
        /\ reserve'.last_utilization = reserve.last_utilization
        /\ reserve'.last_update_timestamp = reserve.last_update_timestamp
        /\ reserve'.supply_exchange_price = reserve.supply_exchange_price
        /\ reserve'.borrow_exchange_price = reserve.borrow_exchange_price
        /\ reserve'.total_supply_with_interest = reserve.total_supply_with_interest
        /\ reserve'.total_supply_interest_free = reserve.total_supply_interest_free
        /\ reserve'.total_borrow_with_interest = reserve.total_borrow_with_interest
        /\ reserve'.total_borrow_interest_free = reserve.total_borrow_interest_free
    BY <2>1, Unpacked DEF LooseReserve
  <2>3. /\ SupplyRate(reserve') = SupplyRate(reserve)
        /\ NoEarningSupply(reserve') = NoEarningSupply(reserve)
    BY <2>2 DEF SupplyRate, LenderYield, PayingBorrowers, SupplyRatio, BorrowRatio, NoEarningSupply
  <2> QED BY <2>2, <2>3 DEF AccountPrice, CalculateExchangePrices
<1> QED BY <1>1, <1>2, ReserveStep

LEMMA PriceNeverFalls ==
  ASSUME TypeInv, TypeInv', [LayerNext]_vars
  PROVE  /\ AccountPrice \in Nat \ {0} /\ AccountPrice' \in Nat \ {0}
         /\ AccountPrice' >= AccountPrice
         /\ now' # now => UNCHANGED <<reserve, supplyPos>>
<1>1. AccountPrice \in Nat \ {0}
  BY AccountPricePositive
<1>2. (AccountPrice \in Nat \ {0})'
  <2>1. (TypeInv => AccountPrice \in Nat \ {0})'
    BY AccountPricePositive, PTL
  <2> QED BY <2>1
<1>3. CASE now' = now
  BY <1>1, <1>3, PriceKept
<1>4. CASE Tick
  <2>1. /\ now' = now + 1 /\ UNCHANGED <<reserve, supplyPos>>
    BY <1>4 DEF Tick, positionVars
  <2>2. AccountPrice' = CalculateExchangePrices(reserve, now + 1).supply
    BY <2>1 DEF AccountPrice
  <2>3. AccountPrice <= CalculateExchangePrices(reserve, now + 1).supply
    BY Unpacked, PriceRises DEF AccountPrice
  <2> QED BY <1>1, <1>2, <2>1, <2>2, <2>3
<1>5. now' = now \/ Tick
  <2>1. ASSUME NEW p \in Protocols, PreOperate(p) PROVE now' = now
    BY <2>1 DEF PreOperate
  <2>6. ASSUME NEW p \in Protocols, NEW s \in Int, NEW b \in Int,
               NEW wto \in Recipients, NEW bto \in Recipients, NEW type,
               Operate(p, s, b, wto, bto, type)
        PROVE  now' = now
    BY <2>6 DEF Operate
  <2>2. ASSUME NEW user \in Recipients,
               InitClaimAccount(user) \/ CloseClaimAccount(user) \/ Claim(user)
        PROVE  now' = now
    BY <2>2 DEF InitClaimAccount, CloseClaimAccount, Claim
  <2>3. ASSUME NEW signer \in Accounts, ReserveAdminNext(signer) PROVE now' = now
    BY <2>3 DEF ReserveAdminNext, CollectRevenue, UpdateRateDataV1, UpdateRateDataV2,
                InstallCurve, UpdateTokenConfig
  <2>4. ASSUME NEW signer \in Accounts, PositionAdminNext(signer) PROVE now' = now
    <3>1. ASSUME NEW p \in Protocols, NEW c, SwitchSupplyMode(signer, p, c) PROVE now' = now
      BY <3>1 DEF SwitchSupplyMode
    <3>2. ASSUME NEW p \in Protocols, NEW c, SwitchBorrowMode(signer, p, c) PROVE now' = now
      BY <3>2 DEF SwitchBorrowMode
    <3>3. ASSUME NEW p \in Protocols, NEW sides,
                 \/ InitNewProtocol(signer, p, sides)
                 \/ PauseUser(signer, p, sides) \/ UnpauseUser(signer, p, sides)
          PROVE  now' = now
      BY <3>3 DEF InitNewProtocol, PauseUser, UnpauseUser
    <3>4. ASSUME NEW p \in Protocols, NEW c,
                 \/ UpdateUserWithdrawalLimit(signer, p, c)
                 \/ UpdateUserSupplyConfig(signer, p, c) \/ UpdateUserBorrowConfig(signer, p, c)
          PROVE  now' = now
      BY <3>4 DEF UpdateUserWithdrawalLimit, UpdateUserSupplyConfig, UpdateUserBorrowConfig
    <3> QED BY <2>4, <3>1, <3>2, <3>3, <3>4 DEF PositionAdminNext
  <2>5. UNCHANGED vars => now' = now
    BY DEF vars, moneyVars
  <2>7. UNCHANGED moneyVars => now' = now
    BY DEF moneyVars
  <2>8. \A amount \in Nat : TransferIn(amount) => now' = now
    BY DEF TransferIn
  <2>9. UpdateExchangePrice => now' = now
    BY DEF UpdateExchangePrice
  <2> QED BY <2>1, <2>2, <2>3, <2>4, <2>5, <2>6, <2>7, <2>8, <2>9 DEF LayerNext
<1> QED BY <1>1, <1>2, <1>3, <1>4, <1>5

-----------------------------------------------------------------------------

Serves(p) == [Account(p)!AccountNext]_(Account(p)!accountVars)

LEMMA AccruedOnly ==
  ASSUME NEW p \in Protocols, AccountPrice' >= AccountPrice,
         supplyPos'[p].amount = supplyPos[p].amount,
         supplyPos'[p].with_interest = supplyPos[p].with_interest
  PROVE  Serves(p)
BY DEF Serves, Account!AccountNext, Account!Accrue, Account!accountVars, AccountPrice

LEMMA Switched ==
  ASSUME NEW p \in Protocols, AccountPrice' = AccountPrice, supplyPos'[p].amount \in Nat,
         supplyPos'[p].with_interest # supplyPos[p].with_interest
  PROVE  Serves(p)
BY DEF Serves, Account!AccountNext, Account!SwitchMode, AccountPrice

(* An operate of the protocol itself is a deposit or a withdrawal of its   *)
(* account.                                                                *)
LEMMA OwnOperateServes ==
  ASSUME TypeInv, NEW p \in Protocols, NEW s \in SupplyAmounts, s # 0,
         AccountPrice' = AccountPrice,
         SupplyOrWithdrawAllowed(supplyPos[p], s, AccountPrice, now),
         supplyPos'[p] = SupplyOrWithdraw(supplyPos[p], s, AccountPrice, now)
  PROVE  Serves(p)
<1> DEFINE pos == supplyPos[p]
           delta == SupplyDelta(pos, s, AccountPrice)
           amounts == {Positive(x) : x \in SupplyAmounts} \cup {Positive(-x) : x \in SupplyAmounts}
<1>1. /\ s \in Int /\ AccountPrice \in Nat \ {0} /\ Precision \in Nat \ {0}
      /\ pos \in SupplyPosition /\ pos.amount \in Nat /\ pos.with_interest \in BOOLEAN
  BY AccountPricePositive, Unpacked, Constants, LiquidityAssumption
     DEF LiquidityAssumption, SupplyPosition
<1>2. /\ delta # 0 /\ pos.amount + delta \in 0..U64_MAX
      /\ supplyPos'[p].amount = pos.amount + delta
      /\ supplyPos'[p].with_interest = pos.with_interest
  BY <1>1 DEF SupplyOrWithdrawAllowed, SupplyOrWithdraw, SupplyPosition
<1>3. CASE ~pos.with_interest
  <2>1. delta = s
    BY <1>1, <1>3 DEF SupplyDelta
  <2>2. CASE s > 0
    <3>1. s \in amounts
      BY <1>1, <2>2 DEF Positive
    <3>2. Account(p)!HoldTokens(s)
      BY <1>2, <1>3, <2>1 DEF Account!HoldTokens, AccountPrice
    <3> QED BY <3>1, <3>2 DEF Serves, Account!AccountNext
  <2>3. CASE s < 0
    <3>1. -s \in amounts
      BY <1>1, <2>3 DEF Positive
    <3>2. pos.amount + delta = pos.amount - (-s)
      BY <1>1, <2>1
    <3>3. Account(p)!HoldTokens(-s)
      BY <1>2, <1>3, <3>2 DEF Account!HoldTokens, AccountPrice
    <3> QED BY <3>1, <3>3 DEF Serves, Account!AccountNext
  <2> QED BY <1>1, <2>2, <2>3
<1>4. CASE pos.with_interest /\ s > 0
  <2>1. delta = Account(p)!RawOfDeposit(s)
    BY <1>1, <1>4 DEF SupplyDelta, Account!RawOfDeposit, AccountPrice
  <2>2. s \in amounts
    BY <1>1, <1>4 DEF Positive
  <2>3. Account(p)!Supply(s)
    BY <1>2, <2>1 DEF Account!Supply, AccountPrice
  <2> QED BY <2>2, <2>3 DEF Serves, Account!AccountNext
<1>5. CASE pos.with_interest /\ s < 0
  <2>1. -s \in Nat /\ -s * Precision \in Nat
    BY <1>1, <1>5
  <2>2. delta = -Account(p)!RawOfWithdrawal(-s) /\ Account(p)!RawOfWithdrawal(-s) \in Nat
    <3>1. Account(p)!RawOfWithdrawal(-s) = DivCeil((-s) * Precision, AccountPrice)
      BY DEF Account!RawOfWithdrawal, Account!DivCeil, DivCeil, AccountPrice
    <3>4. delta = -DivCeil(-s * Precision, AccountPrice)
      BY <1>1, <1>5 DEF SupplyDelta
    <3>2. (-s) * Precision = -s * Precision
      BY <1>1
    <3>3. DivCeil((-s) * Precision, AccountPrice) \in Nat
      BY <1>1, <2>1, <3>2, CeilQuotient
    <3> QED BY <3>1, <3>2, <3>3, <3>4
  <2>3. -s \in amounts
    BY <1>1, <1>5 DEF Positive
  <2> DEFINE taken == Account(p)!RawOfWithdrawal(-s)
  <2> HIDE DEF taken
  <2>4. delta = -taken /\ taken \in Nat
    BY <2>2 DEF taken
  <2> HIDE DEF delta
  <2>5. taken \in 1..pos.amount /\ supplyPos'[p].amount = pos.amount - taken
    BY <1>1, <1>2, <2>4
  <2>6. Account(p)!Take(-s)
    BY <1>2, <2>5 DEF Account!Take, AccountPrice, taken
  <2> QED BY <2>3, <2>6 DEF Serves, Account!AccountNext
<1> QED BY <1>1, <1>3, <1>4, <1>5

(* A step that moves the raw amount of a position only by changing its     *)
(* mode serves its account.                                                *)
LEMMA OtherStepServes ==
  ASSUME TypeInv, TypeInv', [LayerNext]_vars, NEW p \in Protocols,
         \/ supplyPos'[p].with_interest # supplyPos[p].with_interest
         \/ supplyPos'[p].amount = supplyPos[p].amount
  PROVE  Serves(p)
<1>1. /\ AccountPrice' >= AccountPrice
      /\ now' # now => supplyPos' = supplyPos
      /\ now' = now => AccountPrice' = AccountPrice
  BY PriceNeverFalls, PriceKept
<1>2. supplyPos' \in [Protocols -> SupplyPosition]
  BY DEF TypeInv, TypeOK
<1>3. supplyPos'[p].amount \in Nat
  BY <1>2, Constants DEF SupplyPosition
<1> QED BY <1>1, <1>3, AccruedOnly, Switched

LEMMA OperateServes ==
  ASSUME TypeInv, TypeInv', NEW p \in Protocols, NEW s \in SupplyAmounts, NEW b \in BorrowAmounts,
         NEW wto \in Recipients, NEW bto \in Recipients, NEW type \in TransferTypes,
         Operate(p, s, b, wto, bto, type), NEW q \in Protocols
  PROVE  Serves(q)
<1>1. [LayerNext]_vars
  <2>1. Next
    BY DEF Next, ProtocolNext
  <2> QED BY <2>1, NextAmongSteps
<1>2. /\ now' = now
      /\ s # 0 => SupplyOrWithdrawAllowed(supplyPos[p], s, AccountPrice, now)
      /\ supplyPos' = IF s = 0 THEN supplyPos
                      ELSE [supplyPos EXCEPT ![p] = SupplyOrWithdraw(@, s, AccountPrice, now)]
  BY DEF Operate, AccountPrice
<1>3. CASE s = 0 \/ q # p
  BY <1>1, <1>2, <1>3, Unpacked, OtherStepServes
<1>4. CASE s # 0 /\ q = p
  <2>1. supplyPos'[p] = SupplyOrWithdraw(supplyPos[p], s, AccountPrice, now)
    BY <1>2, <1>4, Unpacked
  <2> QED BY <1>1, <1>2, <1>4, <2>1, PriceKept, OwnOperateServes
<1> QED BY <1>3, <1>4

(* What an auth or a guardian does to a position moves its raw amount only *)
(* with its mode; what is created holds nothing and replaces nothing.      *)
LEMMA AdminServes ==
  ASSUME BooksInv, TypeInv', [LayerNext]_vars, NEW signer \in Accounts, PositionAdminNext(signer),
         NEW q \in Protocols
  PROVE  Serves(q)
<1> DEFINE Kept == \/ supplyPos'[q].with_interest # supplyPos[q].with_interest
                   \/ supplyPos'[q].amount = supplyPos[q].amount
<1>1. /\ TypeInv /\ supplyPos \in [Protocols -> SupplyPosition] /\ supplyPos[q] \in SupplyPosition
      /\ supplyPos[q].status = "Absent" => supplyPos[q].amount = 0
  <2>1. TypeInv /\ UnconfiguredEmpty
    BY DEF BooksInv, LimitInv
  <2> QED BY <2>1, Unpacked DEF UnconfiguredEmpty, Empty
<1>2. ASSUME NEW p \in Protocols, NEW sides \in NonEmptySides, InitNewProtocol(signer, p, sides)
      PROVE  Kept
  <2>1. CASE "supply" \in sides /\ p = q
    <3>1. /\ supplyPos[q].status = "Absent"
          /\ supplyPos'[q] = NewSupplyPosition("NotSet", now)
      BY <1>1, <1>2, <2>1 DEF InitNewProtocol
    <3>2. supplyPos'[q].amount = 0
      BY <3>1 DEF NewSupplyPosition
    <3>3. supplyPos[q].amount = 0
      BY <1>1, <3>1
    <3> QED BY <3>2, <3>3
  <2>2. CASE ~("supply" \in sides /\ p = q)
    BY <1>1, <1>2, <2>2 DEF InitNewProtocol
  <2> QED BY <2>1, <2>2
<1>3. ASSUME NEW p \in Protocols, NEW limit \in WithdrawalLimits,
             UpdateUserWithdrawalLimit(signer, p, limit)
      PROVE  Kept
  BY <1>1, <1>3 DEF UpdateUserWithdrawalLimit, SupplyPosition
<1>4. ASSUME NEW p \in Protocols, NEW c \in UserSupplyConfigs, UpdateUserSupplyConfig(signer, p, c)
      PROVE  Kept
  BY <1>1, <1>4 DEF UpdateUserSupplyConfig, WithSupplyConfig, SupplyPosition
<1>5. ASSUME NEW p \in Protocols, NEW c \in UserSupplyConfigs, SwitchSupplyMode(signer, p, c)
      PROVE  Kept
  <2> DEFINE converted == ConvertedSupply(supplyPos[p], c.mode, AccountPrice)
  <2>1. /\ supplyPos' = [supplyPos EXCEPT ![p] = WithSupplyConfig(converted, c)]
        /\ supplyPos[p].with_interest # (c.mode = 1)
    BY <1>5 DEF SwitchSupplyMode, ModeChanges, AccountPrice
  <2>2. CASE p = q
    <3>1. supplyPos'[q] = WithSupplyConfig(converted, c)
      BY <1>1, <2>1, <2>2
    <3>2. WithSupplyConfig(converted, c).with_interest = (c.mode = 1)
      BY <1>1, <2>2 DEF WithSupplyConfig, ConvertedSupply, SupplyPosition
    <3>3. supplyPos'[q].with_interest # supplyPos[q].with_interest
      BY <2>1, <2>2, <3>1, <3>2, Zenon
    <3> QED BY <3>3
  <2>3. CASE p # q
    BY <1>1, <2>1, <2>3
  <2> QED BY <2>2, <2>3
<1>6. ASSUME NEW p \in Protocols, NEW c \in UserBorrowConfigs,
             UpdateUserBorrowConfig(signer, p, c) \/ SwitchBorrowMode(signer, p, c)
      PROVE  Kept
  BY <1>6 DEF UpdateUserBorrowConfig, SwitchBorrowMode
<1>7. ASSUME NEW p \in Protocols, NEW sides \in NonEmptySides,
             PauseUser(signer, p, sides) \/ UnpauseUser(signer, p, sides)
      PROVE  Kept
  BY <1>1, <1>7 DEF PauseUser, UnpauseUser, SupplyPosition
<1> HIDE DEF Kept
<1>8. Kept
  BY <1>2, <1>3, <1>4, <1>5, <1>6, <1>7 DEF PositionAdminNext
<1> QED BY <1>1, <1>8, OtherStepServes DEF Kept

(* The liquidity layer implements the supply account of every protocol,    *)
(* for all protocols at once: only a protocol's own operate moves its raw  *)
(* amount, rounded in favour of the layer at the price accrued to now,     *)
(* unless an auth changes the mode of the position, and no instruction of  *)
(* anybody, nor time, lowers that price (operate, update_exchange_price).  *)
THEOREM LayerServesAccounts == Spec => AccountsServed
<1>1. Init => \A p \in Protocols : Account(p)!AccountInit
  <2> SUFFICES ASSUME Init, NEW p \in Protocols PROVE Account(p)!AccountInit
    OBVIOUS
  <2>1. CalculateExchangePrices(reserve, now).supply = Precision
    BY DEF Init, NewReserve, CalculateExchangePrices, Precision
  <2>2. supplyPos[p].amount = 0 /\ supplyPos[p].with_interest = FALSE
    BY DEF Init, NewSupplyPosition
  <2>3. Precision \in Nat /\ Precision >= Precision
    BY Constants
  <2> QED BY <2>1, <2>2, <2>3 DEF Account!AccountInit
<1>2. BooksInv /\ BooksInv' /\ [Next]_vars => [\A p \in Protocols : Serves(p)]_moneyVars
  <2> SUFFICES ASSUME BooksInv, BooksInv', [Next]_vars, NEW q \in Protocols PROVE Serves(q)
    OBVIOUS
  <2>1. TypeInv /\ TypeInv' /\ [LayerNext]_vars
    BY NextAmongSteps DEF BooksInv, LimitInv
  <2>2. CASE UNCHANGED <<supplyPos, borrowPos>>
    BY <2>1, <2>2, OtherStepServes
  <2>3. ASSUME NEW p \in Protocols, NEW s \in SupplyAmounts, NEW b \in BorrowAmounts,
               NEW wto \in Recipients, NEW bto \in Recipients, NEW type \in TransferTypes,
               Operate(p, s, b, wto, bto, type)
        PROVE  Serves(q)
    BY <2>1, <2>3, OperateServes
  <2>4. ASSUME NEW signer \in Accounts, PositionAdminNext(signer)
        PROVE  Serves(q)
    BY <2>1, <2>4, AdminServes
  <2>5. TransferAmounts \subseteq Nat
    BY LiquidityAssumption DEF LiquidityAssumption
  <2> QED BY <2>2, <2>3, <2>4, <2>5, BystandersKeepPositions DEF Next, ProtocolNext, UserNext
<1> QED BY <1>1, <1>2, BooksInit, BooksStep, LayerSpec, PTL DEF Spec, AccountsServed, Serves
=============================================================================

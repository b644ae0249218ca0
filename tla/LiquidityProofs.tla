-------------------------- MODULE LiquidityProofs --------------------------
(***************************************************************************)
(* The privileges of the liquidity program, and type correctness of its    *)
(* layer and automated limits, for every value of the constants.           *)
(*                                                                         *)
(* Privileges come first.  Their inductive invariant is the conjunction of *)
(* the type invariant with the two safety invariants: that the authority   *)
(* is a member of both lists is what keeps a handover, which checks no     *)
(* length, from making a list longer.                                      *)
(*                                                                         *)
(* Then come the lemmas about the layer's arithmetic: division,            *)
(* percentages, conversions between modes, limits, exchange prices and the *)
(* rate curve.  The inductive invariant TypeInv of the layer adds to       *)
(* TypeOK what the arithmetic needs to be defined: the privileges (their   *)
(* types are not inductive without AuthorityPrivileged), kinks of the rate *)
(* curve in order (or the slope divides by zero), and no timestamp in the  *)
(* future (or interest and limits would run backwards).                    *)
(***************************************************************************)
EXTENDS Liquidity, FiniteSetTheorems, SequenceTheorems, WellFoundedInduction, TLAPS

PrivilegeInv == AccessTypeOK /\ AuthorityPrivileged /\ ListsFit

-----------------------------------------------------------------------------
(* The last entry for a key exists: facts about naturals and sequences.    *)

LEMMA LeastNatural ==
  ASSUME NEW S \in SUBSET Nat, S # {}
  PROVE  \E m \in S : \A k \in S : m <= k
<1>1. PICK m \in S : \A k \in S : <<k, m>> \notin OpToRel(<, Nat)
  BY NatLessThanWellFounded, WFMin
<1>2. ASSUME NEW k \in S PROVE ~(k < m)
  BY <1>1 DEF OpToRel
<1>3. ASSUME NEW k \in S PROVE m <= k
  BY <1>2
<1> QED BY <1>3

LEMMA GreatestIndex ==
  ASSUME NEW n \in Nat, NEW S \in SUBSET (1..n), S # {}
  PROVE  \E m \in S : \A k \in S : k <= m
<1> DEFINE Bounds == {m \in Nat : \A k \in S : k <= m}
<1>1. n \in Bounds
  OBVIOUS
<1>2. PICK m \in Bounds : \A k \in Bounds : m <= k
  BY <1>1, LeastNatural
<1>3. m \in S
  <2>1. SUFFICES ASSUME m \notin S PROVE FALSE
    OBVIOUS
  <2>2. PICK k \in S : TRUE
    OBVIOUS
  <2>3. m - 1 \in Nat /\ \A j \in S : j <= m - 1
    BY <2>1, <2>2
  <2> QED BY <1>2, <2>3
<1> QED BY <1>3

LEMMA LastListed ==
  ASSUME NEW R, NEW list \in Seq(R), NEW key, Listed(list, key)
  PROVE  \E i \in DOMAIN list : list[i].addr = key /\ LastValue(list, key) = list[i].value
<1> DEFINE Hits == {i \in DOMAIN list : list[i].addr = key}
<1>1. Len(list) \in Nat /\ DOMAIN list = 1..Len(list)
  OBVIOUS
<1>2. Hits \in SUBSET (1..Len(list)) /\ Hits # {}
  BY <1>1 DEF Listed
<1>3. \E m \in Hits : \A j \in Hits : j <= m
  BY <1>1, <1>2, GreatestIndex
<1>4. \E last \in DOMAIN list :
        /\ list[last].addr = key
        /\ \A j \in DOMAIN list : list[j].addr = key => j <= last
  BY <1>3
<1> QED BY <1>4 DEF LastValue

LEMMA HandoverKeepsLength ==
  ASSUME NEW S \in SUBSET Accounts, NEW old \in S, NEW new \in Accounts
  PROVE  Cardinality((S \ {old}) \cup {new}) <= Cardinality(S)
<1>1. IsFiniteSet(S)
  BY FS_Subset, AccessAssumption DEF AccessAssumption
<1>2. IsFiniteSet(S \ {old}) /\ Cardinality(S \ {old}) = Cardinality(S) - 1
  BY <1>1, FS_RemoveElement
<1>3. \/ Cardinality((S \ {old}) \cup {new}) = Cardinality(S \ {old})
      \/ Cardinality((S \ {old}) \cup {new}) = Cardinality(S \ {old}) + 1
  BY <1>2, FS_AddElement
<1>4. Cardinality(S) \in Nat
  BY <1>1, FS_CardinalityType
<1> QED BY <1>2, <1>3, <1>4

(* A list the program accepts leaves the authority a member.               *)
LEMMA AuthorityReassigned ==
  ASSUME NEW members, NEW list \in AuthUpdates, StatusListAllowed(list),
         authority \in Accounts, authority \in members
  PROVE  authority \in Reassigned(members, list)
<1>1. list \in Seq([addr : Accounts \cup {DefaultPubkey}, value : BOOLEAN])
  BY AccessAssumption DEF AccessAssumption
<1>2. CASE Listed(list, authority)
  <2>1. PICK i \in DOMAIN list : list[i].addr = authority
                                 /\ LastValue(list, authority) = list[i].value
    BY <1>1, <1>2, LastListed
  <2>2. list[i].value
    BY <2>1 DEF StatusListAllowed
  <2> QED BY <1>2, <2>1, <2>2 DEF Reassigned
<1>3. CASE ~Listed(list, authority)
  BY <1>3 DEF Reassigned
<1> QED BY <1>2, <1>3

-----------------------------------------------------------------------------
LEMMA PrivilegeInit == AccessInit => PrivilegeInv
<1> SUFFICES ASSUME AccessInit PROVE PrivilegeInv
  OBVIOUS
<1>1. AccessTypeOK
  BY DEF AccessInit, AccessTypeOK
<1>2. AuthorityPrivileged
  BY DEF AccessInit, AuthorityPrivileged
<1>3. Cardinality({authority}) = 1 /\ Cardinality({}) = 0
  BY FS_Singleton, FS_EmptySet
<1>4. DOMAIN user_classes = {}
  BY DEF AccessInit
<1>5. ListsFit
  BY <1>3, <1>4, AccessAssumption DEF AccessInit, ListsFit, AccessAssumption
<1> QED BY <1>1, <1>2, <1>5 DEF PrivilegeInv

LEMMA PrivilegeStep == PrivilegeInv /\ [AccessNext]_accessVars => PrivilegeInv'
<1> SUFFICES ASSUME PrivilegeInv, [AccessNext]_accessVars PROVE PrivilegeInv'
  OBVIOUS
<1>0. AccessTypeOK /\ AuthorityPrivileged /\ ListsFit
  BY DEF PrivilegeInv
<1>1. CASE UNCHANGED accessVars
  BY <1>0, <1>1 DEF accessVars, PrivilegeInv, AccessTypeOK, AuthorityPrivileged, ListsFit
<1>2. ASSUME NEW signer \in Accounts, NEW list \in AuthUpdates, UpdateAuths(signer, list)
      PROVE  PrivilegeInv'
  <2>1. authority \in Reassigned(auth_users, list)
    BY <1>0, <1>2, AuthorityReassigned DEF UpdateAuths, AccessTypeOK, AuthorityPrivileged
  <2>2. Reassigned(auth_users, list) \subseteq Accounts
    BY DEF Reassigned
  <2> QED BY <1>0, <1>2, <2>1, <2>2 DEF UpdateAuths, FitsList, PrivilegeInv, AccessTypeOK,
                                        AuthorityPrivileged, ListsFit
<1>3. ASSUME NEW signer \in Accounts, NEW list \in AuthUpdates, UpdateGuardians(signer, list)
      PROVE  PrivilegeInv'
  <2>1. authority \in Reassigned(guardians, list)
    BY <1>0, <1>3, AuthorityReassigned DEF UpdateGuardians, AccessTypeOK, AuthorityPrivileged
  <2>2. Reassigned(guardians, list) \subseteq Accounts
    BY DEF Reassigned
  <2> QED BY <1>0, <1>3, <2>1, <2>2 DEF UpdateGuardians, FitsList, PrivilegeInv, AccessTypeOK,
                                        AuthorityPrivileged, ListsFit
<1>4. ASSUME NEW signer \in Accounts, NEW new \in Accounts, UpdateAuthority(signer, new)
      PROVE  PrivilegeInv'
  <2>1. /\ Cardinality(auth_users') <= Cardinality(auth_users)
        /\ Cardinality(guardians') <= Cardinality(guardians)
    BY <1>0, <1>4, HandoverKeepsLength
       DEF UpdateAuthority, HandedOver, AccessTypeOK, AuthorityPrivileged
  <2>2. /\ Cardinality(auth_users) \in Nat /\ Cardinality(guardians) \in Nat
        /\ Cardinality(auth_users') \in Nat /\ Cardinality(guardians') \in Nat
    <3>1. \A S \in SUBSET Accounts : Cardinality(S) \in Nat
      BY FS_Subset, FS_CardinalityType, AccessAssumption DEF AccessAssumption
    <3>2. auth_users' \subseteq Accounts /\ guardians' \subseteq Accounts
      BY <1>0, <1>4 DEF UpdateAuthority, HandedOver, AccessTypeOK
    <3> QED BY <1>0, <3>1, <3>2 DEF AccessTypeOK
  <2>3. ListsFit'
    BY <1>0, <1>4, <2>1, <2>2, AccessAssumption
       DEF ListsFit, UpdateAuthority, AccessAssumption
  <2> QED BY <1>0, <1>4, <2>3 DEF UpdateAuthority, HandedOver, PrivilegeInv, AccessTypeOK,
                                  AuthorityPrivileged
<1>5. ASSUME NEW signer \in Accounts, NEW collector \in Accounts,
             UpdateRevenueCollector(signer, collector)
      PROVE  PrivilegeInv'
  BY <1>0, <1>5 DEF UpdateRevenueCollector, PrivilegeInv, AccessTypeOK, AuthorityPrivileged,
                    ListsFit
<1>6. ASSUME NEW signer \in Accounts, NEW status \in BOOLEAN, ChangeStatus(signer, status)
      PROVE  PrivilegeInv'
  BY <1>0, <1>6 DEF ChangeStatus, PrivilegeInv, AccessTypeOK, AuthorityPrivileged, ListsFit
<1>7. ASSUME NEW signer \in Accounts, NEW list \in ClassUpdates, UpdateUserClass(signer, list)
      PROVE  PrivilegeInv'
  <2>1. list \in Seq([addr : Pubkeys \cup {DefaultPubkey}, value : Nat])
    BY AccessAssumption DEF AccessAssumption
  <2>2. \A i \in DOMAIN list : list[i].addr \in Pubkeys /\ list[i].value \in {0, 1}
    <3> SUFFICES ASSUME NEW i \in DOMAIN list
                 PROVE  list[i].addr \in Pubkeys /\ list[i].value \in {0, 1}
      OBVIOUS
    <3>1. list[i] \in [addr : Pubkeys \cup {DefaultPubkey}, value : Nat]
      BY <2>1, LenProperties, ElementOfSeq
    <3> QED BY <1>7, <3>1 DEF UpdateUserClass, ClassListAllowed
  <2>3. \A key : Listed(list, key) => LastValue(list, key) \in {0, 1}
    BY <2>1, <2>2, LastListed
  <2>4. ReclassifiedKeys(list) \subseteq Pubkeys
    BY <1>0, <2>2 DEF ReclassifiedKeys, AccessTypeOK
  <2>5. \A key \in ReclassifiedKeys(list) :
          ~Listed(list, key) => key \in DOMAIN user_classes /\ user_classes[key] \in {0, 1}
    BY <1>0 DEF ReclassifiedKeys, Listed, AccessTypeOK
  <2>6. /\ DOMAIN user_classes' = ReclassifiedKeys(list)
        /\ user_classes' \in [ReclassifiedKeys(list) -> {0, 1}]
    BY <1>7, <2>3, <2>5 DEF UpdateUserClass
  <2>7. AccessTypeOK' /\ AuthorityPrivileged'
    BY <1>0, <1>7, <2>4, <2>6 DEF UpdateUserClass, AccessTypeOK, AuthorityPrivileged
  <2>8. ListsFit'
    BY <1>0, <1>7, <2>6 DEF UpdateUserClass, ListsFit
  <2> QED BY <2>7, <2>8 DEF PrivilegeInv
<1> QED BY <1>1, <1>2, <1>3, <1>4, <1>5, <1>6, <1>7 DEF AccessNext

-----------------------------------------------------------------------------
(* Whatever lists the authority submits and however often it hands over,   *)
(* it stays an auth and a guardian, and the lists fit their accounts       *)
(* (update_auths, update_guardians, update_authority, update_user_class).  *)
THEOREM PrivilegesHold ==
  AccessSpec => [](AccessTypeOK /\ AuthorityPrivileged /\ ListsFit)
<1>1. PrivilegeInv => AccessTypeOK /\ AuthorityPrivileged /\ ListsFit
  BY DEF PrivilegeInv
<1> QED BY <1>1, PrivilegeInit, PrivilegeStep, PTL DEF AccessSpec

(* The lists always fit the space of their accounts: no submitted list, no *)
(* handover and no repetition of either grows auths, guardians or classes  *)
(* past the limits that check_max_users and the class check enforce.       *)
THEOREM ListsHold == AccessSpec => []ListsFit
<1>1. PrivilegeInv => ListsFit
  BY DEF PrivilegeInv
<1> QED BY <1>1, PrivilegeInit, PrivilegeStep, PTL DEF AccessSpec

(* update_authority strips the previous authority of both memberships.     *)
THEOREM HandoverAlwaysRevokes == AccessSpec => HandoverRevokes
<1>1. [AccessNext]_accessVars =>
        [authority' # authority =>
           authority \notin auth_users' /\ authority \notin guardians']_accessVars
  <2> SUFFICES ASSUME AccessNext, authority' # authority
               PROVE  authority \notin auth_users' /\ authority \notin guardians'
    OBVIOUS
  <2>1. PICK signer \in Accounts, new \in Accounts : UpdateAuthority(signer, new)
    BY DEF AccessNext, UpdateAuths, UpdateGuardians, UpdateRevenueCollector, ChangeStatus,
           UpdateUserClass
  <2> QED BY <2>1 DEF UpdateAuthority, HandedOver
<1> QED BY <1>1, PTL DEF AccessSpec, HandoverRevokes

-----------------------------------------------------------------------------
(* Multiplication and division of naturals.                                *)

LEMMA ProductMonotonic ==
  ASSUME NEW a \in Nat, NEW b \in Nat, NEW c \in Nat, a <= b
  PROVE  a * c <= b * c /\ c * a <= c * b
<1>1. b = a + (b - a) /\ b - a \in Nat
  OBVIOUS
<1>2. \A d \in Nat : (a + d) * c = a * c + d * c /\ d * c \in Nat /\ c * d = d * c
  OBVIOUS
<1> QED BY <1>1, <1>2

LEMMA Quotient ==
  ASSUME NEW a \in Nat, NEW b \in Nat \ {0}
  PROVE  /\ a \div b \in Nat
         /\ b * (a \div b) <= a
         /\ a < b * (a \div b) + b
OBVIOUS

LEMMA QuotientMonotonic ==
  ASSUME NEW a \in Nat, NEW b \in Nat, NEW c \in Nat \ {0}, a <= b
  PROVE  a \div c <= b \div c
<1> DEFINE p == a \div c
           q == b \div c
<1>1. p \in Nat /\ q \in Nat /\ c * p <= a /\ b < c * q + c
  BY Quotient
<1> HIDE DEF p, q
<1>2. SUFFICES ASSUME q + 1 <= p PROVE FALSE
  BY <1>1 DEF p, q
<1>3. c * (q + 1) <= c * p
  BY <1>1, <1>2, ProductMonotonic
<1>4. c * (q + 1) = c * q + c
  BY <1>1
<1>5. c * p \in Nat /\ c * q \in Nat
  BY <1>1
<1> QED BY <1>1, <1>3, <1>4, <1>5

LEMMA QuotientBound ==
  ASSUME NEW a \in Nat, NEW b \in Nat, NEW c \in Nat \ {0}, a <= b * c
  PROVE  a \div c <= b
<1>1. (b * c) \div c = b
  OBVIOUS
<1>2. b * c \in Nat
  OBVIOUS
<1> QED BY <1>1, <1>2, QuotientMonotonic

LEMMA CeilQuotient ==
  ASSUME NEW a \in Nat, NEW b \in Nat \ {0}
  PROVE  /\ DivCeil(a, b) \in Nat
         /\ a <= b * DivCeil(a, b)
<1>1. a + b - 1 \in Nat
  OBVIOUS
<1>2. DivCeil(a, b) \in Nat /\ a + b - 1 < b * DivCeil(a, b) + b
  BY <1>1, Quotient DEF DivCeil
<1>3. b * DivCeil(a, b) \in Nat
  BY <1>2
<1> QED BY <1>2, <1>3

LEMMA Truncated ==
  ASSUME NEW a \in Int, NEW b \in Nat \ {0}
  PROVE  DivTrunc(a, b) \in Int
<1>1. CASE a >= 0
  BY <1>1, Quotient DEF DivTrunc
<1>2. CASE a < 0
  <2>1. -a \in Nat
    BY <1>2
  <2>2. (-a) \div b \in Nat
    BY <2>1, Quotient
  <2> QED BY <1>2, <2>2 DEF DivTrunc
<1> QED BY <1>1, <1>2

LEMMA Saturated ==
  ASSUME NEW a \in Nat, NEW b \in Nat
  PROVE  SaturatingSub(a, b) \in 0..a
BY DEF SaturatingSub

-----------------------------------------------------------------------------
(* Percentages and conversions between the modes.                          *)

LEMMA PercentBound ==
  ASSUME NEW amount \in Nat, NEW pct \in 0..FOUR_DECIMALS
  PROVE  PercentOf(amount, pct) \in 0..amount
<1>1. FOUR_DECIMALS \in Nat \ {0} /\ pct \in Nat
  BY MathAssumption DEF MathAssumption
<1>2. amount * pct \in Nat /\ amount * pct <= amount * FOUR_DECIMALS
  BY <1>1, ProductMonotonic
<1>3. (amount * pct) \div FOUR_DECIMALS \in Nat
  BY <1>1, <1>2, Quotient
<1>4. (amount * pct) \div FOUR_DECIMALS <= amount
  BY <1>1, <1>2, QuotientBound
<1> QED BY <1>3, <1>4 DEF PercentOf

LEMMA PercentNatural ==
  ASSUME NEW amount \in Nat, NEW pct \in Nat
  PROVE  PercentOf(amount, pct) \in Nat
<1>1. amount * pct \in Nat
  OBVIOUS
<1> QED BY <1>1, Quotient, MathAssumption DEF PercentOf, MathAssumption

LEMMA Converted ==
  ASSUME NEW amount \in Nat, NEW mode, NEW price \in Nat \ {0}
  PROVE  ToMode(amount, mode, price) \in Nat /\ ToModeCeil(amount, mode, price) \in Nat
<1>1. Precision \in Nat \ {0}
  BY MathAssumption DEF MathAssumption, Precision
<1>2. amount * Precision \in Nat /\ amount * price \in Nat
  BY <1>1
<1> QED BY <1>1, <1>2, Quotient, CeilQuotient DEF ToMode, ToModeCeil

LEMMA ConvertedMonotonic ==
  ASSUME NEW a \in Nat, NEW b \in Nat, NEW mode, NEW price \in Nat \ {0}, a <= b
  PROVE  ToMode(a, mode, price) <= ToMode(b, mode, price)
<1>1. Precision \in Nat \ {0}
  BY MathAssumption DEF MathAssumption, Precision
<1>2. /\ a * Precision \in Nat /\ b * Precision \in Nat /\ a * Precision <= b * Precision
      /\ a * price \in Nat /\ b * price \in Nat /\ a * price <= b * price
  BY <1>1, ProductMonotonic
<1> QED BY <1>1, <1>2, QuotientMonotonic DEF ToMode

-----------------------------------------------------------------------------
(* Supply positions.                                                       *)

LEMMA SupplyDeltaInteger ==
  ASSUME NEW pos \in SupplyPosition, NEW amount \in Int, NEW price \in Nat \ {0}
  PROVE  /\ SupplyDelta(pos, amount, price) \in Int
         /\ amount > 0 => SupplyDelta(pos, amount, price) >= 0
<1>1. Precision \in Nat \ {0}
  BY MathAssumption DEF MathAssumption, Precision
<1>2. pos.with_interest \in BOOLEAN
  BY DEF SupplyPosition
<1>3. CASE amount > 0
  <2>1. amount * Precision \in Nat
    BY <1>1, <1>3
  <2>2. (amount * Precision) \div price \in Nat
    BY <2>1, Quotient
  <2> QED BY <1>2, <1>3, <2>2 DEF SupplyDelta
<1>4. CASE amount <= 0
  <2>1. -amount * Precision \in Nat
    BY <1>1, <1>4
  <2>2. DivCeil(-amount * Precision, price) \in Nat
    BY <2>1, CeilQuotient
  <2> QED BY <1>2, <1>4, <2>2 DEF SupplyDelta
<1> QED BY <1>3, <1>4

(* The limit in force never exceeds the larger of the stored limit and the *)
(* amount.                                                                 *)
LEMMA LimitInForce ==
  ASSUME NEW pos \in SupplyPosition, NEW t \in Nat, pos.last_update <= t,
         pos.withdrawal_limit # 0 => pos.expand_duration # 0
  PROVE  /\ WithdrawalLimitBefore(pos, t) \in 0..U64_MAX
         /\ \/ WithdrawalLimitBefore(pos, t) <= pos.withdrawal_limit
            \/ WithdrawalLimitBefore(pos, t) <= pos.amount
<1>1. /\ pos.amount \in 0..U64_MAX /\ pos.withdrawal_limit \in 0..U64_MAX
      /\ pos.expand_pct \in 0..FOUR_DECIMALS /\ pos.expand_duration \in Nat
      /\ pos.last_update \in Nat /\ U64_MAX \in Nat
  BY MathAssumption, PositionsAssumption DEF SupplyPosition, MathAssumption, PositionsAssumption
<1>2. CASE pos.withdrawal_limit = 0
  BY <1>1, <1>2 DEF WithdrawalLimitBefore
<1>3. CASE pos.withdrawal_limit # 0
  <2> DEFINE withdrawable == PercentOf(pos.amount, pos.expand_pct)
             expanded == (withdrawable * (t - pos.last_update)) \div pos.expand_duration
             shrunk == SaturatingSub(pos.withdrawal_limit, expanded)
  <2>1. withdrawable \in 0..pos.amount
    BY <1>1, PercentBound
  <2>2. withdrawable * (t - pos.last_update) \in Nat
    BY <1>1, <2>1
  <2>3. expanded \in Nat
    BY <1>1, <1>3, <2>2, Quotient
  <2> HIDE DEF expanded
  <2>4. shrunk \in 0..pos.withdrawal_limit
    BY <1>1, <2>3 DEF SaturatingSub
  <2>5. WithdrawalLimitBefore(pos, t) = Greatest(shrunk, pos.amount - withdrawable)
    BY <1>3 DEF WithdrawalLimitBefore, expanded
  <2> HIDE DEF withdrawable, shrunk
  <2> QED BY <1>1, <2>1, <2>4, <2>5 DEF Greatest
<1> QED BY <1>2, <1>3

LEMMA LimitAfterwards ==
  ASSUME NEW pos \in SupplyPosition, NEW amount \in Nat, NEW limit \in Nat
  PROVE  /\ WithdrawalLimitAfter(pos, amount, limit) \in Nat
         /\ \/ WithdrawalLimitAfter(pos, amount, limit) <= amount
            \/ WithdrawalLimitAfter(pos, amount, limit) <= limit
<1>1. pos.expand_pct \in 0..FOUR_DECIMALS
  BY DEF SupplyPosition
<1>2. PercentOf(amount, pos.expand_pct) \in 0..amount
  BY <1>1, PercentBound
<1> QED BY <1>2 DEF WithdrawalLimitAfter, Greatest

(* What operate makes of a supply position it accepts.                     *)
LEMMA SupplyOperated ==
  ASSUME NEW pos \in SupplyPosition, NEW amount \in Int, NEW price \in Nat \ {0},
         NEW t \in Nat, pos.last_update <= t,
         SupplyOrWithdrawAllowed(pos, amount, price, t)
  PROVE  LET new == SupplyOrWithdraw(pos, amount, price, t)
         IN  /\ new \in SupplyPosition
             /\ new.last_update = t
             /\ new.with_interest = pos.with_interest
             /\ new.amount = pos.amount + SupplyDelta(pos, amount, price)
             /\ pos.withdrawal_limit <= pos.amount => new.withdrawal_limit <= new.amount
<1> DEFINE sum == pos.amount + SupplyDelta(pos, amount, price)
           before == WithdrawalLimitBefore(pos, t)
           after == WithdrawalLimitAfter(pos, sum, before)
<1>1. /\ pos.amount \in 0..U64_MAX /\ pos.withdrawal_limit \in 0..U64_MAX /\ U64_MAX \in Nat
  BY MathAssumption DEF SupplyPosition, MathAssumption
<1>2. sum \in 0..U64_MAX /\ (amount < 0 => sum >= before)
  BY DEF SupplyOrWithdrawAllowed
<1>3. SupplyDelta(pos, amount, price) \in Int /\ (amount > 0 => sum >= pos.amount)
  BY <1>1, SupplyDeltaInteger
<1>4. amount # 0
  <2>1. SUFFICES ASSUME amount = 0 PROVE SupplyDelta(pos, amount, price) = 0
    BY DEF SupplyOrWithdrawAllowed
  <2>2. Precision \in Nat \ {0} /\ pos.with_interest \in BOOLEAN
    BY MathAssumption DEF MathAssumption, Precision, SupplyPosition
  <2>3. -amount * Precision = 0
    BY <2>1, <2>2
  <2>4. DivCeil(0, price) = 0
    BY Quotient DEF DivCeil
  <2> QED BY <2>1, <2>2, <2>3, <2>4 DEF SupplyDelta
<1>5. /\ before \in 0..U64_MAX
      /\ before <= pos.withdrawal_limit \/ before <= pos.amount
  BY LimitInForce DEF SupplyOrWithdrawAllowed
<1> HIDE DEF sum, before
<1>6. after \in Nat /\ (after <= sum \/ after <= before)
  <2>1. sum \in Nat /\ before \in Nat
    BY <1>1, <1>2, <1>5
  <2> QED BY <2>1, LimitAfterwards
<1> HIDE DEF after
<1>7. pos.withdrawal_limit <= pos.amount => after <= sum
  BY <1>1, <1>2, <1>3, <1>4, <1>5, <1>6
<1>8. after \in 0..U64_MAX
  BY <1>1, <1>2, <1>5, <1>6
<1>9. SupplyOrWithdraw(pos, amount, price, t) =
        [pos EXCEPT !.amount = sum, !.withdrawal_limit = after, !.last_update = t]
  BY DEF SupplyOrWithdraw, sum, before, after
<1> QED BY <1>1, <1>2, <1>7, <1>8, <1>9 DEF SupplyPosition, sum

-----------------------------------------------------------------------------
(* Borrow positions.                                                       *)

LEMMA BorrowDeltaInteger ==
  ASSUME NEW pos \in BorrowPosition, NEW amount \in Int, NEW price \in Nat \ {0}
  PROVE  BorrowDelta(pos, amount, price) \in Int
<1>1. Precision \in Nat \ {0} /\ pos.with_interest \in BOOLEAN
  BY MathAssumption DEF MathAssumption, Precision, BorrowPosition
<1>2. CASE amount > 0
  <2>1. amount * Precision \in Nat
    BY <1>1, <1>2
  <2>2. DivCeil(amount * Precision, price) \in Nat
    BY <2>1, CeilQuotient
  <2> QED BY <1>1, <1>2, <2>2 DEF BorrowDelta
<1>3. CASE amount <= 0
  <2>1. -amount * Precision \in Nat
    BY <1>1, <1>3
  <2>2. (-amount * Precision) \div price \in Nat
    BY <2>1, Quotient
  <2> QED BY <1>1, <1>3, <2>2 DEF BorrowDelta
<1> QED BY <1>2, <1>3

LEMMA ExpandedNatural ==
  ASSUME NEW pos \in BorrowPosition, NEW amount \in Nat
  PROVE  PercentOf(amount, pos.expand_pct) \in Nat /\ FullyExpanded(pos, amount) \in Nat
<1>1. pos.expand_pct \in Nat
  BY PositionsAssumption DEF BorrowPosition, PositionsAssumption
<1>2. PercentOf(amount, pos.expand_pct) \in Nat
  BY <1>1, PercentNatural
<1> QED BY <1>2 DEF FullyExpanded

LEMMA CeilingInForce ==
  ASSUME NEW pos \in BorrowPosition, NEW t \in Nat, pos.last_update <= t,
         FullyExpanded(pos, pos.amount) >= pos.base_debt_ceiling => pos.expand_duration # 0
  PROVE  BorrowLimitBefore(pos, t) \in Nat
<1>1. /\ pos.amount \in Nat /\ pos.debt_ceiling \in Nat /\ pos.base_debt_ceiling \in Nat
      /\ pos.max_debt_ceiling \in Nat /\ pos.expand_pct \in Nat /\ pos.expand_duration \in Nat
      /\ pos.last_update \in Nat
  BY MathAssumption, PositionsAssumption DEF BorrowPosition, MathAssumption, PositionsAssumption
<1> DEFINE expansion == PercentOf(pos.amount, pos.expand_pct)
           full == FullyExpanded(pos, pos.amount)
<1>2. expansion \in Nat /\ full \in Nat
  BY <1>1, ExpandedNatural
<1>3. CASE full < pos.base_debt_ceiling
  BY <1>1, <1>3 DEF BorrowLimitBefore
<1>4. CASE ~(full < pos.base_debt_ceiling)
  <2> HIDE DEF expansion
  <2>1. expansion * (t - pos.last_update) \in Nat /\ pos.expand_duration \in Nat \ {0}
    BY <1>1, <1>2, <1>4
  <2>2. (expansion * (t - pos.last_update)) \div pos.expand_duration \in Nat
    BY <2>1, Quotient
  <2> DEFINE expanded ==
               (expansion * (t - pos.last_update)) \div pos.expand_duration + pos.debt_ceiling
  <2>3. expanded \in Nat
    BY <1>1, <2>2
  <2>4. BorrowLimitBefore(pos, t) = Least(Least(expanded, full), pos.max_debt_ceiling)
    BY <1>4 DEF BorrowLimitBefore, expansion
  <2> HIDE DEF expanded, full
  <2> QED BY <1>1, <1>2, <2>3, <2>4 DEF Least
<1> QED BY <1>3, <1>4

LEMMA CeilingAfterwards ==
  ASSUME NEW pos \in BorrowPosition, NEW amount \in Nat, NEW limit \in Nat
  PROVE  BorrowLimitAfter(pos, amount, limit) \in 0..U64_MAX
<1>1. /\ pos.base_debt_ceiling \in 0..U64_MAX /\ pos.max_debt_ceiling \in 0..U64_MAX
      /\ pos.expand_pct \in Nat /\ U64_MAX \in Nat
  BY MathAssumption, PositionsAssumption DEF BorrowPosition, MathAssumption, PositionsAssumption
<1>2. FullyExpanded(pos, amount) \in Nat
  BY <1>1, ExpandedNatural
<1> QED BY <1>1, <1>2 DEF BorrowLimitAfter, Least

(* What operate makes of a borrow position it accepts.                     *)
LEMMA BorrowOperated ==
  ASSUME NEW pos \in BorrowPosition, NEW amount \in Int, NEW price \in Nat \ {0},
         NEW t \in Nat, pos.last_update <= t,
         BorrowOrPaybackAllowed(pos, amount, price, t)
  PROVE  LET new == BorrowOrPayback(pos, amount, price, t)
         IN  /\ new \in BorrowPosition
             /\ new.last_update = t
             /\ new.with_interest = pos.with_interest
             /\ new.amount = pos.amount + BorrowDelta(pos, amount, price)
<1> DEFINE sum == pos.amount + BorrowDelta(pos, amount, price)
           after == BorrowLimitAfter(pos, sum, BorrowLimitBefore(pos, t))
<1>1. sum \in 0..U64_MAX /\ U64_MAX \in Nat
  BY MathAssumption DEF BorrowOrPaybackAllowed, MathAssumption
<1>2. BorrowLimitBefore(pos, t) \in Nat
  BY CeilingInForce DEF BorrowOrPaybackAllowed
<1>3. sum \in Nat
  BY <1>1
<1> HIDE DEF sum
<1>4. after \in 0..U64_MAX
  BY <1>2, <1>3, CeilingAfterwards
<1>5. BorrowOrPayback(pos, amount, price, t) =
        [pos EXCEPT !.amount = sum, !.debt_ceiling = after, !.last_update = t]
  BY DEF BorrowOrPayback, sum
<1> HIDE DEF after
<1> QED BY <1>1, <1>4, <1>5 DEF BorrowPosition, sum

-----------------------------------------------------------------------------
(* The rate curve.                                                         *)

LEMMA LineInteger ==
  ASSUME NEW y1 \in Nat, NEW y2 \in Nat, NEW x1 \in Nat, NEW x2 \in Nat, x1 < x2,
         NEW utilization \in Nat
  PROVE  GetRate(y1, y2, x1, x2, utilization) \in Int
<1> DEFINE slope == DivTrunc((y2 - y1) * TWELVE_DECIMALS, x2 - x1)
           constant == y1 * TWELVE_DECIMALS - slope * x1
<1>1. TWELVE_DECIMALS \in Nat \ {0}
  BY MathAssumption DEF MathAssumption
<1>2. (y2 - y1) * TWELVE_DECIMALS \in Int /\ x2 - x1 \in Nat \ {0}
  BY <1>1
<1>3. slope \in Int
  BY <1>2, Truncated
<1> HIDE DEF slope
<1>4. slope * utilization + constant \in Int
  BY <1>1, <1>3
<1> HIDE DEF constant
<1>5. DivTrunc(slope * utilization + constant, TWELVE_DECIMALS) \in Int
  BY <1>1, <1>4, Truncated
<1> QED BY <1>5 DEF GetRate, slope, constant

-----------------------------------------------------------------------------
(* The inductive invariant.                                                *)

ModelValid(m) ==
  /\ m.version = 1 => m.kink1_utilization \in 1..(FOUR_DECIMALS - 1)
  /\ m.version = 2 => /\ m.kink1_utilization > 0
                      /\ m.kink1_utilization < m.kink2_utilization
                      /\ m.kink2_utilization < FOUR_DECIMALS

TimesPast ==
  /\ reserve.last_update_timestamp <= now
  /\ \A p \in Protocols : supplyPos[p].last_update <= now /\ borrowPos[p].last_update <= now

TypeInv == TypeOK /\ PrivilegeInv /\ ModelValid(rate_model) /\ TimesPast

(* A reserve whose totals have not yet been checked against u64.           *)
LooseReserve ==
  [borrow_rate : 0..U16_MAX, fee_on_interest : 0..FOUR_DECIMALS,
   last_utilization : 0..U16_MAX, last_update_timestamp : Nat,
   supply_exchange_price : 1..U64_MAX, borrow_exchange_price : 1..U64_MAX,
   max_utilization : 0..FOUR_DECIMALS,
   total_supply_with_interest : Nat, total_supply_interest_free : Nat,
   total_borrow_with_interest : Nat, total_borrow_interest_free : Nat,
   total_claim_amount : Amount]

-----------------------------------------------------------------------------
(* Exchange prices.                                                        *)

LEMMA Constants ==
  /\ Precision \in Nat \ {0} /\ Percent \in Nat \ {0} /\ Output \in Nat \ {0}
  /\ FOUR_DECIMALS \in Nat \ {0} /\ SECONDS_PER_YEAR \in Nat \ {0}
  /\ TWELVE_DECIMALS \in Nat \ {0} /\ U64_MAX \in Nat /\ U16_MAX \in Nat
  /\ FOUR_DECIMALS <= U16_MAX /\ Precision <= U64_MAX
BY MathAssumption DEF MathAssumption, Precision, Percent, Output

LEMMA Tightened ==
  ASSUME NEW r \in LooseReserve, TotalsFit(r)
  PROVE  r \in Reserve
BY Constants DEF LooseReserve, Reserve, TotalsFit, Amount

LEMMA Loosened ==
  ASSUME NEW r \in Reserve
  PROVE  r \in LooseReserve
BY Constants DEF LooseReserve, Reserve, Amount

LEMMA RatioNatural ==
  ASSUME NEW a \in Nat, NEW b \in Nat
  PROVE  WithInterestVsFreeRatio(a, b) \in Nat
<1>1. CASE a = 0 /\ b = 0
  BY <1>1 DEF WithInterestVsFreeRatio
<1>2. CASE ~(a = 0 /\ b = 0)
  <2>1. Least(a, b) \in Nat /\ Greatest(a, b) \in Nat \ {0}
    BY <1>2 DEF Least, Greatest
  <2>2. Least(a, b) * Percent \in Nat
    BY <2>1, Constants
  <2> QED BY <1>2, <2>1, <2>2, Quotient DEF WithInterestVsFreeRatio
<1> QED BY <1>1, <1>2

LEMMA LenderYieldNatural ==
  ASSUME NEW r \in LooseReserve, ~NoEarningSupply(r)
  PROVE  LenderYield(r) \in Nat
<1>1. /\ r.total_supply_with_interest \in Nat /\ r.total_supply_interest_free \in Nat
      /\ r.last_utilization \in Nat
  BY Constants DEF LooseReserve
<1>2. SupplyRatio(r) \in Nat
  BY <1>1, RatioNatural DEF SupplyRatio
<1>3. CASE r.total_supply_with_interest < r.total_supply_interest_free
  <2>1. SupplyRatio(r) \in Nat \ {0}
    BY <1>2, <1>3 DEF NoEarningSupply
  <2> DEFINE inverse == (Output * Percent) \div SupplyRatio(r)
  <2>2. Output * Percent \in Nat
    BY Constants
  <2>3. inverse \in Nat
    BY <2>1, <2>2, Quotient
  <2> HIDE DEF inverse
  <2>4. r.last_utilization * (Output + inverse) \in Nat
    BY <1>1, <2>3, Constants
  <2>5. (r.last_utilization * (Output + inverse)) \div Percent \in Nat
    BY <2>4, Constants, Quotient
  <2> QED BY <1>3, <2>5 DEF LenderYield, inverse
<1>4. CASE ~(r.total_supply_with_interest < r.total_supply_interest_free)
  <2>1. r.last_utilization * Output \in Nat
    BY <1>1, Constants
  <2>2. r.last_utilization * Output * (Percent + SupplyRatio(r)) \in Nat
    BY <1>2, <2>1, Constants
  <2>3. Percent * Percent \in Nat \ {0}
    BY Constants
  <2>4. (r.last_utilization * Output * (Percent + SupplyRatio(r))) \div (Percent * Percent) \in Nat
    BY <2>2, <2>3, Quotient
  <2> QED BY <1>4, <2>4 DEF LenderYield
<1> QED BY <1>3, <1>4

LEMMA PayingBorrowersNatural ==
  ASSUME NEW r \in LooseReserve
  PROVE  PayingBorrowers(r) \in 0..Output
<1>1. BorrowRatio(r) \in Nat
  BY RatioNatural DEF BorrowRatio, LooseReserve
<1> DEFINE whole == Percent + BorrowRatio(r)
           part == (BorrowRatio(r) * Output) \div whole
<1>2. whole \in Nat \ {0} /\ BorrowRatio(r) <= whole
  BY <1>1, Constants
<1>3. BorrowRatio(r) * Output \in Nat /\ BorrowRatio(r) * Output <= whole * Output
  BY <1>1, <1>2, Constants, ProductMonotonic
<1> HIDE DEF whole
<1>4. whole * Output = Output * whole
  BY <1>2, Constants
<1>5. part \in Nat /\ part <= Output
  BY <1>2, <1>3, <1>4, Constants, Quotient, QuotientBound
<1>6. PayingBorrowers(r) = part \/ PayingBorrowers(r) = Output - part
  BY DEF PayingBorrowers, whole
<1> HIDE DEF part
<1> QED BY <1>5, <1>6, Constants

LEMMA SupplyRateNatural ==
  ASSUME NEW r \in LooseReserve, ~NoEarningSupply(r)
  PROVE  SupplyRate(r) \in Nat
<1>1. /\ LenderYield(r) \in Nat /\ PayingBorrowers(r) \in Nat
  BY LenderYieldNatural, PayingBorrowersNatural, Constants
<1>2. /\ r.borrow_rate \in Nat /\ Percent - r.fee_on_interest \in Nat
  BY Constants DEF LooseReserve, Percent
<1>3. LenderYield(r) * PayingBorrowers(r) \in Nat
  BY <1>1
<1>4. (LenderYield(r) * PayingBorrowers(r)) \div Output \in Nat
  BY <1>3, Constants, Quotient
<1>5. ((LenderYield(r) * PayingBorrowers(r)) \div Output) * Percent \in Nat
  BY <1>4, Constants
<1> DEFINE ratio == (((LenderYield(r) * PayingBorrowers(r)) \div Output) * Percent) \div Output
<1>6. ratio \in Nat
  BY <1>5, Constants, Quotient
<1> HIDE DEF ratio
<1>7. r.borrow_rate * ratio * (Percent - r.fee_on_interest) \in Nat
  BY <1>2, <1>6
<1> QED BY <1>7 DEF SupplyRate, ratio

(* Prices exist and never fall as time passes.                             *)
LEMMA PricesGrow ==
  ASSUME NEW r \in LooseReserve, NEW t \in Nat, r.last_update_timestamp <= t
  PROVE  LET prices == CalculateExchangePrices(r, t)
         IN  /\ prices \in [supply : Nat \ {0}, borrow : Nat \ {0}]
             /\ prices.supply >= r.supply_exchange_price
             /\ prices.borrow >= r.borrow_exchange_price
<1> DEFINE elapsed == t - r.last_update_timestamp
           idle == elapsed = 0 \/ r.borrow_rate = 0 \/ r.total_borrow_with_interest = 0
           sp == r.supply_exchange_price
           bp == r.borrow_exchange_price
           year == SECONDS_PER_YEAR * Percent
           sgain == ((sp * SupplyRate(r) * elapsed) \div year) \div (Percent * Percent)
           bgain == DivCeil(bp * r.borrow_rate * elapsed, year)
           prices == CalculateExchangePrices(r, t)
<1>1. /\ sp \in Nat \ {0} /\ bp \in Nat \ {0} /\ r.borrow_rate \in Nat /\ elapsed \in Nat
      /\ Percent * Percent \in Nat \ {0} /\ year \in Nat \ {0}
  BY Constants DEF LooseReserve
<1> HIDE DEF elapsed, year
<1>2. ~NoEarningSupply(r) => sgain \in Nat
  <2> SUFFICES ASSUME ~NoEarningSupply(r) PROVE sgain \in Nat
    OBVIOUS
  <2>1. SupplyRate(r) \in Nat
    BY SupplyRateNatural
  <2>2. sp * SupplyRate(r) * elapsed \in Nat
    BY <1>1, <2>1
  <2>3. (sp * SupplyRate(r) * elapsed) \div year \in Nat
    BY <1>1, <2>2, Quotient
  <2> QED BY <1>1, <2>3, Quotient
<1>3. bgain \in Nat
  <2>1. bp * r.borrow_rate * elapsed \in Nat
    BY <1>1
  <2> QED BY <1>1, <2>1, CeilQuotient
<1> HIDE DEF sp, bp
<1>4. prices = [supply |-> IF idle \/ NoEarningSupply(r) THEN sp ELSE sp + sgain,
                borrow |-> IF idle THEN bp ELSE bp + bgain]
  BY DEF CalculateExchangePrices, elapsed, year, sp, bp
<1> HIDE DEF idle, sgain, bgain, prices
<1>5. /\ prices.supply = IF idle \/ NoEarningSupply(r) THEN sp ELSE sp + sgain
      /\ prices.borrow = IF idle THEN bp ELSE bp + bgain
  BY <1>4
<1>6. prices.supply \in Nat \ {0} /\ prices.supply >= sp
  BY <1>1, <1>2, <1>5
<1>7. prices.borrow \in Nat \ {0} /\ prices.borrow >= bp
  BY <1>1, <1>3, <1>5
<1> QED BY <1>4, <1>6, <1>7 DEF prices, sp, bp

-----------------------------------------------------------------------------
(* Refreshing the reserve.                                                 *)

LEMMA UtilizationNatural ==
  ASSUME NEW r \in LooseReserve, NEW prices \in [supply : Nat \ {0}, borrow : Nat \ {0}]
  PROVE  CalcUtilization(r, prices) \in Nat
<1>1. /\ ScaledSupply(r, prices.supply) \in Nat /\ ScaledBorrow(r, prices.borrow) \in Nat
  BY Constants DEF LooseReserve, ScaledSupply, ScaledBorrow
<1>2. ScaledBorrow(r, prices.borrow) * Percent \in Nat
  BY <1>1, Constants
<1> QED BY <1>1, <1>2, Quotient DEF CalcUtilization

LEMMA RateTyped ==
  ASSUME NEW m \in RateModel, ModelValid(m), NEW utilization \in Nat,
         RateDefined(m, utilization)
  PROVE  CalcBorrowRate(m, utilization) \in 0..U16_MAX
<1>1. /\ m.kink1_utilization \in Nat /\ m.kink2_utilization \in Nat
      /\ m.rate_at_zero \in Nat /\ m.rate_at_kink1 \in Nat /\ m.rate_at_kink2 \in Nat
      /\ m.rate_at_max \in Nat
  BY Constants DEF RateModel
<1>2. RawRate(m, utilization) \in Int
  <2>1. CASE m.version = 1
    <3>1. 0 < m.kink1_utilization /\ m.kink1_utilization < Percent
      BY <2>1, Constants DEF ModelValid, Percent
    <3>2. CalcRateV1(m, utilization) \in Int
      BY <1>1, <3>1, LineInteger, Constants DEF CalcRateV1
    <3> QED BY <2>1, <3>2 DEF RawRate
  <2>2. CASE m.version = 2
    <3>1. /\ 0 < m.kink1_utilization /\ m.kink1_utilization < m.kink2_utilization
          /\ m.kink2_utilization < Percent
      BY <2>2, Constants DEF ModelValid, Percent
    <3>2. /\ GetRate(m.rate_at_zero, m.rate_at_kink1, 0, m.kink1_utilization, utilization) \in Int
          /\ GetRate(m.rate_at_kink1, m.rate_at_kink2,
                     m.kink1_utilization, m.kink2_utilization, utilization) \in Int
          /\ GetRate(m.rate_at_kink2, m.rate_at_max,
                     m.kink2_utilization, Percent, utilization) \in Int
      BY <1>1, <3>1, LineInteger, Constants
    <3>3. CalcRateV2(m, utilization) \in Int
      BY <1>1, <3>2 DEF CalcRateV2
    <3> QED BY <2>2, <3>3 DEF RawRate
  <2> QED BY <2>1, <2>2 DEF RateDefined
<1>3. RawRate(m, utilization) >= 0
  BY DEF RateDefined
<1> QED BY <1>2, <1>3, Constants DEF CalcBorrowRate, Least, MAX_RATE

LEMMA PricesStored ==
  ASSUME NEW r \in LooseReserve, now \in Nat,
         NEW prices \in [supply : Nat \ {0}, borrow : Nat \ {0}], PricesFit(prices)
  PROVE  /\ WithPrices(r, prices) \in LooseReserve
         /\ WithPrices(r, prices).last_update_timestamp = now
         /\ TotalsFit(r) => TotalsFit(WithPrices(r, prices))
<1>1. prices.supply \in 1..U64_MAX /\ prices.borrow \in 1..U64_MAX
  BY Constants DEF PricesFit
<1> QED BY <1>1 DEF WithPrices, LooseReserve, TotalsFit

LEMMA RestatedTyped ==
  ASSUME NEW r \in LooseReserve, now \in Nat, TotalsFit(r),
         NEW prices \in [supply : Nat \ {0}, borrow : Nat \ {0}],
         NEW m \in RateModel, ModelValid(m), RestateAllowed(r, prices, m)
  PROVE  /\ Restated(r, prices, m) \in Reserve
         /\ Restated(r, prices, m).last_update_timestamp = now
<1>1. WithPrices(r, prices) \in LooseReserve /\ TotalsFit(WithPrices(r, prices))
      /\ WithPrices(r, prices).last_update_timestamp = now
  BY PricesStored DEF RestateAllowed
<1>2. WithPrices(r, prices) \in Reserve
  BY <1>1, Tightened
<1>3. CalcUtilization(r, prices) \in 0..U16_MAX
  BY UtilizationNatural, Constants DEF RestateAllowed
<1>4. CalcUtilization(r, prices) \in Nat
  BY UtilizationNatural
<1>5. CalcBorrowRate(m, CalcUtilization(r, prices)) \in 0..U16_MAX
  BY <1>4, RateTyped DEF RestateAllowed
<1> QED BY <1>1, <1>2, <1>3, <1>5 DEF Restated, Reserve

LEMMA AccruedTyped ==
  ASSUME NEW r \in Reserve, now \in Nat, r.last_update_timestamp <= now,
         PricesFit(CalculateExchangePrices(r, now))
  PROVE  Accrued(r) \in Reserve /\ Accrued(r).last_update_timestamp = now
<1>1. r \in LooseReserve /\ TotalsFit(r)
  BY Loosened DEF Reserve, TotalsFit, Amount
<1>2. CalculateExchangePrices(r, now) \in [supply : Nat \ {0}, borrow : Nat \ {0}]
  BY <1>1, PricesGrow
<1>3. /\ Accrued(r) \in LooseReserve /\ TotalsFit(Accrued(r))
      /\ Accrued(r).last_update_timestamp = now
  BY <1>1, <1>2, PricesStored DEF Accrued
<1> QED BY <1>3, Tightened

LEMMA RefreshedTyped ==
  ASSUME NEW r \in LooseReserve, TotalsFit(r), now \in Nat, r.last_update_timestamp <= now,
         NEW m \in RateModel, ModelValid(m), RefreshAllowed(r, m)
  PROVE  Refreshed(r, m) \in Reserve /\ Refreshed(r, m).last_update_timestamp = now
<1>1. CalculateExchangePrices(r, now) \in [supply : Nat \ {0}, borrow : Nat \ {0}]
  BY PricesGrow
<1> QED BY <1>1, RestatedTyped DEF Refreshed, RefreshAllowed

LEMMA ShiftTyped ==
  ASSUME NEW r \in LooseReserve, NEW mode, NEW delta \in Int
  PROVE  /\ ShiftSupply(r, mode, delta) \in LooseReserve
         /\ ShiftBorrow(r, mode, delta) \in LooseReserve
         /\ ShiftSupply(r, mode, delta).last_update_timestamp = r.last_update_timestamp
         /\ ShiftBorrow(r, mode, delta).last_update_timestamp = r.last_update_timestamp
<1>1. \A total \in Nat : Shifted(total, delta) \in Nat
  BY DEF Shifted, SaturatingSub
<1> QED BY <1>1 DEF ShiftSupply, ShiftBorrow, LooseReserve

-----------------------------------------------------------------------------
(* One lemma per group of instructions: each keeps the invariant.          *)

LEMMA Unpacked ==
  ASSUME TypeInv
  PROVE  /\ now \in Nat /\ vault \in Amount /\ reserve \in Reserve
         /\ interacting \in Interaction /\ rate_model \in RateModel /\ ModelValid(rate_model)
         /\ supplyPos \in [Protocols -> SupplyPosition]
         /\ borrowPos \in [Protocols -> BorrowPosition]
         /\ claimOpen \subseteq Recipients /\ claimAmount \in [Recipients -> Nat]
         /\ reserve.last_update_timestamp <= now
         /\ \A p \in Protocols : supplyPos[p].last_update <= now /\ borrowPos[p].last_update <= now
         /\ reserve \in LooseReserve /\ TotalsFit(reserve)
         /\ CalculateExchangePrices(reserve, now) \in [supply : Nat \ {0}, borrow : Nat \ {0}]
<1>1. reserve \in Reserve /\ reserve.last_update_timestamp <= now /\ now \in Nat
  BY DEF TypeInv, TypeOK, TimesPast
<1>2. reserve \in LooseReserve /\ TotalsFit(reserve)
  BY <1>1, Loosened DEF Reserve, TotalsFit, Amount
<1>3. CalculateExchangePrices(reserve, now) \in [supply : Nat \ {0}, borrow : Nat \ {0}]
  BY <1>1, <1>2, PricesGrow
<1> QED BY <1>1, <1>2, <1>3 DEF TypeInv, TypeOK, TimesPast

LEMMA PrivilegeUnchanged ==
  ASSUME PrivilegeInv, UNCHANGED accessVars
  PROVE  PrivilegeInv'
BY PrivilegeStep

(* Instructions that leave the reserve, the rate model and the positions   *)
(* alone.                                                                  *)
LEMMA BystandersTyped ==
  ASSUME TypeInv,
         \/ \E p \in Protocols : PreOperate(p)
         \/ \E amount \in Nat : TransferIn(amount)
         \/ \E user \in Recipients : InitClaimAccount(user) \/ CloseClaimAccount(user)
         \/ \E signer \in Accounts : CollectRevenue(signer)
         \/ Tick
  PROVE  TypeInv'
<1>0. PrivilegeInv'
  BY PrivilegeUnchanged DEF TypeInv, PreOperate, TransferIn, InitClaimAccount,
                            CloseClaimAccount, CollectRevenue, Tick
<1>1. ASSUME NEW p \in Protocols, PreOperate(p) PROVE TypeInv'
  BY <1>0, <1>1, Unpacked
     DEF PreOperate, positionVars, claimVars, Interaction, TypeInv, TypeOK, PrivilegeInv, TimesPast
<1>2. ASSUME NEW amount \in Nat, TransferIn(amount) PROVE TypeInv'
  <2>1. vault' \in Amount
    <3>1. amount \in Nat /\ MaxVault \in 0..U64_MAX
      BY LiquidityAssumption DEF LiquidityAssumption
    <3>2. vault \in 0..U64_MAX /\ vault' = vault + amount /\ vault + amount <= MaxVault
      BY <1>2, Unpacked DEF TransferIn, Amount
    <3> QED BY <3>1, <3>2, Constants DEF Amount
  <2> QED BY <1>0, <1>2, <2>1, Unpacked
             DEF TransferIn, positionVars, claimVars, TypeInv, TypeOK, PrivilegeInv, TimesPast
<1>3. ASSUME NEW user \in Recipients, InitClaimAccount(user) \/ CloseClaimAccount(user)
      PROVE  TypeInv'
  BY <1>0, <1>3, Unpacked
     DEF InitClaimAccount, CloseClaimAccount, positionVars, TypeInv, TypeOK, PrivilegeInv, TimesPast
<1>4. ASSUME NEW signer \in Accounts, CollectRevenue(signer) PROVE TypeInv'
  <2>1. CalcRevenue(reserve, vault, now) \in Nat
    <3> DEFINE prices == CalculateExchangePrices(reserve, now)
               supply == TotalSupplyCeil(reserve, prices.supply)
               borrow == TotalBorrow(reserve, prices.borrow)
    <3>1. prices.supply \in Nat /\ prices.borrow \in Nat
      BY Unpacked
    <3> HIDE DEF prices
    <3>2. /\ reserve.total_supply_with_interest * prices.supply \in Nat
          /\ reserve.total_borrow_with_interest * prices.borrow \in Nat
      BY <3>1, Unpacked DEF LooseReserve
    <3>3. supply \in Nat /\ borrow \in Nat
      <4>1. /\ DivCeil(reserve.total_supply_with_interest * prices.supply, Precision) \in Nat
            /\ (reserve.total_borrow_with_interest * prices.borrow) \div Precision \in Nat
        BY <3>2, Constants, CeilQuotient, Quotient
      <4>2. /\ reserve.total_supply_interest_free \in Nat
            /\ reserve.total_borrow_interest_free \in Nat
        BY Unpacked DEF LooseReserve
      <4> QED BY <4>1, <4>2 DEF TotalSupplyCeil, TotalBorrow
    <3> HIDE DEF supply, borrow
    <3>4. vault \in Nat /\ reserve.total_claim_amount \in Nat
      BY Unpacked DEF LooseReserve, Amount
    <3> QED BY <3>3, <3>4 DEF CalcRevenue, SaturatingSub, prices, supply, borrow
  <2>2. vault' \in Amount
    BY <1>4, <2>1, Unpacked, Constants DEF CollectRevenue, Amount
  <2> QED BY <1>0, <1>4, <2>2, Unpacked
             DEF CollectRevenue, positionVars, claimVars, TypeInv, TypeOK, PrivilegeInv, TimesPast
<1>5. ASSUME Tick PROVE TypeInv'
  <2>1. now' \in Nat /\ now <= now'
    BY <1>5, Unpacked DEF Tick
  <2>2. TimesPast'
    <3>1. reserve'.last_update_timestamp <= now'
      BY <1>5, <2>1, Unpacked DEF Tick, Reserve
    <3>2. ASSUME NEW p \in Protocols
          PROVE  supplyPos'[p].last_update <= now' /\ borrowPos'[p].last_update <= now'
      BY <1>5, <2>1, Unpacked DEF Tick, positionVars, SupplyPosition, BorrowPosition
    <3> QED BY <3>1, <3>2 DEF TimesPast
  <2> QED BY <1>0, <1>5, <2>1, <2>2, Unpacked
             DEF Tick, positionVars, claimVars, TypeInv, TypeOK, PrivilegeInv
<1> QED BY <1>1, <1>2, <1>3, <1>4, <1>5

(* Instructions that rewrite the reserve or the rate model only.           *)
LEMMA ReserveStepsTyped ==
  ASSUME TypeInv,
         \/ UpdateExchangePrice
         \/ \E user \in Recipients : Claim(user)
         \/ \E signer \in Accounts, d \in RateDataV1 : UpdateRateDataV1(signer, d)
         \/ \E signer \in Accounts, d \in RateDataV2 : UpdateRateDataV2(signer, d)
         \/ \E signer \in Accounts, c \in TokenConfigs : UpdateTokenConfig(signer, c)
  PROVE  TypeInv'
<1>0. PrivilegeInv'
  BY PrivilegeUnchanged DEF TypeInv, UpdateExchangePrice, Claim, UpdateRateDataV1,
                            UpdateRateDataV2, InstallCurve, UpdateTokenConfig
<1>1. ASSUME UpdateExchangePrice PROVE TypeInv'
  <2>1. reserve' \in Reserve /\ reserve'.last_update_timestamp = now
    BY <1>1, Unpacked, RefreshedTyped DEF UpdateExchangePrice
  <2> QED BY <1>0, <1>1, <2>1, Unpacked
             DEF UpdateExchangePrice, positionVars, claimVars, TypeInv, TypeOK, PrivilegeInv, TimesPast
<1>2. ASSUME NEW user \in Recipients, Claim(user) PROVE TypeInv'
  <2>1. vault' \in Amount /\ reserve' \in Reserve
        /\ reserve'.last_update_timestamp = reserve.last_update_timestamp
    BY <1>2, Unpacked, Constants DEF Claim, Amount, Reserve
  <2> QED BY <1>0, <1>2, <2>1, Unpacked
             DEF Claim, positionVars, TypeInv, TypeOK, PrivilegeInv, TimesPast
<1>3. ASSUME NEW signer \in Accounts, NEW curve \in RateModel, ModelValid(curve),
             InstallCurve(signer, curve)
      PROVE  TypeInv'
  <2>1. Accrued(reserve) \in Reserve /\ Accrued(reserve).last_update_timestamp = now
    BY <1>3, Unpacked, AccruedTyped DEF InstallCurve
  <2>2. Accrued(reserve) \in LooseReserve /\ TotalsFit(Accrued(reserve))
        /\ Accrued(reserve).last_update_timestamp <= now
    BY <2>1, Loosened, Unpacked DEF Reserve, TotalsFit, Amount
  <2>3. reserve' \in Reserve /\ reserve'.last_update_timestamp = now
    BY <1>3, <2>2, Unpacked, RefreshedTyped DEF InstallCurve
  <2> QED BY <1>0, <1>3, <2>3, Unpacked
             DEF InstallCurve, positionVars, claimVars, TypeInv, TypeOK, PrivilegeInv, TimesPast
<1>4. ASSUME NEW signer \in Accounts, NEW d \in RateDataV1, UpdateRateDataV1(signer, d)
      PROVE  TypeInv'
  <2> DEFINE curve == [rate_model EXCEPT !.version = 1,
                         !.rate_at_zero = d.rate_at_utilization_zero,
                         !.kink1_utilization = d.kink,
                         !.rate_at_kink1 = d.rate_at_utilization_kink,
                         !.rate_at_max = d.rate_at_utilization_max]
  <2>1. d \in [kink : Nat, rate_at_utilization_zero : Nat, rate_at_utilization_kink : Nat,
               rate_at_utilization_max : Nat]
    BY LiquidityAssumption DEF LiquidityAssumption
  <2>2. curve \in RateModel /\ ModelValid(curve)
    <3>1. /\ d.kink \in 1..(FOUR_DECIMALS - 1) /\ d.kink \in 0..U16_MAX
          /\ d.rate_at_utilization_zero \in 0..U16_MAX
          /\ d.rate_at_utilization_kink \in 0..U16_MAX
          /\ d.rate_at_utilization_max \in 0..U16_MAX
      <4>1. /\ d.kink \in Nat /\ d.rate_at_utilization_zero \in Nat
            /\ d.rate_at_utilization_kink \in Nat /\ d.rate_at_utilization_max \in Nat
        BY <2>1
      <4>2. /\ d.kink \in 1..(FOUR_DECIMALS - 1)
            /\ d.rate_at_utilization_kink <= d.rate_at_utilization_max
            /\ d.rate_at_utilization_zero <= U16_MAX /\ d.rate_at_utilization_max <= U16_MAX
        BY <1>4 DEF UpdateRateDataV1
      <4> QED BY <4>1, <4>2, Constants
    <3>2. /\ rate_model \in RateModel /\ 1 \in 0..2
      BY Unpacked
    <3>3. curve \in RateModel
      BY <3>1, <3>2 DEF RateModel
    <3>4. curve.version = 1 /\ curve.kink1_utilization = d.kink
      BY <3>2 DEF RateModel
    <3> QED BY <3>1, <3>3, <3>4 DEF ModelValid
  <2>3. InstallCurve(signer, curve)
    BY <1>4 DEF UpdateRateDataV1
  <2> HIDE DEF curve
  <2> QED BY <1>3, <2>2, <2>3
<1>5. ASSUME NEW signer \in Accounts, NEW d \in RateDataV2, UpdateRateDataV2(signer, d)
      PROVE  TypeInv'
  <2> DEFINE curve == [rate_model EXCEPT !.version = 2,
                         !.rate_at_zero = d.rate_at_utilization_zero,
                         !.kink1_utilization = d.kink1,
                         !.rate_at_kink1 = d.rate_at_utilization_kink1,
                         !.kink2_utilization = d.kink2,
                         !.rate_at_kink2 = d.rate_at_utilization_kink2,
                         !.rate_at_max = d.rate_at_utilization_max]
  <2>1. d \in [kink1 : Nat, kink2 : Nat, rate_at_utilization_zero : Nat,
               rate_at_utilization_kink1 : Nat, rate_at_utilization_kink2 : Nat,
               rate_at_utilization_max : Nat]
    BY LiquidityAssumption DEF LiquidityAssumption
  <2>2. curve \in RateModel /\ ModelValid(curve)
    <3>1. /\ d.kink1 \in 0..U16_MAX /\ d.kink2 \in 0..U16_MAX
          /\ d.kink1 > 0 /\ d.kink1 < d.kink2 /\ d.kink2 < FOUR_DECIMALS
          /\ d.rate_at_utilization_zero \in 0..U16_MAX
          /\ d.rate_at_utilization_kink1 \in 0..U16_MAX
          /\ d.rate_at_utilization_kink2 \in 0..U16_MAX
          /\ d.rate_at_utilization_max \in 0..U16_MAX
      <4>1. /\ d.kink1 \in Nat /\ d.kink2 \in Nat /\ d.rate_at_utilization_zero \in Nat
            /\ d.rate_at_utilization_kink1 \in Nat /\ d.rate_at_utilization_kink2 \in Nat
            /\ d.rate_at_utilization_max \in Nat
        BY <2>1
      <4>2. /\ d.kink1 \in 1..(FOUR_DECIMALS - 1) /\ d.kink1 < d.kink2
            /\ d.kink2 < FOUR_DECIMALS
            /\ d.rate_at_utilization_kink2 <= d.rate_at_utilization_max
            /\ d.rate_at_utilization_zero <= U16_MAX
            /\ d.rate_at_utilization_kink1 <= U16_MAX /\ d.rate_at_utilization_max <= U16_MAX
        BY <1>5 DEF UpdateRateDataV2
      <4> QED BY <4>1, <4>2, Constants
    <3>2. /\ rate_model \in RateModel /\ 2 \in 0..2
      BY Unpacked
    <3>3. curve \in RateModel
      BY <3>1, <3>2 DEF RateModel
    <3>4. /\ curve.version = 2 /\ curve.kink1_utilization = d.kink1
          /\ curve.kink2_utilization = d.kink2
      BY <3>2 DEF RateModel
    <3> QED BY <3>1, <3>3, <3>4 DEF ModelValid
  <2>3. InstallCurve(signer, curve)
    BY <1>5 DEF UpdateRateDataV2
  <2> HIDE DEF curve
  <2> QED BY <1>3, <2>2, <2>3
<1>6. ASSUME NEW signer \in Accounts, NEW c \in TokenConfigs, UpdateTokenConfig(signer, c)
      PROVE  TypeInv'
  <2>1. Accrued(reserve) \in Reserve /\ Accrued(reserve).last_update_timestamp = now
    BY <1>6, Unpacked, AccruedTyped DEF UpdateTokenConfig
  <2>2. c.fee \in 0..FOUR_DECIMALS /\ c.max_utilization \in 0..FOUR_DECIMALS
    BY <1>6, LiquidityAssumption, Constants DEF UpdateTokenConfig, LiquidityAssumption
  <2> DEFINE configured == WithTokenConfig(reserve, c)
  <2>3. configured \in Reserve /\ configured.last_update_timestamp = now
    BY <2>1, <2>2 DEF WithTokenConfig, Reserve
  <2> HIDE DEF configured
  <2>4. configured \in LooseReserve /\ TotalsFit(configured)
        /\ configured.last_update_timestamp <= now
    BY <2>3, Loosened, Unpacked DEF Reserve, TotalsFit, Amount
  <2>5. RefreshAllowed(configured, rate_model) /\ reserve' = Refreshed(configured, rate_model)
    BY <1>6 DEF UpdateTokenConfig, configured
  <2>6. reserve' \in Reserve /\ reserve'.last_update_timestamp = now
    BY <2>4, <2>5, Unpacked, RefreshedTyped
  <2> QED BY <1>0, <1>6, <2>6, Unpacked
             DEF UpdateTokenConfig, positionVars, claimVars, TypeInv, TypeOK, PrivilegeInv, TimesPast
<1> QED BY <1>1, <1>2, <1>4, <1>5, <1>6

(* Configurations given to a position keep it a position.                  *)
LEMMA SupplyConfigured ==
  ASSUME NEW pos \in SupplyPosition, NEW c \in UserSupplyConfigs, SupplyConfigAllowed(c)
  PROVE  /\ WithSupplyConfig(pos, c) \in SupplyPosition
         /\ WithSupplyConfig(pos, c).last_update = pos.last_update
         /\ WithSupplyConfig(pos, c).amount = pos.amount
         /\ WithSupplyConfig(pos, c).withdrawal_limit = pos.withdrawal_limit
<1>1. c \in [mode : Nat, expand_percent : Nat, expand_duration : Nat, base_withdrawal_limit : Nat]
  BY LiquidityAssumption DEF LiquidityAssumption
<1>2. /\ c.expand_percent \in 0..FOUR_DECIMALS /\ c.expand_duration \in 0..X24
      /\ c.base_withdrawal_limit \in 0..U64_MAX
  BY <1>1, Constants, PositionsAssumption DEF SupplyConfigAllowed, PositionsAssumption
<1>3. Activated(pos.status) \in Status
  BY DEF Activated, Status, SupplyPosition
<1> QED BY <1>2, <1>3 DEF WithSupplyConfig, SupplyPosition

LEMMA BorrowConfigured ==
  ASSUME NEW pos \in BorrowPosition, NEW c \in UserBorrowConfigs, BorrowConfigAllowed(c)
  PROVE  /\ WithBorrowConfig(pos, c) \in BorrowPosition
         /\ WithBorrowConfig(pos, c).last_update = pos.last_update
<1>1. c \in [mode : Nat, expand_percent : Nat, expand_duration : Nat,
             base_debt_ceiling : Nat, max_debt_ceiling : Nat]
  BY LiquidityAssumption DEF LiquidityAssumption
<1>2. /\ c.expand_percent \in 0..X14 /\ c.expand_duration \in 0..X24
      /\ c.base_debt_ceiling \in 0..U64_MAX /\ c.max_debt_ceiling \in 0..U64_MAX
  BY <1>1, Constants, PositionsAssumption DEF BorrowConfigAllowed, PositionsAssumption
<1>3. Activated(pos.status) \in Status
  BY DEF Activated, Status, BorrowPosition
<1> QED BY <1>2, <1>3 DEF WithBorrowConfig, BorrowPosition

LEMMA LimitAdjusted ==
  ASSUME NEW pos \in SupplyPosition, NEW new_limit \in Nat
  PROVE  /\ AdjustedWithdrawalLimit(pos, new_limit) \in 0..U64_MAX
         /\ AdjustedWithdrawalLimit(pos, new_limit) <= pos.amount
<1>1. /\ pos.amount \in 0..U64_MAX /\ pos.base_withdrawal_limit \in Nat
      /\ pos.expand_pct \in 0..FOUR_DECIMALS /\ U64_MAX \in Nat
  BY Constants DEF SupplyPosition
<1>2. PercentOf(pos.amount, pos.expand_pct) \in 0..pos.amount
  BY <1>1, PercentBound
<1> QED BY <1>1, <1>2 DEF AdjustedWithdrawalLimit, Least

LEMMA SupplyConverted ==
  ASSUME NEW pos \in SupplyPosition, NEW mode, NEW price \in Nat \ {0},
         ConvertedSupply(pos, mode, price).amount <= U64_MAX,
         ConvertedSupply(pos, mode, price).withdrawal_limit <= U64_MAX
  PROVE  LET new == ConvertedSupply(pos, mode, price)
         IN  /\ new \in SupplyPosition
             /\ new.last_update = pos.last_update
             /\ pos.withdrawal_limit <= pos.amount => new.withdrawal_limit <= new.amount
<1> DEFINE new == ConvertedSupply(pos, mode, price)
<1>1. pos.amount \in Nat /\ pos.withdrawal_limit \in Nat
  BY Constants DEF SupplyPosition
<1>2. new.amount = ToMode(pos.amount, mode, price)
      /\ new.withdrawal_limit = ToMode(pos.withdrawal_limit, mode, price)
  BY DEF ConvertedSupply, SupplyPosition
<1>3. new.amount \in 0..U64_MAX /\ new.withdrawal_limit \in 0..U64_MAX
  BY <1>1, <1>2, Converted, Constants
<1>4. new \in SupplyPosition /\ new.last_update = pos.last_update
  BY <1>2, <1>3 DEF ConvertedSupply, SupplyPosition
<1>5. pos.withdrawal_limit <= pos.amount => new.withdrawal_limit <= new.amount
  BY <1>1, <1>2, ConvertedMonotonic
<1> QED BY <1>4, <1>5

LEMMA BorrowConverted ==
  ASSUME NEW pos \in BorrowPosition, NEW mode, NEW price \in Nat \ {0},
         ConvertedBorrow(pos, mode, price).amount <= U64_MAX,
         ConvertedBorrow(pos, mode, price).debt_ceiling <= U64_MAX
  PROVE  LET new == ConvertedBorrow(pos, mode, price)
         IN  new \in BorrowPosition /\ new.last_update = pos.last_update
<1> DEFINE new == ConvertedBorrow(pos, mode, price)
<1>1. pos.amount \in Nat /\ pos.debt_ceiling \in Nat
  BY Constants DEF BorrowPosition
<1>2. new.amount = ToModeCeil(pos.amount, mode, price)
      /\ new.debt_ceiling = ToMode(pos.debt_ceiling, mode, price)
  BY DEF ConvertedBorrow, BorrowPosition
<1>3. new.amount \in 0..U64_MAX /\ new.debt_ceiling \in 0..U64_MAX
  BY <1>1, <1>2, Converted, Constants
<1> QED BY <1>2, <1>3 DEF ConvertedBorrow, BorrowPosition

(* Instructions that rewrite positions only.                               *)
LEMMA PositionStepsTyped ==
  ASSUME TypeInv, NEW signer \in Accounts, NEW p \in Protocols,
         \/ \E sides \in NonEmptySides : InitNewProtocol(signer, p, sides)
         \/ \E limit \in WithdrawalLimits : UpdateUserWithdrawalLimit(signer, p, limit)
         \/ \E c \in UserSupplyConfigs : UpdateUserSupplyConfig(signer, p, c)
         \/ \E c \in UserBorrowConfigs : UpdateUserBorrowConfig(signer, p, c)
         \/ \E sides \in NonEmptySides :
              PauseUser(signer, p, sides) \/ UnpauseUser(signer, p, sides)
  PROVE  TypeInv'
<1>0. /\ PrivilegeInv'
      /\ UNCHANGED <<now, vault, reserve, interacting, rate_model, claimVars>>
  BY PrivilegeUnchanged DEF TypeInv, InitNewProtocol, UpdateUserWithdrawalLimit,
         UpdateUserSupplyConfig, UpdateUserBorrowConfig, PauseUser, UnpauseUser
<1>1. ASSUME supplyPos' \in [Protocols -> SupplyPosition],
             \A q \in Protocols : supplyPos'[q].last_update <= now,
             borrowPos' \in [Protocols -> BorrowPosition],
             \A q \in Protocols : borrowPos'[q].last_update <= now
      PROVE  TypeInv'
  BY <1>0, <1>1, Unpacked DEF claimVars, TypeInv, TypeOK, PrivilegeInv, TimesPast
<1>2. supplyPos[p] \in SupplyPosition /\ borrowPos[p] \in BorrowPosition /\ now \in Nat
  BY Unpacked
<1>3. ASSUME NEW pos \in SupplyPosition, pos.last_update <= now,
             supplyPos' = [supplyPos EXCEPT ![p] = pos] \/ UNCHANGED supplyPos
      PROVE  /\ supplyPos' \in [Protocols -> SupplyPosition]
             /\ \A q \in Protocols : supplyPos'[q].last_update <= now
  BY <1>3, Unpacked
<1>4. ASSUME NEW pos \in BorrowPosition, pos.last_update <= now,
             borrowPos' = [borrowPos EXCEPT ![p] = pos] \/ UNCHANGED borrowPos
      PROVE  /\ borrowPos' \in [Protocols -> BorrowPosition]
             /\ \A q \in Protocols : borrowPos'[q].last_update <= now
  BY <1>4, Unpacked
<1>5. ASSUME NEW sides \in NonEmptySides, InitNewProtocol(signer, p, sides) PROVE TypeInv'
  <2>1. /\ NewSupplyPosition("NotSet", now) \in SupplyPosition
        /\ NewSupplyPosition("NotSet", now).last_update = now
        /\ NewBorrowPosition("NotSet", now) \in BorrowPosition
        /\ NewBorrowPosition("NotSet", now).last_update = now
    BY <1>2, Constants, PositionsAssumption
       DEF NewSupplyPosition, NewBorrowPosition, SupplyPosition, BorrowPosition, Status,
           PositionsAssumption
  <2> QED BY <1>1, <1>2, <1>3, <1>4, <1>5, <2>1 DEF InitNewProtocol
<1>6. ASSUME NEW limit \in WithdrawalLimits, UpdateUserWithdrawalLimit(signer, p, limit)
      PROVE  TypeInv'
  <2> DEFINE WithLimit(old, l) == [old EXCEPT !.withdrawal_limit = l, !.last_update = now]
             pos == WithLimit(supplyPos[p], AdjustedWithdrawalLimit(supplyPos[p], limit))
  <2>1. AdjustedWithdrawalLimit(supplyPos[p], limit) \in 0..U64_MAX
    BY <1>2, LimitAdjusted, LiquidityAssumption DEF LiquidityAssumption
  <2>2. pos \in SupplyPosition /\ pos.last_update <= now
    <3>1. ASSUME NEW old \in SupplyPosition, NEW l \in 0..U64_MAX
          PROVE  WithLimit(old, l) \in SupplyPosition /\ WithLimit(old, l).last_update = now
      BY <1>2 DEF SupplyPosition
    <3> HIDE DEF WithLimit
    <3> QED BY <1>2, <2>1, <3>1
  <2>3. supplyPos' = [supplyPos EXCEPT ![p] = pos]
    BY <1>6, Unpacked DEF UpdateUserWithdrawalLimit
  <2> QED BY <1>1, <1>3, <1>6, <2>2, <2>3, Unpacked DEF UpdateUserWithdrawalLimit
<1>7. ASSUME NEW c \in UserSupplyConfigs, UpdateUserSupplyConfig(signer, p, c) PROVE TypeInv'
  <2>1. /\ WithSupplyConfig(supplyPos[p], c) \in SupplyPosition
        /\ WithSupplyConfig(supplyPos[p], c).last_update <= now
    BY <1>2, <1>7, SupplyConfigured, Unpacked DEF UpdateUserSupplyConfig
  <2> QED BY <1>1, <1>3, <1>7, <2>1, Unpacked DEF UpdateUserSupplyConfig
<1>8. ASSUME NEW c \in UserBorrowConfigs, UpdateUserBorrowConfig(signer, p, c) PROVE TypeInv'
  <2>1. /\ WithBorrowConfig(borrowPos[p], c) \in BorrowPosition
        /\ WithBorrowConfig(borrowPos[p], c).last_update <= now
    BY <1>2, <1>8, BorrowConfigured, Unpacked DEF UpdateUserBorrowConfig
  <2> QED BY <1>1, <1>4, <1>8, <2>1, Unpacked DEF UpdateUserBorrowConfig
<1>9. ASSUME NEW sides \in NonEmptySides,
             PauseUser(signer, p, sides) \/ UnpauseUser(signer, p, sides)
      PROVE  TypeInv'
  <2>1. PICK status \in Status :
          /\ supplyPos' = [supplyPos EXCEPT ![p].status = status] \/ UNCHANGED supplyPos
          /\ borrowPos' = [borrowPos EXCEPT ![p].status = status] \/ UNCHANGED borrowPos
    BY <1>9 DEF PauseUser, UnpauseUser, Status
  <2> DEFINE s == [supplyPos[p] EXCEPT !.status = status]
             b == [borrowPos[p] EXCEPT !.status = status]
  <2>2. /\ s \in SupplyPosition /\ s.last_update <= now
        /\ b \in BorrowPosition /\ b.last_update <= now
    BY <1>2, Unpacked DEF SupplyPosition, BorrowPosition
  <2>3. /\ supplyPos' = [supplyPos EXCEPT ![p] = s] \/ UNCHANGED supplyPos
        /\ borrowPos' = [borrowPos EXCEPT ![p] = b] \/ UNCHANGED borrowPos
    BY <2>1, Unpacked
  <2> HIDE DEF s, b
  <2> QED BY <1>1, <1>3, <1>4, <2>2, <2>3
<1> QED BY <1>5, <1>6, <1>7, <1>8, <1>9

(* Mode switches rewrite one position and the reserve.                     *)
LEMMA SwitchesTyped ==
  ASSUME TypeInv, NEW signer \in Accounts, NEW p \in Protocols,
         \/ \E c \in UserSupplyConfigs : SwitchSupplyMode(signer, p, c)
         \/ \E c \in UserBorrowConfigs : SwitchBorrowMode(signer, p, c)
  PROVE  TypeInv'
<1> DEFINE prices == CalculateExchangePrices(reserve, now)
<1>0. /\ PrivilegeInv'
      /\ UNCHANGED <<now, vault, interacting, rate_model, claimVars>>
  BY PrivilegeUnchanged DEF TypeInv, SwitchSupplyMode, SwitchBorrowMode
<1>1. supplyPos[p] \in SupplyPosition /\ borrowPos[p] \in BorrowPosition
      /\ prices.supply \in Nat \ {0} /\ prices.borrow \in Nat \ {0}
  BY Unpacked
<1>2. ASSUME PricesFit(prices)
      PROVE  /\ Accrued(reserve) \in LooseReserve
             /\ Accrued(reserve).last_update_timestamp = now
  BY <1>2, Unpacked, AccruedTyped, Loosened
<1>3. ASSUME NEW moved \in LooseReserve, moved.last_update_timestamp = now, TotalsFit(moved),
             RefreshAllowed(moved, rate_model), reserve' = Refreshed(moved, rate_model)
      PROVE  reserve' \in Reserve /\ reserve'.last_update_timestamp = now
  BY <1>3, Unpacked, RefreshedTyped
<1>4. ASSUME NEW c \in UserSupplyConfigs, SwitchSupplyMode(signer, p, c) PROVE TypeInv'
  <2> DEFINE pos == supplyPos[p]
             converted == ConvertedSupply(pos, c.mode, prices.supply)
             left == ShiftSupply(Accrued(reserve), pos.with_interest, -pos.amount)
             moved == ShiftSupply(left, c.mode = 1, converted.amount)
  <2>1. converted \in SupplyPosition /\ converted.last_update <= now
    BY <1>1, <1>4, SupplyConverted, Unpacked DEF SwitchSupplyMode
  <2>2. pos.amount \in Nat /\ converted.amount \in Nat
    BY <1>1, <2>1, Constants DEF SupplyPosition
  <2> HIDE DEF converted
  <2>3. left \in LooseReserve /\ left.last_update_timestamp = now
    BY <1>2, <1>4, <2>2, ShiftTyped DEF SwitchSupplyMode
  <2> HIDE DEF left
  <2>4. moved \in LooseReserve /\ moved.last_update_timestamp = now
    BY <2>2, <2>3, ShiftTyped
  <2>5. /\ TotalsFit(moved) /\ RefreshAllowed(moved, rate_model)
        /\ reserve' = Refreshed(moved, rate_model)
    BY <1>4 DEF SwitchSupplyMode, converted, left
  <2> HIDE DEF moved
  <2>6. reserve' \in Reserve /\ reserve'.last_update_timestamp = now
    BY <1>3, <2>4, <2>5
  <2>7. /\ WithSupplyConfig(converted, c) \in SupplyPosition
        /\ WithSupplyConfig(converted, c).last_update <= now
    BY <1>4, <2>1, SupplyConfigured DEF SwitchSupplyMode
  <2>8. supplyPos' = [supplyPos EXCEPT ![p] = WithSupplyConfig(converted, c)]
        /\ UNCHANGED borrowPos
    BY <1>4 DEF SwitchSupplyMode, converted
  <2> QED BY <1>0, <2>6, <2>7, <2>8, Unpacked
             DEF claimVars, TypeInv, TypeOK, PrivilegeInv, TimesPast
<1>5. ASSUME NEW c \in UserBorrowConfigs, SwitchBorrowMode(signer, p, c) PROVE TypeInv'
  <2> DEFINE pos == borrowPos[p]
             converted == ConvertedBorrow(pos, c.mode, prices.borrow)
             left == ShiftBorrow(Accrued(reserve), pos.with_interest, -pos.amount)
             moved == ShiftBorrow(left, c.mode = 1, converted.amount)
  <2>1. converted \in BorrowPosition /\ converted.last_update <= now
    BY <1>1, <1>5, BorrowConverted, Unpacked DEF SwitchBorrowMode
  <2>2. pos.amount \in Nat /\ converted.amount \in Nat
    BY <1>1, <2>1, Constants DEF BorrowPosition
  <2> HIDE DEF converted
  <2>3. left \in LooseReserve /\ left.last_update_timestamp = now
    BY <1>2, <1>5, <2>2, ShiftTyped DEF SwitchBorrowMode
  <2> HIDE DEF left
  <2>4. moved \in LooseReserve /\ moved.last_update_timestamp = now
    BY <2>2, <2>3, ShiftTyped
  <2>5. /\ TotalsFit(moved) /\ RefreshAllowed(moved, rate_model)
        /\ reserve' = Refreshed(moved, rate_model)
    BY <1>5 DEF SwitchBorrowMode, converted, left
  <2> HIDE DEF moved
  <2>6. reserve' \in Reserve /\ reserve'.last_update_timestamp = now
    BY <1>3, <2>4, <2>5
  <2>7. /\ WithBorrowConfig(converted, c) \in BorrowPosition
        /\ WithBorrowConfig(converted, c).last_update <= now
    BY <1>5, <2>1, BorrowConfigured DEF SwitchBorrowMode
  <2>8. borrowPos' = [borrowPos EXCEPT ![p] = WithBorrowConfig(converted, c)]
        /\ UNCHANGED supplyPos
    BY <1>5 DEF SwitchBorrowMode, converted
  <2> QED BY <1>0, <2>6, <2>7, <2>8, Unpacked
             DEF claimVars, TypeInv, TypeOK, PrivilegeInv, TimesPast
<1> QED BY <1>4, <1>5

LEMMA ClaimsUntouched ==
  ASSUME NEW r \in LooseReserve, NEW mode, NEW delta, NEW prices, NEW m
  PROVE  /\ ShiftSupply(r, mode, delta).total_claim_amount = r.total_claim_amount
         /\ ShiftBorrow(r, mode, delta).total_claim_amount = r.total_claim_amount
         /\ Restated(r, prices, m).total_claim_amount = r.total_claim_amount
BY DEF ShiftSupply, ShiftBorrow, Restated, WithPrices, LooseReserve

LEMMA OperateTyped ==
  ASSUME TypeInv, NEW p \in Protocols, NEW supply \in Int, NEW borrow \in Int,
         NEW wto \in Recipients, NEW bto \in Recipients, NEW type,
         Operate(p, supply, borrow, wto, bto, type)
  PROVE  TypeInv'
<1> DEFINE prices == CalculateExchangePrices(reserve, now)
           spos == supplyPos[p]
           bpos == borrowPos[p]
           sdelta == SupplyDelta(spos, supply, prices.supply)
           bdelta == BorrowDelta(bpos, borrow, prices.borrow)
           supplied == ShiftSupply(reserve, spos.with_interest, sdelta)
           moved == ShiftBorrow(supplied, bpos.with_interest, bdelta)
           final == Restated(moved, prices, rate_model)
           withdrawn == Positive(-supply)
           borrowed == Positive(borrow)
<1>0. PrivilegeInv'
  BY PrivilegeUnchanged DEF TypeInv, Operate
<1>1. supply \in Int /\ borrow \in Int /\ now \in Nat
  BY Unpacked
<1>2. /\ spos \in SupplyPosition /\ bpos \in BorrowPosition
      /\ prices \in [supply : Nat \ {0}, borrow : Nat \ {0}]
      /\ prices.supply \in Nat \ {0} /\ prices.borrow \in Nat \ {0}
  BY Unpacked
<1>3. /\ supply # 0 => SupplyOrWithdrawAllowed(spos, supply, prices.supply, now)
      /\ borrow # 0 => BorrowOrPaybackAllowed(bpos, borrow, prices.borrow, now)
      /\ TotalsFit(moved)
      /\ RestateAllowed(moved, prices, rate_model)
      /\ PayoutAllowed(type, withdrawn, wto, borrowed, bto)
      /\ supplyPos' = IF supply = 0 THEN supplyPos
                      ELSE [supplyPos EXCEPT ![p] =
                              SupplyOrWithdraw(supplyPos[p], supply, prices.supply, now)]
      /\ borrowPos' = IF borrow = 0 THEN borrowPos
                      ELSE [borrowPos EXCEPT ![p] =
                              BorrowOrPayback(borrowPos[p], borrow, prices.borrow, now)]
      /\ reserve' = [final EXCEPT !.total_claim_amount =
                       final.total_claim_amount + IF type = "CLAIM" THEN withdrawn + borrowed ELSE 0]
      /\ interacting' = NoInteraction
      /\ vault' = IF type = "CLAIM" THEN vault ELSE vault - (withdrawn + borrowed)
      /\ claimAmount' = IF ~(type = "CLAIM") THEN claimAmount
                        ELSE [u \in Recipients |->
                               claimAmount[u] + (IF u = wto THEN withdrawn ELSE 0)
                                              + (IF u = bto THEN borrowed ELSE 0)]
      /\ UNCHANGED <<now, rate_model, claimOpen>>
  BY DEF Operate
<1>4. sdelta \in Int /\ bdelta \in Int
  BY <1>1, <1>2, SupplyDeltaInteger, BorrowDeltaInteger
<1> HIDE DEF sdelta, bdelta
<1>5. supplied \in LooseReserve /\ supplied.total_claim_amount = reserve.total_claim_amount
  <2>1. reserve \in LooseReserve
    BY Unpacked, Loosened
  <2>2. supplied \in LooseReserve
    BY <1>4, <2>1, ShiftTyped
  <2>3. supplied.total_claim_amount = reserve.total_claim_amount
    BY <2>1, ClaimsUntouched
  <2> QED BY <2>2, <2>3
<1> HIDE DEF supplied
<1>6. moved \in LooseReserve /\ moved.total_claim_amount = reserve.total_claim_amount
  BY <1>4, <1>5, ShiftTyped, ClaimsUntouched
<1> HIDE DEF moved
<1>7. final \in Reserve /\ final.last_update_timestamp = now
  BY <1>1, <1>2, <1>3, <1>6, Unpacked, RestatedTyped
<1>8. final.total_claim_amount = reserve.total_claim_amount
  BY <1>6, ClaimsUntouched
<1> HIDE DEF final
<1>9. /\ withdrawn \in Nat /\ borrowed \in Nat
      /\ withdrawn + borrowed > 0 => withdrawn + borrowed + reserve.total_claim_amount <= vault
  BY <1>1, <1>3 DEF Positive, PayoutAllowed
<1> HIDE DEF withdrawn, borrowed
<1>10. /\ vault \in 0..U64_MAX /\ reserve.total_claim_amount \in 0..U64_MAX
  BY Unpacked DEF Reserve, Amount
<1>11. vault' \in Amount
  BY <1>3, <1>9, <1>10, Constants DEF Amount
<1>12. reserve' \in Reserve /\ reserve'.last_update_timestamp = now
  <2> DEFINE claim == reserve.total_claim_amount + IF type = "CLAIM" THEN withdrawn + borrowed ELSE 0
  <2>1. claim \in Amount
    BY <1>9, <1>10, Constants DEF Amount
  <2>2. reserve' = [final EXCEPT !.total_claim_amount = claim]
    BY <1>3, <1>8
  <2> HIDE DEF claim
  <2> QED BY <1>7, <2>1, <2>2 DEF Reserve
<1>13. claimAmount' \in [Recipients -> Nat]
  BY <1>3, <1>9, Unpacked
<1>14. /\ supplyPos' \in [Protocols -> SupplyPosition]
       /\ \A q \in Protocols : supplyPos'[q].last_update <= now
  <2>1. CASE supply = 0
    BY <1>3, <2>1, Unpacked
  <2>2. CASE supply # 0
    <3> DEFINE new == SupplyOrWithdraw(supplyPos[p], supply, prices.supply, now)
    <3>0. spos.last_update <= now /\ SupplyOrWithdrawAllowed(spos, supply, prices.supply, now)
      BY <1>3, <2>2, Unpacked
    <3>1. new \in SupplyPosition /\ new.last_update = now
      <4> HIDE DEF prices
      <4> QED BY <1>1, <1>2, <3>0, SupplyOperated
    <3> HIDE DEF new
    <3>2. supplyPos' = [supplyPos EXCEPT ![p] = new]
      BY <1>3, <2>2 DEF new
    <3> QED BY <1>1, <3>1, <3>2, Unpacked
  <2> QED BY <2>1, <2>2
<1>15. /\ borrowPos' \in [Protocols -> BorrowPosition]
       /\ \A q \in Protocols : borrowPos'[q].last_update <= now
  <2>1. CASE borrow = 0
    BY <1>3, <2>1, Unpacked
  <2>2. CASE borrow # 0
    <3> DEFINE new == BorrowOrPayback(borrowPos[p], borrow, prices.borrow, now)
    <3>0. bpos.last_update <= now /\ BorrowOrPaybackAllowed(bpos, borrow, prices.borrow, now)
      BY <1>3, <2>2, Unpacked
    <3>1. new \in BorrowPosition /\ new.last_update = now
      <4> HIDE DEF prices
      <4> QED BY <1>1, <1>2, <3>0, BorrowOperated
    <3> HIDE DEF new
    <3>2. borrowPos' = [borrowPos EXCEPT ![p] = new]
      BY <1>3, <2>2 DEF new
    <3> QED BY <1>1, <3>1, <3>2, Unpacked
  <2> QED BY <2>1, <2>2
<1>16. interacting' \in Interaction
  BY <1>3, Constants DEF NoInteraction, Interaction, Amount
<1>17. UNCHANGED <<now, rate_model, claimOpen>>
  BY <1>3
<1> QED BY <1>0, <1>11, <1>12, <1>13, <1>14, <1>15, <1>16, <1>17, Unpacked
        DEF TypeInv, TypeOK, PrivilegeInv, TimesPast

LEMMA TypeInit == Init => TypeInv
<1> SUFFICES ASSUME Init PROVE TypeInv
  OBVIOUS
<1>1. PrivilegeInv
  BY PrivilegeInit DEF Init
<1>2. NewReserve \in Reserve /\ NewRateModel \in RateModel /\ ModelValid(NewRateModel)
      /\ NewReserve.last_update_timestamp = 0
  BY Constants DEF NewReserve, NewRateModel, Reserve, RateModel, ModelValid, Amount, Precision
<1>3. NoInteraction \in Interaction /\ 0 \in Amount
  BY Constants DEF NoInteraction, Interaction, Amount
<1>4. /\ NewSupplyPosition("Absent", 0) \in SupplyPosition
      /\ NewSupplyPosition("Absent", 0).last_update = 0
      /\ NewBorrowPosition("Absent", 0) \in BorrowPosition
      /\ NewBorrowPosition("Absent", 0).last_update = 0
  BY Constants, PositionsAssumption
     DEF NewSupplyPosition, NewBorrowPosition, SupplyPosition, BorrowPosition, Status,
         PositionsAssumption
<1> QED BY <1>1, <1>2, <1>3, <1>4 DEF Init, TypeInv, TypeOK, PrivilegeInv, TimesPast

(* The steps of the layer under any program: amounts that no instance of   *)
(* the constants need list.                                                *)
LayerNext ==
  \/ AccessNext /\ UNCHANGED moneyVars
  \/ \E p \in Protocols :
       \/ PreOperate(p)
       \/ \E s, b \in Int, wto, bto \in Recipients, type \in {"SKIP", "DIRECT", "CLAIM"} :
            Operate(p, s, b, wto, bto, type)
  \/ \E amount \in Nat : TransferIn(amount)
  \/ \E user \in Recipients :
       InitClaimAccount(user) \/ CloseClaimAccount(user) \/ Claim(user)
  \/ UpdateExchangePrice
  \/ Tick
  \/ \E signer \in Accounts : ReserveAdminNext(signer) \/ PositionAdminNext(signer)

LEMMA NextAmongSteps == Next => LayerNext
<1>1. /\ SupplyAmounts \subseteq Int /\ BorrowAmounts \subseteq Int
      /\ TransferAmounts \subseteq Nat /\ TransferTypes \subseteq {"SKIP", "DIRECT", "CLAIM"}
  BY LiquidityAssumption DEF LiquidityAssumption
<1>2. ProtocolNext => LayerNext
  BY <1>1 DEF ProtocolNext, LayerNext
<1>3. UserNext => LayerNext
  BY <1>1 DEF UserNext, LayerNext
<1> QED BY <1>2, <1>3 DEF Next, LayerNext

LEMMA LayerSpec == Spec => Init /\ [][LayerNext]_vars
<1>1. [Next]_vars => [LayerNext]_vars
  BY NextAmongSteps
<1> QED BY <1>1, PTL DEF Spec

LEMMA TypeStep == TypeInv /\ [LayerNext]_vars => TypeInv'
<1> SUFFICES ASSUME TypeInv, [LayerNext]_vars PROVE TypeInv'
  OBVIOUS
<1>1. CASE UNCHANGED vars
  <2>1. PrivilegeInv'
    BY <1>1, PrivilegeUnchanged DEF vars, TypeInv
  <2> QED BY <1>1, <2>1, Unpacked
          DEF vars, moneyVars, TypeInv, TypeOK, PrivilegeInv, TimesPast
<1>2. CASE AccessNext /\ UNCHANGED moneyVars
  <2>1. PrivilegeInv'
    BY <1>2, PrivilegeStep DEF TypeInv
  <2> QED BY <1>2, <2>1, Unpacked DEF moneyVars, TypeInv, TypeOK, PrivilegeInv, TimesPast
<1>3. ASSUME NEW p \in Protocols,
             \/ PreOperate(p)
             \/ \E s, b \in Int, wto, bto \in Recipients, type \in {"SKIP", "DIRECT", "CLAIM"} :
                  Operate(p, s, b, wto, bto, type)
      PROVE  TypeInv'
  BY <1>3, BystandersTyped, OperateTyped
<1>4. ASSUME \/ \E amount \in Nat : TransferIn(amount)
             \/ \E user \in Recipients :
                  InitClaimAccount(user) \/ CloseClaimAccount(user) \/ Claim(user)
             \/ UpdateExchangePrice
             \/ Tick
      PROVE  TypeInv'
  BY <1>4, BystandersTyped, ReserveStepsTyped
<1>5. ASSUME NEW signer \in Accounts, ReserveAdminNext(signer) PROVE TypeInv'
  BY <1>5, BystandersTyped, ReserveStepsTyped DEF ReserveAdminNext
<1>6. ASSUME NEW signer \in Accounts, PositionAdminNext(signer) PROVE TypeInv'
  BY <1>6, PositionStepsTyped, SwitchesTyped DEF PositionAdminNext
<1> QED BY <1>1, <1>2, <1>3, <1>4, <1>5, <1>6 DEF LayerNext

-----------------------------------------------------------------------------
(* Every state the program reaches is well typed: no total, price, limit   *)
(* or cached rate leaves the width of its field, no position is taken      *)
(* below zero, and no payout is larger than the vault (operate, claim,     *)
(* collect_revenue and the admin instructions).                            *)
THEOREM LiquidityTyped == Spec => []TypeOK
<1>1. TypeInv => TypeOK
  BY DEF TypeInv
<1> QED BY <1>1, TypeInit, TypeStep, LayerSpec, PTL

-----------------------------------------------------------------------------
(* What the automated limits promise.  Many instructions write positions,  *)
(* but each rewrites a position in one of a few ways: SupplyChange and     *)
(* BorrowChange list them, SupplyChanges and BorrowChanges show that a     *)
(* step changes positions in no other way, and everything else is about    *)
(* one position and one way.                                               *)

(* The ways in which a step at time t may rewrite a supply position.       *)
SupplyOperation(pos, new, t) ==
  \E amount \in Int, price \in Nat \ {0} :
    SupplyOrWithdrawAllowed(pos, amount, price, t) /\ new = SupplyOrWithdraw(pos, amount, price, t)

SupplyCreation(pos, new, t) ==
  pos.status = "Absent" /\ new = NewSupplyPosition("NotSet", t)

SupplyConfiguration(pos, new) ==
  \E c \in UserSupplyConfigs :
    pos.status # "Absent" /\ SupplyConfigAllowed(c) /\ new = WithSupplyConfig(pos, c)

SupplySwitch(pos, new) ==
  \E c \in UserSupplyConfigs, price \in Nat \ {0} :
    /\ pos.status # "Absent" /\ SupplyConfigAllowed(c) /\ ModeChanges(pos, c)
    /\ ConvertedSupply(pos, c.mode, price).amount <= U64_MAX
    /\ ConvertedSupply(pos, c.mode, price).withdrawal_limit <= U64_MAX
    /\ new = WithSupplyConfig(ConvertedSupply(pos, c.mode, price), c)

SupplyLimitSet(pos, new, t) ==
  \E limit \in Nat :
    /\ pos.status # "Absent"
    /\ new = [pos EXCEPT !.withdrawal_limit = AdjustedWithdrawalLimit(pos, limit),
                         !.last_update = t]

StatusSet(pos, new) ==
  \E status \in {"Active", "Paused"} :
    pos.status # "Absent" /\ new = [pos EXCEPT !.status = status]

SupplyChange(pos, new, t) ==
  \/ new = pos
  \/ SupplyOperation(pos, new, t)
  \/ SupplyCreation(pos, new, t)
  \/ SupplyConfiguration(pos, new)
  \/ SupplySwitch(pos, new)
  \/ SupplyLimitSet(pos, new, t)
  \/ StatusSet(pos, new)

(* The same for a borrow position, whose limit nobody sets by hand.        *)
BorrowOperation(pos, new, t) ==
  \E amount \in Int, price \in Nat \ {0} :
    BorrowOrPaybackAllowed(pos, amount, price, t) /\ new = BorrowOrPayback(pos, amount, price, t)

BorrowCreation(pos, new, t) ==
  pos.status = "Absent" /\ new = NewBorrowPosition("NotSet", t)

BorrowConfiguration(pos, new) ==
  \E c \in UserBorrowConfigs :
    pos.status # "Absent" /\ BorrowConfigAllowed(c) /\ new = WithBorrowConfig(pos, c)

BorrowSwitch(pos, new) ==
  \E c \in UserBorrowConfigs, price \in Nat \ {0} :
    /\ pos.status # "Absent" /\ BorrowConfigAllowed(c) /\ ModeChanges(pos, c)
    /\ ConvertedBorrow(pos, c.mode, price).amount <= U64_MAX
    /\ ConvertedBorrow(pos, c.mode, price).debt_ceiling <= U64_MAX
    /\ new = WithBorrowConfig(ConvertedBorrow(pos, c.mode, price), c)

BorrowChange(pos, new, t) ==
  \/ new = pos
  \/ BorrowOperation(pos, new, t)
  \/ BorrowCreation(pos, new, t)
  \/ BorrowConfiguration(pos, new)
  \/ BorrowSwitch(pos, new)
  \/ StatusSet(pos, new)

-----------------------------------------------------------------------------
(* No step changes positions otherwise.                                    *)

LEMMA OneSupplyChanged ==
  ASSUME TypeInv, NEW p \in Protocols, NEW new, SupplyChange(supplyPos[p], new, now),
         supplyPos' = [supplyPos EXCEPT ![p] = new]
  PROVE  \A q \in Protocols : SupplyChange(supplyPos[q], supplyPos'[q], now)
<1> SUFFICES ASSUME NEW q \in Protocols PROVE SupplyChange(supplyPos[q], supplyPos'[q], now)
  OBVIOUS
<1>1. CASE q = p
  <2>1. supplyPos'[q] = new
    BY <1>1, Unpacked
  <2> QED BY <1>1, <2>1
<1>2. CASE q # p
  <2>1. supplyPos'[q] = supplyPos[q]
    BY <1>2, Unpacked
  <2> QED BY <2>1 DEF SupplyChange
<1> QED BY <1>1, <1>2

LEMMA OneBorrowChanged ==
  ASSUME TypeInv, NEW p \in Protocols, NEW new, BorrowChange(borrowPos[p], new, now),
         borrowPos' = [borrowPos EXCEPT ![p] = new]
  PROVE  \A q \in Protocols : BorrowChange(borrowPos[q], borrowPos'[q], now)
<1> SUFFICES ASSUME NEW q \in Protocols PROVE BorrowChange(borrowPos[q], borrowPos'[q], now)
  OBVIOUS
<1>1. CASE q = p
  <2>1. borrowPos'[q] = new
    BY <1>1, Unpacked
  <2> QED BY <1>1, <2>1
<1>2. CASE q # p
  <2>1. borrowPos'[q] = borrowPos[q]
    BY <1>2, Unpacked
  <2> QED BY <2>1 DEF BorrowChange
<1> QED BY <1>1, <1>2

(* Instructions that leave all supply, or all borrow, positions alone.     *)
LEMMA SuppliesKept ==
  ASSUME UNCHANGED supplyPos
  PROVE  \A q \in Protocols : SupplyChange(supplyPos[q], supplyPos'[q], now)
BY DEF SupplyChange

LEMMA BorrowsKept ==
  ASSUME UNCHANGED borrowPos
  PROVE  \A q \in Protocols : BorrowChange(borrowPos[q], borrowPos'[q], now)
BY DEF BorrowChange

LEMMA BystandersKeepPositions ==
  ASSUME \/ UNCHANGED vars
         \/ AccessNext /\ UNCHANGED moneyVars
         \/ \E p \in Protocols : PreOperate(p)
         \/ \E amount \in Nat : TransferIn(amount)
         \/ \E user \in Recipients :
              InitClaimAccount(user) \/ CloseClaimAccount(user) \/ Claim(user)
         \/ UpdateExchangePrice
         \/ Tick
         \/ \E signer \in Accounts : ReserveAdminNext(signer)
  PROVE  UNCHANGED <<supplyPos, borrowPos>>
BY DEF vars, moneyVars, positionVars, PreOperate, TransferIn, InitClaimAccount,
       CloseClaimAccount, Claim, UpdateExchangePrice, Tick, ReserveAdminNext, CollectRevenue,
       UpdateRateDataV1, UpdateRateDataV2, InstallCurve, UpdateTokenConfig
LEMMA OperateChanges ==
  ASSUME TypeInv, NEW p \in Protocols, NEW supply \in Int, NEW borrow \in Int,
         NEW wto \in Recipients, NEW bto \in Recipients, NEW type,
         Operate(p, supply, borrow, wto, bto, type)
  PROVE  /\ \A q \in Protocols : SupplyChange(supplyPos[q], supplyPos'[q], now)
         /\ \A q \in Protocols : BorrowChange(borrowPos[q], borrowPos'[q], now)
<1> DEFINE prices == CalculateExchangePrices(reserve, now)
           snew == SupplyOrWithdraw(supplyPos[p], supply, prices.supply, now)
           bnew == BorrowOrPayback(borrowPos[p], borrow, prices.borrow, now)
<1>1. /\ supply \in Int /\ borrow \in Int
      /\ prices.supply \in Nat \ {0} /\ prices.borrow \in Nat \ {0}
  BY Unpacked
<1>2. /\ supply # 0 => SupplyOrWithdrawAllowed(supplyPos[p], supply, prices.supply, now)
      /\ borrow # 0 => BorrowOrPaybackAllowed(borrowPos[p], borrow, prices.borrow, now)
      /\ supplyPos' = IF supply = 0 THEN supplyPos ELSE [supplyPos EXCEPT ![p] = snew]
      /\ borrowPos' = IF borrow = 0 THEN borrowPos ELSE [borrowPos EXCEPT ![p] = bnew]
  BY DEF Operate
<1>3. /\ supply # 0 => SupplyChange(supplyPos[p], snew, now)
      /\ borrow # 0 => BorrowChange(borrowPos[p], bnew, now)
  BY <1>1, <1>2 DEF SupplyChange, BorrowChange, SupplyOperation, BorrowOperation
<1> HIDE DEF snew, bnew
<1>4. \A q \in Protocols : SupplyChange(supplyPos[q], supplyPos'[q], now)
  BY <1>2, <1>3, SuppliesKept, OneSupplyChanged
<1>5. \A q \in Protocols : BorrowChange(borrowPos[q], borrowPos'[q], now)
  BY <1>2, <1>3, BorrowsKept, OneBorrowChanged
<1> QED BY <1>4, <1>5

LEMMA AdminChanges ==
  ASSUME TypeInv, NEW signer \in Accounts, NEW p \in Protocols,
         \/ \E sides \in NonEmptySides : InitNewProtocol(signer, p, sides)
         \/ \E limit \in WithdrawalLimits : UpdateUserWithdrawalLimit(signer, p, limit)
         \/ \E c \in UserSupplyConfigs :
              UpdateUserSupplyConfig(signer, p, c) \/ SwitchSupplyMode(signer, p, c)
         \/ \E c \in UserBorrowConfigs :
              UpdateUserBorrowConfig(signer, p, c) \/ SwitchBorrowMode(signer, p, c)
         \/ \E sides \in NonEmptySides :
              PauseUser(signer, p, sides) \/ UnpauseUser(signer, p, sides)
  PROVE  /\ \A q \in Protocols : SupplyChange(supplyPos[q], supplyPos'[q], now)
         /\ \A q \in Protocols : BorrowChange(borrowPos[q], borrowPos'[q], now)
<1>0. /\ supplyPos[p] \in SupplyPosition /\ borrowPos[p] \in BorrowPosition
      /\ CalculateExchangePrices(reserve, now).supply \in Nat \ {0}
      /\ CalculateExchangePrices(reserve, now).borrow \in Nat \ {0}
  BY Unpacked
<1>1. ASSUME NEW sides \in NonEmptySides, InitNewProtocol(signer, p, sides)
      PROVE  /\ \A q \in Protocols : SupplyChange(supplyPos[q], supplyPos'[q], now)
             /\ \A q \in Protocols : BorrowChange(borrowPos[q], borrowPos'[q], now)
  <2>1. \A q \in Protocols : SupplyChange(supplyPos[q], supplyPos'[q], now)
    <3> DEFINE new == NewSupplyPosition("NotSet", now)
    <3>1. \/ UNCHANGED supplyPos
          \/ supplyPos' = [supplyPos EXCEPT ![p] = new] /\ SupplyChange(supplyPos[p], new, now)
      BY <1>1 DEF InitNewProtocol, SupplyChange, SupplyCreation
    <3> HIDE DEF new
    <3> QED BY <3>1, SuppliesKept, OneSupplyChanged
  <2>2. \A q \in Protocols : BorrowChange(borrowPos[q], borrowPos'[q], now)
    <3> DEFINE new == NewBorrowPosition("NotSet", now)
    <3>1. \/ UNCHANGED borrowPos
          \/ borrowPos' = [borrowPos EXCEPT ![p] = new] /\ BorrowChange(borrowPos[p], new, now)
      BY <1>1 DEF InitNewProtocol, BorrowChange, BorrowCreation
    <3> HIDE DEF new
    <3> QED BY <3>1, BorrowsKept, OneBorrowChanged
  <2> QED BY <2>1, <2>2
<1>2. ASSUME NEW limit \in WithdrawalLimits, UpdateUserWithdrawalLimit(signer, p, limit)
      PROVE  /\ \A q \in Protocols : SupplyChange(supplyPos[q], supplyPos'[q], now)
             /\ \A q \in Protocols : BorrowChange(borrowPos[q], borrowPos'[q], now)
  <2> DEFINE new == [supplyPos[p] EXCEPT
                       !.withdrawal_limit = AdjustedWithdrawalLimit(supplyPos[p], limit),
                       !.last_update = now]
  <2>1. limit \in Nat
    BY LiquidityAssumption DEF LiquidityAssumption
  <2>2. SupplyChange(supplyPos[p], new, now)
    BY <1>2, <2>1 DEF UpdateUserWithdrawalLimit, SupplyChange, SupplyLimitSet
  <2>3. supplyPos' = [supplyPos EXCEPT ![p] = new] /\ UNCHANGED borrowPos
    BY <1>2, Unpacked DEF UpdateUserWithdrawalLimit
  <2> HIDE DEF new
  <2> QED BY <2>2, <2>3, OneSupplyChanged, BorrowsKept
<1>3. ASSUME NEW c \in UserSupplyConfigs,
             UpdateUserSupplyConfig(signer, p, c) \/ SwitchSupplyMode(signer, p, c)
      PROVE  /\ \A q \in Protocols : SupplyChange(supplyPos[q], supplyPos'[q], now)
             /\ \A q \in Protocols : BorrowChange(borrowPos[q], borrowPos'[q], now)
  <2>1. PICK new : /\ SupplyConfiguration(supplyPos[p], new) \/ SupplySwitch(supplyPos[p], new)
                   /\ supplyPos' = [supplyPos EXCEPT ![p] = new]
    <3>1. CASE UpdateUserSupplyConfig(signer, p, c)
      BY <3>1 DEF UpdateUserSupplyConfig, SupplyConfiguration
    <3>2. CASE SwitchSupplyMode(signer, p, c)
      BY <1>0, <3>2 DEF SwitchSupplyMode, SupplySwitch
    <3> QED BY <1>3, <3>1, <3>2
  <2>2. UNCHANGED borrowPos
    BY <1>3 DEF UpdateUserSupplyConfig, SwitchSupplyMode
  <2>3. SupplyChange(supplyPos[p], new, now)
    BY <2>1 DEF SupplyChange
  <2> QED BY <2>1, <2>2, <2>3, OneSupplyChanged, BorrowsKept
<1>4. ASSUME NEW c \in UserBorrowConfigs,
             UpdateUserBorrowConfig(signer, p, c) \/ SwitchBorrowMode(signer, p, c)
      PROVE  /\ \A q \in Protocols : SupplyChange(supplyPos[q], supplyPos'[q], now)
             /\ \A q \in Protocols : BorrowChange(borrowPos[q], borrowPos'[q], now)
  <2>1. PICK new : /\ BorrowConfiguration(borrowPos[p], new) \/ BorrowSwitch(borrowPos[p], new)
                   /\ borrowPos' = [borrowPos EXCEPT ![p] = new]
    <3>1. CASE UpdateUserBorrowConfig(signer, p, c)
      BY <3>1 DEF UpdateUserBorrowConfig, BorrowConfiguration
    <3>2. CASE SwitchBorrowMode(signer, p, c)
      BY <1>0, <3>2 DEF SwitchBorrowMode, BorrowSwitch
    <3> QED BY <1>4, <3>1, <3>2
  <2>2. UNCHANGED supplyPos
    BY <1>4 DEF UpdateUserBorrowConfig, SwitchBorrowMode
  <2>3. BorrowChange(borrowPos[p], new, now)
    BY <2>1 DEF BorrowChange
  <2> QED BY <2>1, <2>2, <2>3, OneBorrowChanged, SuppliesKept
<1>5. ASSUME NEW sides \in NonEmptySides,
             PauseUser(signer, p, sides) \/ UnpauseUser(signer, p, sides)
      PROVE  /\ \A q \in Protocols : SupplyChange(supplyPos[q], supplyPos'[q], now)
             /\ \A q \in Protocols : BorrowChange(borrowPos[q], borrowPos'[q], now)
  <2>1. PICK status \in {"Active", "Paused"} :
          /\ \/ UNCHANGED supplyPos
             \/ supplyPos' = [supplyPos EXCEPT ![p].status = status] /\ supplyPos[p].status # "Absent"
          /\ \/ UNCHANGED borrowPos
             \/ borrowPos' = [borrowPos EXCEPT ![p].status = status] /\ borrowPos[p].status # "Absent"
    BY <1>5 DEF PauseUser, UnpauseUser
  <2> DEFINE s == [supplyPos[p] EXCEPT !.status = status]
             b == [borrowPos[p] EXCEPT !.status = status]
  <2>2. /\ \/ UNCHANGED supplyPos
           \/ StatusSet(supplyPos[p], s) /\ supplyPos' = [supplyPos EXCEPT ![p] = s]
        /\ \/ UNCHANGED borrowPos
           \/ StatusSet(borrowPos[p], b) /\ borrowPos' = [borrowPos EXCEPT ![p] = b]
    <3>1. supplyPos[p].status # "Absent" => StatusSet(supplyPos[p], s)
      BY DEF StatusSet
    <3>2. borrowPos[p].status # "Absent" => StatusSet(borrowPos[p], b)
      BY DEF StatusSet
    <3>3. /\ UNCHANGED supplyPos \/ supplyPos' = [supplyPos EXCEPT ![p] = s]
          /\ UNCHANGED borrowPos \/ borrowPos' = [borrowPos EXCEPT ![p] = b]
      BY <2>1, Unpacked
    <3> QED BY <2>1, <3>1, <3>2, <3>3
  <2> HIDE DEF s, b
  <2>3. \A q \in Protocols : SupplyChange(supplyPos[q], supplyPos'[q], now)
    <3>1. UNCHANGED supplyPos \/ SupplyChange(supplyPos[p], s, now)
      BY <2>2 DEF SupplyChange
    <3> QED BY <2>2, <3>1, SuppliesKept, OneSupplyChanged
  <2>4. \A q \in Protocols : BorrowChange(borrowPos[q], borrowPos'[q], now)
    <3>1. UNCHANGED borrowPos \/ BorrowChange(borrowPos[p], b, now)
      BY <2>2 DEF BorrowChange
    <3> QED BY <2>2, <3>1, BorrowsKept, OneBorrowChanged
  <2> QED BY <2>3, <2>4
<1> QED BY <1>1, <1>2, <1>3, <1>4, <1>5

LEMMA PositionsChange ==
  ASSUME TypeInv, [LayerNext]_vars
  PROVE  /\ \A q \in Protocols : SupplyChange(supplyPos[q], supplyPos'[q], now)
         /\ \A q \in Protocols : BorrowChange(borrowPos[q], borrowPos'[q], now)
<1>1. CASE UNCHANGED <<supplyPos, borrowPos>>
  BY <1>1, SuppliesKept, BorrowsKept
<1>2. ASSUME NEW p \in Protocols, NEW s \in Int, NEW b \in Int,
             NEW wto \in Recipients, NEW bto \in Recipients, NEW type,
             Operate(p, s, b, wto, bto, type)
      PROVE  /\ \A q \in Protocols : SupplyChange(supplyPos[q], supplyPos'[q], now)
             /\ \A q \in Protocols : BorrowChange(borrowPos[q], borrowPos'[q], now)
  BY <1>2, OperateChanges
<1>3. ASSUME NEW signer \in Accounts, PositionAdminNext(signer)
      PROVE  /\ \A q \in Protocols : SupplyChange(supplyPos[q], supplyPos'[q], now)
             /\ \A q \in Protocols : BorrowChange(borrowPos[q], borrowPos'[q], now)
  BY <1>3, AdminChanges DEF PositionAdminNext
<1> QED BY <1>1, <1>2, <1>3, BystandersKeepPositions DEF LayerNext
-----------------------------------------------------------------------------
(* Supply positions.                                                       *)

SupplySound(pos) ==
  /\ pos.withdrawal_limit <= pos.amount
  /\ pos.status = "Absent" => pos.amount = 0

LEMMA SupplyStaysSound ==
  ASSUME NEW t \in Nat, NEW pos \in SupplyPosition, pos.last_update <= t, SupplySound(pos),
         NEW new, SupplyChange(pos, new, t)
  PROVE  SupplySound(new)
<1>1. CASE SupplyOperation(pos, new, t)
  <2>1. PICK amount \in Int, price \in Nat \ {0} :
          /\ SupplyOrWithdrawAllowed(pos, amount, price, t)
          /\ new = SupplyOrWithdraw(pos, amount, price, t)
    BY <1>1 DEF SupplyOperation
  <2>2. new.withdrawal_limit <= new.amount
    BY <2>1, SupplyOperated DEF SupplySound
  <2>3. new.status = pos.status /\ pos.status = "Active"
    BY <2>1 DEF SupplyOrWithdraw, SupplyOrWithdrawAllowed, SupplyPosition
  <2> QED BY <2>2, <2>3 DEF SupplySound
<1>2. CASE SupplyCreation(pos, new, t)
  BY <1>2 DEF SupplyCreation, NewSupplyPosition, SupplySound
<1>3. ASSUME NEW c \in UserSupplyConfigs, NEW old \in SupplyPosition, SupplyConfigAllowed(c),
             old.status # "Absent", old.withdrawal_limit <= old.amount,
             new = WithSupplyConfig(old, c)
      PROVE  SupplySound(new)
  <2>1. new.amount = old.amount /\ new.withdrawal_limit = old.withdrawal_limit
    BY <1>3, SupplyConfigured
  <2>2. new.status # "Absent"
    BY <1>3 DEF WithSupplyConfig, SupplyPosition, Activated
  <2> QED BY <1>3, <2>1, <2>2 DEF SupplySound
<1>4. CASE SupplyConfiguration(pos, new)
  BY <1>3, <1>4 DEF SupplyConfiguration, SupplySound
<1>5. CASE SupplySwitch(pos, new)
  <2>1. PICK c \in UserSupplyConfigs, price \in Nat \ {0} :
          /\ pos.status # "Absent" /\ SupplyConfigAllowed(c)
          /\ ConvertedSupply(pos, c.mode, price).amount <= U64_MAX
          /\ ConvertedSupply(pos, c.mode, price).withdrawal_limit <= U64_MAX
          /\ new = WithSupplyConfig(ConvertedSupply(pos, c.mode, price), c)
    BY <1>5 DEF SupplySwitch
  <2> DEFINE converted == ConvertedSupply(pos, c.mode, price)
  <2>2. converted \in SupplyPosition /\ converted.withdrawal_limit <= converted.amount
    BY <2>1, SupplyConverted DEF SupplySound
  <2>3. converted.status # "Absent"
    BY <2>1 DEF ConvertedSupply, SupplyPosition
  <2> HIDE DEF converted
  <2> QED BY <1>3, <2>1, <2>2, <2>3 DEF converted
<1>6. CASE SupplyLimitSet(pos, new, t)
  <2>1. PICK limit \in Nat :
          /\ pos.status # "Absent"
          /\ new = [pos EXCEPT !.withdrawal_limit = AdjustedWithdrawalLimit(pos, limit),
                               !.last_update = t]
    BY <1>6 DEF SupplyLimitSet
  <2>2. AdjustedWithdrawalLimit(pos, limit) <= pos.amount
    BY LimitAdjusted
  <2> QED BY <2>1, <2>2 DEF SupplySound, SupplyPosition
<1>7. CASE StatusSet(pos, new)
  BY <1>7 DEF StatusSet, SupplySound, SupplyPosition
<1> QED BY <1>1, <1>2, <1>4, <1>5, <1>6, <1>7 DEF SupplyChange

(* Right after an operation the limit in force is the one it stored, or    *)
(* the fully expanded one, if the amount is not below the base.            *)
LEMMA LimitJustStored ==
  ASSUME NEW pos \in SupplyPosition, NEW t \in Nat, pos.last_update = t,
         pos.expand_duration # 0
  PROVE  WithdrawalLimitBefore(pos, t) >= pos.withdrawal_limit
<1>1. /\ pos.amount \in Nat /\ pos.withdrawal_limit \in Nat
      /\ pos.expand_pct \in 0..FOUR_DECIMALS /\ pos.expand_duration \in Nat \ {0}
  BY Constants, PositionsAssumption DEF SupplyPosition, PositionsAssumption
<1> DEFINE withdrawable == PercentOf(pos.amount, pos.expand_pct)
           expanded == (withdrawable * (t - pos.last_update)) \div pos.expand_duration
<1>2. withdrawable \in 0..pos.amount
  BY <1>1, PercentBound
<1>3. withdrawable * (t - pos.last_update) = 0
  BY <1>2
<1>4. 0 \div pos.expand_duration = 0
  BY <1>1
<1>5. expanded = 0
  BY <1>3, <1>4
<1>6. WithdrawalLimitBefore(pos, t) =
        IF pos.withdrawal_limit = 0 THEN 0
        ELSE Greatest(SaturatingSub(pos.withdrawal_limit, expanded), pos.amount - withdrawable)
  BY DEF WithdrawalLimitBefore
<1> HIDE DEF withdrawable, expanded
<1> QED BY <1>1, <1>2, <1>5, <1>6 DEF Greatest, SaturatingSub

LEMMA WindowKept ==
  ASSUME NEW t \in Nat, NEW pos \in SupplyPosition, pos.last_update <= t, SupplySound(pos),
         NEW new, SupplyChange(pos, new, t),
         pos.amount # new.amount, pos.with_interest = new.with_interest,
         pos.expand_duration # 0
  PROVE  \/ WithdrawalLimitBefore(pos, t) < pos.base_withdrawal_limit
         \/ WithdrawalLimitBefore(new, t) >= WithdrawalLimitBefore(pos, t)
<1>1. CASE SupplyOperation(pos, new, t)
  <2>1. PICK amount \in Int, price \in Nat \ {0} :
          /\ SupplyOrWithdrawAllowed(pos, amount, price, t)
          /\ new = SupplyOrWithdraw(pos, amount, price, t)
    BY <1>1 DEF SupplyOperation
  <2> DEFINE before == WithdrawalLimitBefore(pos, t)
             delta == SupplyDelta(pos, amount, price)
  <2>2. /\ new \in SupplyPosition /\ new.last_update = t
        /\ new.amount = pos.amount + delta
    BY <2>1, SupplyOperated
  <2>3. /\ new.withdrawal_limit = WithdrawalLimitAfter(pos, new.amount, before)
        /\ new.expand_duration = pos.expand_duration
    BY <2>1 DEF SupplyOrWithdraw, SupplyPosition
  <2>4. /\ before \in Nat
        /\ before <= pos.amount
    BY LimitInForce, Constants DEF SupplySound, SupplyPosition
  <2>5. WithdrawalLimitBefore(new, t) >= new.withdrawal_limit
    BY <2>2, <2>3, LimitJustStored
  <2>6. /\ pos.amount \in Nat /\ new.amount \in Nat /\ pos.base_withdrawal_limit \in Nat
        /\ delta \in Int
    BY <2>1, <2>2, SupplyDeltaInteger, Constants DEF SupplyPosition
  <2>7. amount < 0 => new.amount >= before
    BY <2>1, <2>2 DEF SupplyOrWithdrawAllowed
  <2>8. amount >= 0 => new.amount >= pos.amount
    <3>1. amount > 0 => delta >= 0
      BY SupplyDeltaInteger
    <3>2. amount = 0 => delta >= 0
      <4>1. Precision \in Nat \ {0} /\ pos.with_interest \in BOOLEAN
        BY Constants DEF SupplyPosition
      <4>2. -0 * Precision = 0
        BY <4>1
      <4>3. DivCeil(0, price) = 0
        BY Quotient DEF DivCeil
      <4> QED BY <4>1, <4>2, <4>3 DEF SupplyDelta
    <3> QED BY <2>2, <2>6, <3>1, <3>2
  <2> HIDE DEF before, delta
  <2>9. new.amount >= before
    BY <2>1, <2>4, <2>6, <2>7, <2>8
  <2>10. CASE new.amount < pos.base_withdrawal_limit
    BY <2>4, <2>6, <2>9, <2>10 DEF before
  <2>11. CASE ~(new.amount < pos.base_withdrawal_limit)
    <3>1. new.withdrawal_limit = Greatest(new.amount - PercentOf(new.amount, pos.expand_pct), before)
      BY <2>3, <2>11 DEF WithdrawalLimitAfter
    <3>2. PercentOf(new.amount, pos.expand_pct) \in 0..new.amount
      BY <2>6, PercentBound DEF SupplyPosition
    <3>3. new.withdrawal_limit >= before
      BY <2>4, <2>6, <3>1, <3>2 DEF Greatest
    <3>4. /\ WithdrawalLimitBefore(new, t) \in Nat /\ new.withdrawal_limit \in Nat
      BY <2>2, <2>3, LimitInForce, Constants DEF SupplyPosition
    <3> QED BY <2>4, <2>5, <3>3, <3>4 DEF before
  <2> QED BY <2>10, <2>11
<1>2. CASE SupplyCreation(pos, new, t)
  BY <1>2 DEF SupplyCreation, NewSupplyPosition, SupplySound
<1>3. CASE SupplyConfiguration(pos, new)
  BY <1>3, SupplyConfigured DEF SupplyConfiguration
<1>4. CASE SupplySwitch(pos, new)
  <2>1. PICK c \in UserSupplyConfigs, price \in Nat \ {0} :
          /\ ModeChanges(pos, c)
          /\ new = WithSupplyConfig(ConvertedSupply(pos, c.mode, price), c)
    BY <1>4 DEF SupplySwitch
  <2>2. new.with_interest = (c.mode = 1)
    BY <2>1 DEF WithSupplyConfig, ConvertedSupply, SupplyPosition
  <2> QED BY <2>1, <2>2 DEF ModeChanges
<1>5. CASE SupplyLimitSet(pos, new, t)
  <2>1. new.amount = pos.amount
    <3>1. \A l, u : [pos EXCEPT !.withdrawal_limit = l, !.last_update = u].amount = pos.amount
      BY DEF SupplyPosition
    <3> QED BY <1>5, <3>1 DEF SupplyLimitSet
  <2> QED BY <2>1
<1>6. CASE StatusSet(pos, new)
  BY <1>6 DEF StatusSet, SupplyPosition
<1> QED BY <1>1, <1>2, <1>3, <1>4, <1>5, <1>6 DEF SupplyChange
-----------------------------------------------------------------------------
(* Borrow positions.                                                       *)

BorrowSound(pos) ==
  /\ pos.base_debt_ceiling <= pos.max_debt_ceiling
  /\ pos.status = "Absent" => pos.amount = 0

LEMMA BorrowStaysSound ==
  ASSUME NEW t \in Nat, NEW pos \in BorrowPosition, BorrowSound(pos),
         NEW new, BorrowChange(pos, new, t)
  PROVE  BorrowSound(new)
<1>1. CASE BorrowOperation(pos, new, t)
  <2>1. /\ new.base_debt_ceiling = pos.base_debt_ceiling
        /\ new.max_debt_ceiling = pos.max_debt_ceiling
        /\ new.status = pos.status /\ pos.status = "Active"
    BY <1>1 DEF BorrowOperation, BorrowOrPayback, BorrowOrPaybackAllowed, BorrowPosition
  <2> QED BY <2>1 DEF BorrowSound
<1>2. CASE BorrowCreation(pos, new, t)
  BY <1>2 DEF BorrowCreation, NewBorrowPosition, BorrowSound
<1>3. ASSUME NEW c \in UserBorrowConfigs, NEW old \in BorrowPosition, BorrowConfigAllowed(c),
             old.status # "Absent", new = WithBorrowConfig(old, c)
      PROVE  BorrowSound(new)
  BY <1>3 DEF WithBorrowConfig, BorrowPosition, BorrowConfigAllowed, Activated, BorrowSound
<1>4. CASE BorrowConfiguration(pos, new)
  BY <1>3, <1>4 DEF BorrowConfiguration
<1>5. CASE BorrowSwitch(pos, new)
  <2>1. PICK c \in UserBorrowConfigs, price \in Nat \ {0} :
          /\ pos.status # "Absent" /\ BorrowConfigAllowed(c)
          /\ ConvertedBorrow(pos, c.mode, price).amount <= U64_MAX
          /\ ConvertedBorrow(pos, c.mode, price).debt_ceiling <= U64_MAX
          /\ new = WithBorrowConfig(ConvertedBorrow(pos, c.mode, price), c)
    BY <1>5 DEF BorrowSwitch
  <2> DEFINE converted == ConvertedBorrow(pos, c.mode, price)
  <2>2. converted \in BorrowPosition
    BY <2>1, BorrowConverted
  <2>3. converted.status # "Absent"
    BY <2>1 DEF ConvertedBorrow, BorrowPosition
  <2> HIDE DEF converted
  <2> QED BY <1>3, <2>1, <2>2, <2>3 DEF converted
<1>6. CASE StatusSet(pos, new)
  BY <1>6 DEF StatusSet, BorrowSound, BorrowPosition
<1> QED BY <1>1, <1>2, <1>4, <1>5, <1>6 DEF BorrowChange

(* The ceiling in force never passes the hard ceiling.                     *)
LEMMA CeilingUnderMaximum ==
  ASSUME NEW pos \in BorrowPosition, NEW t \in Nat, pos.last_update <= t, BorrowSound(pos),
         FullyExpanded(pos, pos.amount) >= pos.base_debt_ceiling => pos.expand_duration # 0
  PROVE  BorrowLimitBefore(pos, t) <= pos.max_debt_ceiling
<1>1. BorrowLimitBefore(pos, t) \in Nat
  BY CeilingInForce
<1>2. /\ pos.base_debt_ceiling \in Nat /\ pos.max_debt_ceiling \in Nat
      /\ FullyExpanded(pos, pos.amount) \in Nat
  BY ExpandedNatural, Constants DEF BorrowPosition
<1> DEFINE limit == Least((PercentOf(pos.amount, pos.expand_pct) * (t - pos.last_update))
                             \div pos.expand_duration + pos.debt_ceiling,
                          FullyExpanded(pos, pos.amount))
<1>3. BorrowLimitBefore(pos, t) =
        IF FullyExpanded(pos, pos.amount) < pos.base_debt_ceiling THEN pos.base_debt_ceiling
        ELSE Least(limit, pos.max_debt_ceiling)
  BY DEF BorrowLimitBefore
<1> HIDE DEF limit
<1> QED BY <1>1, <1>2, <1>3 DEF Least, BorrowSound

(* Right after an operation that stored a ceiling, no more than that       *)
(* ceiling, or the base, may be borrowed.                                  *)
LEMMA CeilingJustStored ==
  ASSUME NEW pos \in BorrowPosition, NEW t \in Nat, pos.last_update = t,
         pos.expand_duration # 0
  PROVE  BorrowLimitBefore(pos, t) <= Greatest(pos.debt_ceiling, pos.base_debt_ceiling)
<1>1. /\ pos.amount \in Nat /\ pos.debt_ceiling \in Nat /\ pos.base_debt_ceiling \in Nat
      /\ pos.max_debt_ceiling \in Nat /\ pos.expand_duration \in Nat \ {0}
      /\ FullyExpanded(pos, pos.amount) \in Nat /\ PercentOf(pos.amount, pos.expand_pct) \in Nat
  BY Constants, PositionsAssumption, ExpandedNatural DEF BorrowPosition, PositionsAssumption
<1> DEFINE expanded == (PercentOf(pos.amount, pos.expand_pct) * (t - pos.last_update))
                          \div pos.expand_duration + pos.debt_ceiling
<1>2. PercentOf(pos.amount, pos.expand_pct) * (t - pos.last_update) = 0
  BY <1>1
<1>3. 0 \div pos.expand_duration = 0
  BY <1>1
<1>4. expanded = pos.debt_ceiling
  BY <1>1, <1>2, <1>3
<1>5. BorrowLimitBefore(pos, t) =
        IF FullyExpanded(pos, pos.amount) < pos.base_debt_ceiling THEN pos.base_debt_ceiling
        ELSE Least(Least(expanded, FullyExpanded(pos, pos.amount)), pos.max_debt_ceiling)
  BY DEF BorrowLimitBefore
<1> HIDE DEF expanded
<1> QED BY <1>1, <1>4, <1>5 DEF Least, Greatest

(* A debt changes, other than by a conversion, in operate only.            *)
LEMMA OnlyOperateMovesDebt ==
  ASSUME NEW t \in Nat, NEW pos \in BorrowPosition, BorrowSound(pos),
         NEW new, BorrowChange(pos, new, t),
         pos.amount # new.amount, pos.with_interest = new.with_interest
  PROVE  BorrowOperation(pos, new, t)
<1>1. CASE BorrowCreation(pos, new, t)
  BY <1>1 DEF BorrowCreation, NewBorrowPosition, BorrowSound
<1>2. CASE BorrowConfiguration(pos, new)
  BY <1>2 DEF BorrowConfiguration, WithBorrowConfig, BorrowPosition
<1>3. CASE BorrowSwitch(pos, new)
  <2>1. PICK c \in UserBorrowConfigs, price \in Nat \ {0} :
          /\ ModeChanges(pos, c)
          /\ new = WithBorrowConfig(ConvertedBorrow(pos, c.mode, price), c)
    BY <1>3 DEF BorrowSwitch
  <2>2. new.with_interest = (c.mode = 1)
    BY <2>1 DEF WithBorrowConfig, ConvertedBorrow, BorrowPosition
  <2> QED BY <2>1, <2>2 DEF ModeChanges
<1>4. CASE StatusSet(pos, new)
  BY <1>4 DEF StatusSet, BorrowPosition
<1> QED BY <1>1, <1>2, <1>3, <1>4 DEF BorrowChange

LEMMA HardCeilingKept ==
  ASSUME NEW t \in Nat, NEW pos \in BorrowPosition, pos.last_update <= t, BorrowSound(pos),
         NEW amount \in Int, NEW price \in Nat \ {0},
         BorrowOrPaybackAllowed(pos, amount, price, t),
         BorrowOrPayback(pos, amount, price, t).amount > pos.amount
  PROVE  BorrowOrPayback(pos, amount, price, t).amount <= pos.max_debt_ceiling
<1> DEFINE delta == BorrowDelta(pos, amount, price)
           new == BorrowOrPayback(pos, amount, price, t)
<1>1. /\ new.amount = pos.amount + delta /\ new.amount \in Nat
      /\ pos.amount \in Nat /\ pos.max_debt_ceiling \in Nat /\ delta \in Int
  BY BorrowOperated, BorrowDeltaInteger, Constants DEF BorrowPosition
<1>2. amount <= 0 => delta <= 0
  <2> SUFFICES ASSUME amount <= 0 PROVE delta <= 0
    OBVIOUS
  <2>1. Precision \in Nat \ {0} /\ pos.with_interest \in BOOLEAN
    BY Constants DEF BorrowPosition
  <2>2. -amount * Precision \in Nat
    BY <2>1
  <2>3. (-amount * Precision) \div price \in Nat
    BY <2>2, Quotient
  <2> QED BY <2>1, <2>3 DEF BorrowDelta
<1>3. amount > 0
  BY <1>1, <1>2
<1>4. /\ pos.amount + delta <= BorrowLimitBefore(pos, t)
      /\ BorrowLimitBefore(pos, t) \in Nat
      /\ BorrowLimitBefore(pos, t) <= pos.max_debt_ceiling
  BY <1>3, CeilingUnderMaximum, CeilingInForce DEF BorrowOrPaybackAllowed
<1> HIDE DEF delta, new
<1> QED BY <1>1, <1>4 DEF new

LEMMA CeilingKept ==
  ASSUME NEW t \in Nat, NEW pos \in BorrowPosition, pos.last_update <= t,
         pos.expand_duration # 0,
         NEW amount \in Int, NEW price \in Nat \ {0},
         BorrowOrPaybackAllowed(pos, amount, price, t)
  PROVE  BorrowLimitBefore(BorrowOrPayback(pos, amount, price, t), t)
           <= Greatest(BorrowLimitBefore(pos, t), pos.base_debt_ceiling)
<1> DEFINE before == BorrowLimitBefore(pos, t)
           new == BorrowOrPayback(pos, amount, price, t)
<1>1. before \in Nat
  BY CeilingInForce
<1>2. new \in BorrowPosition /\ new.last_update = t
  BY BorrowOperated
<1>3. /\ new.debt_ceiling = BorrowLimitAfter(pos, new.amount, before)
      /\ new.expand_duration = pos.expand_duration
      /\ new.base_debt_ceiling = pos.base_debt_ceiling
  BY DEF BorrowOrPayback, BorrowPosition
<1> HIDE DEF before, new
<1>4. /\ new.amount \in Nat /\ pos.base_debt_ceiling \in Nat /\ pos.max_debt_ceiling \in Nat
      /\ new.debt_ceiling \in Nat
  BY <1>2, Constants DEF BorrowPosition
<1>5. FullyExpanded(pos, new.amount) \in Nat
  BY <1>4, ExpandedNatural
<1>6. new.debt_ceiling <= Greatest(before, pos.base_debt_ceiling)
  BY <1>1, <1>3, <1>4, <1>5 DEF BorrowLimitAfter, Least, Greatest
<1>7. BorrowLimitBefore(new, t) <= Greatest(new.debt_ceiling, new.base_debt_ceiling)
  BY <1>2, <1>3, CeilingJustStored
<1>8. BorrowLimitBefore(new, t) \in Nat
  BY <1>2, <1>3, CeilingInForce
<1> QED BY <1>1, <1>3, <1>4, <1>6, <1>7, <1>8 DEF Greatest, before, new

-----------------------------------------------------------------------------
(* The inductive invariant and the theorems.                               *)

LimitInv ==
  /\ TypeInv
  /\ \A p \in Protocols : SupplySound(supplyPos[p]) /\ BorrowSound(borrowPos[p])

LEMMA LimitInit == Init => LimitInv
<1> SUFFICES ASSUME Init PROVE LimitInv
  OBVIOUS
<1>1. TypeInv
  BY TypeInit
<1>2. /\ SupplySound(NewSupplyPosition("Absent", 0))
      /\ BorrowSound(NewBorrowPosition("Absent", 0))
  BY DEF SupplySound, BorrowSound, NewSupplyPosition, NewBorrowPosition
<1>3. \A p \in Protocols : /\ supplyPos[p] = NewSupplyPosition("Absent", 0)
                           /\ borrowPos[p] = NewBorrowPosition("Absent", 0)
  BY DEF Init
<1> QED BY <1>1, <1>2, <1>3 DEF LimitInv

(* What a state of the invariant says of the positions of one protocol.    *)
LEMMA PositionsSound ==
  ASSUME LimitInv, NEW p \in Protocols
  PROVE  /\ now \in Nat
         /\ supplyPos[p] \in SupplyPosition /\ supplyPos[p].last_update <= now
         /\ SupplySound(supplyPos[p])
         /\ borrowPos[p] \in BorrowPosition /\ borrowPos[p].last_update <= now
         /\ BorrowSound(borrowPos[p])
BY Unpacked DEF LimitInv

LEMMA LimitStep == LimitInv /\ [LayerNext]_vars => LimitInv'
<1> SUFFICES ASSUME LimitInv, [LayerNext]_vars PROVE LimitInv'
  OBVIOUS
<1>1. TypeInv /\ TypeInv'
  BY TypeStep DEF LimitInv
<1>2. ASSUME NEW p \in Protocols
      PROVE  SupplySound(supplyPos'[p]) /\ BorrowSound(borrowPos'[p])
  <2>1. /\ SupplyChange(supplyPos[p], supplyPos'[p], now)
        /\ BorrowChange(borrowPos[p], borrowPos'[p], now)
    BY <1>1, PositionsChange
  <2> QED BY <2>1, PositionsSound, SupplyStaysSound, BorrowStaysSound
<1>3. \A p \in Protocols : SupplySound(supplyPos[p])' /\ BorrowSound(borrowPos[p])'
  BY <1>2 DEF SupplySound, BorrowSound
<1> QED BY <1>1, <1>3 DEF LimitInv

(* No sequence of deposits, withdrawals, conversions, configurations and   *)
(* manual limits leaves a withdrawal limit above what the position holds   *)
(* (operate, update_user_withdrawal_limit, update_user_supply_config).     *)
THEOREM WithdrawalLimitsWithinSupply == Spec => []WithdrawalLimitWithinSupply
<1>1. LimitInv => WithdrawalLimitWithinSupply
  BY DEF LimitInv, SupplySound, WithdrawalLimitWithinSupply
<1> QED BY <1>1, LimitInit, LimitStep, LayerSpec, PTL

(* A deposit or withdrawal never lowers the withdrawal limit in force at   *)
(* that second (calc_withdrawal_limit_after_operate), so splitting a       *)
(* withdrawal does not let more out than one withdrawal would.             *)
THEOREM WithdrawalWindowsHold == Spec => WithdrawalWindowNotReopened
<1>1. LimitInv /\ [LayerNext]_vars =>
        [\A p \in Protocols :
           LET pos == supplyPos[p]
           IN  /\ pos.amount # supplyPos'[p].amount
               /\ pos.with_interest = supplyPos'[p].with_interest
               /\ pos.expand_duration # 0
               => \/ WithdrawalLimitBefore(pos, now) < pos.base_withdrawal_limit
                  \/ WithdrawalLimitBefore(supplyPos'[p], now) >= WithdrawalLimitBefore(pos, now)
        ]_vars
  BY PositionsChange, PositionsSound, WindowKept DEF LimitInv
<1> QED BY <1>1, LimitInit, LimitStep, LayerSpec, PTL DEF WithdrawalWindowNotReopened

(* A borrow or payback never raises the ceiling in force at that second    *)
(* above what it was or the base (calc_borrow_limit_after_operate).        *)
THEOREM DebtWindowsHold == Spec => BorrowWindowNotReopened
<1>1. ASSUME LimitInv, [LayerNext]_vars, NEW p \in Protocols,
             borrowPos[p].amount # borrowPos'[p].amount,
             borrowPos[p].with_interest = borrowPos'[p].with_interest,
             borrowPos[p].expand_duration # 0
      PROVE  BorrowLimitBefore(borrowPos'[p], now)
               <= Greatest(BorrowLimitBefore(borrowPos[p], now), borrowPos[p].base_debt_ceiling)
  <2>1. BorrowOperation(borrowPos[p], borrowPos'[p], now)
    BY <1>1, PositionsChange, PositionsSound, OnlyOperateMovesDebt DEF LimitInv
  <2> QED BY <1>1, <2>1, PositionsSound, CeilingKept DEF BorrowOperation
<1>2. LimitInv /\ [LayerNext]_vars =>
        [\A p \in Protocols :
           LET pos == borrowPos[p]
           IN  /\ pos.amount # borrowPos'[p].amount
               /\ pos.with_interest = borrowPos'[p].with_interest
               /\ pos.expand_duration # 0
               => BorrowLimitBefore(borrowPos'[p], now)
                    <= Greatest(BorrowLimitBefore(pos, now), pos.base_debt_ceiling)
        ]_vars
  BY <1>1
<1> QED BY <1>2, LimitInit, LimitStep, LayerSpec, PTL DEF BorrowWindowNotReopened

(* A borrow never takes a position above its hard ceiling, whatever the    *)
(* history of operations and configurations (operate,                      *)
(* calc_borrow_limit_before_operate).                                      *)
THEOREM HardCeilingsHold == Spec => DebtWithinHardCeiling
<1>1. ASSUME LimitInv, [LayerNext]_vars, NEW p \in Protocols,
             borrowPos'[p].amount > borrowPos[p].amount,
             borrowPos'[p].with_interest = borrowPos[p].with_interest
      PROVE  borrowPos'[p].amount <= borrowPos[p].max_debt_ceiling
  <2>1. BorrowOperation(borrowPos[p], borrowPos'[p], now)
    <3>1. borrowPos'[p].amount # borrowPos[p].amount
      <4>1. borrowPos[p].amount \in Nat
        BY <1>1, PositionsSound, Constants DEF BorrowPosition
      <4> QED BY <1>1, <4>1
    <3> QED BY <1>1, <3>1, PositionsChange, PositionsSound, OnlyOperateMovesDebt DEF LimitInv
  <2> QED BY <1>1, <2>1, PositionsSound, HardCeilingKept DEF BorrowOperation
<1>2. LimitInv /\ [LayerNext]_vars =>
        [\A p \in Protocols :
           /\ borrowPos'[p].amount > borrowPos[p].amount
           /\ borrowPos'[p].with_interest = borrowPos[p].with_interest
           => borrowPos'[p].amount <= borrowPos[p].max_debt_ceiling]_vars
  BY <1>1
<1> QED BY <1>2, LimitInit, LimitStep, LayerSpec, PTL DEF DebtWithinHardCeiling
=============================================================================

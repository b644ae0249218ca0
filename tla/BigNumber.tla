----------------------------- MODULE BigNumber -----------------------------
(***************************************************************************)
(* The debt factors of the vaults (crates/library/src/math/bn.rs): a        *)
(* number is a coefficient of COEFFICIENT_SIZE bits and an exponent.  The   *)
(* code packs both into one u64; here they are the fields of a record.  The *)
(* factor of a branch starts at InitialFactor and only shrinks, so the      *)
(* leading bit of a coefficient is always set.  BNError stands for the      *)
(* LibraryBnError of the code, which ends the transaction.                  *)
(***************************************************************************)
EXTENDS FixedPoint, FiniteSets

CONSTANTS COEFFICIENT_SIZE,  \* 35 in the code
          EXPONENT_MAX,      \* 2^15 - 1
          DECIMALS,          \* 2^14: the exponent that stands for one
          PRECISION          \* 64

ASSUME BigNumberAssumption ==
  /\ COEFFICIENT_SIZE \in Nat \ {0} /\ PRECISION \in Nat \ {0, 1}
  /\ COEFFICIENT_SIZE <= PRECISION
  /\ DECIMALS \in Nat \ {0} /\ EXPONENT_MAX \in Nat /\ DECIMALS < EXPONENT_MAX

\* The powers of two that numbers are shifted by.
BITS == COEFFICIENT_SIZE + PRECISION
TwoTo ==
  LET Power[k \in 0 .. BITS] == IF k = 0 THEN 1 ELSE 2 * Power[k - 1]
  IN  [k \in 0 .. BITS |-> Power[k]]

COEFFICIENT_MAX == TwoTo[COEFFICIENT_SIZE] - 1
TwoPowerPrecision == TwoTo[PRECISION]

Big(coefficient, exponent) == [coefficient |-> coefficient, exponent |-> exponent]
BigZero == Big(0, 0)
BNError == Big(-1, 0)
InitialFactor == Big(COEFFICIENT_MAX, DECIMALS)
\* The factor of a position that is liquidated to (almost) nothing.
MaxMask == Big(COEFFICIENT_MAX, EXPONENT_MAX)

BigNumbers == [coefficient : TwoTo[COEFFICIENT_SIZE - 1] .. COEFFICIENT_MAX,
               exponent : 1 .. EXPONENT_MAX] \union {BigZero}

\* most_significant_bit: the number of bits of n.
BitLength(n) == Cardinality({k \in 0 .. BITS - 1 : TwoTo[k] <= n})

\* normal * big1 / big2, for a debt and two factors (big2 the larger).  From a
\* shift on, 129 in the code, the quotient is 0; here from where it is below the
\* hundredth of normal that a position keeps nothing of.  A negative shift and a
\* zero divisor fail (MulDivNormalDefined).
MulDivNormal(normal, big1, big2) ==
  LET shift == big2.exponent - big1.exponent
  IN  IF big1 = BigZero \/ big2 = BigZero \/ shift \notin 0 .. COEFFICIENT_SIZE + 2 THEN 0
      ELSE (normal * big1.coefficient) \div (big2.coefficient * TwoTo[shift])

MulDivNormalDefined(big1, big2) ==
  \/ big1 = BigZero \/ big2 = BigZero
  \/ big2.exponent >= big1.exponent /\ big2.coefficient # 0

\* big * number / 2^PRECISION: the factor of a branch after a liquidation.
MulDivBigNumber(big, number) ==
  IF big = BigZero \/ number = 0 THEN BigZero
  ELSE LET numerator == big.coefficient * number
           shift == SaturatingSub(BitLength(numerator), COEFFICIENT_SIZE)
           exponent == big.exponent + shift - PRECISION
       IN  IF exponent \notin 1 .. EXPONENT_MAX THEN BNError
           ELSE Big(numerator \div TwoTo[shift], exponent)

\* big1 * big2: the connection factor along a chain of merged branches.
MulBigNumber(big1, big2) ==
  LET product  == big1.coefficient * big2.coefficient
      overflow == IF product > TwoTo[2 * COEFFICIENT_SIZE - 1] - 1
                  THEN COEFFICIENT_SIZE ELSE COEFFICIENT_SIZE - 1
      exponent == big1.exponent + big2.exponent + overflow - DECIMALS
  IN  IF big1 = BNError \/ exponent < 0 THEN BNError
      ELSE IF exponent > EXPONENT_MAX THEN MaxMask
      ELSE Big(product \div TwoTo[overflow], exponent)

\* big1 / big2: what a branch that merges leaves as its connection factor.
DivBigNumber(big1, big2) ==
  IF big1 = BigZero THEN BigZero
  ELSE IF big2.coefficient = 0 THEN BNError
  ELSE LET quotient == (big1.coefficient * TwoPowerPrecision) \div big2.coefficient
           overflow == (IF quotient \div TwoPowerPrecision = 1 THEN PRECISION + 1
                                                               ELSE PRECISION)
                       - COEFFICIENT_SIZE
           exponent == big1.exponent + DECIMALS + overflow
                       - (big2.exponent + PRECISION)
       IN  IF exponent \notin 1 .. EXPONENT_MAX THEN BNError
           ELSE Big(quotient \div TwoTo[overflow], exponent)
=============================================================================

---------------------------- MODULE FixedPoint -----------------------------
(***************************************************************************)
(* The integer arithmetic of crates/library that every program shares.     *)
(***************************************************************************)
EXTENDS Integers

(* safe_div_ceil on unsigned operands.                                     *)
DivCeil(x, y) == (x + y - 1) \div y

(* safe_div on signed operands: Rust truncates towards zero.               *)
DivTrunc(x, y) == IF x >= 0 THEN x \div y ELSE -((-x) \div y)

SaturatingSub(x, y) == IF x > y THEN x - y ELSE 0

Least(x, y) == IF x <= y THEN x ELSE y
Greatest(x, y) == IF x >= y THEN x ELSE y
=============================================================================

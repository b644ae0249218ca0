----------------------------- MODULE MCLending -----------------------------
(* Lending for TLC: an exchange price of one is 4, a year has two seconds  *)
(* and rewards are capped at half the market in a year, so that a second   *)
(* of full rewards, or of interest, moves the fToken price by one.         *)
EXTENDS Lending

Plans == {[amount |-> 1, duration |-> 1], [amount |-> 1, duration |-> 2]}
=============================================================================

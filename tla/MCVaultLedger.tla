--------------------------- MODULE MCVaultLedger ---------------------------
(* VaultLedger for TLC: an exchange price of one is 4, a year has two       *)
(* seconds, the borrow token has one decimal less than the vault counts.    *)
EXTENDS VaultLedger

MCAmounts == {<<4, 1>>, <<2, 0>>, <<-2, -1>>, <<0, ALL>>, <<ALL, ALL>>}
MCLiquidations == {<<2, 2>>, <<1, 3>>}
MCMagnifiers == {-2, 2}

\* The second may never be put in force: the penalty does not fit.
Configuration(supply, borrow, gap, penalty, fee) ==
  [supply_rate_magnifier |-> supply, borrow_rate_magnifier |-> borrow,
   collateral_factor |-> 50, liquidation_threshold |-> 60, liquidation_max_limit |-> 80,
   withdraw_gap |-> gap, liquidation_penalty |-> penalty, borrow_fee |-> fee]
MCSettings == {Configuration(0, 0, 0, 10, 0), Configuration(2, 2, 30, 12, 2)}
=============================================================================

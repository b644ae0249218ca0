------------------------------ MODULE MCVault -------------------------------
(* Instances of Vault for TLC.                                              *)
EXTENDS Vault

MCMinTick == -5

\* Deposit and borrow to a lower or a higher tick, withdraw and pay back a
\* part, pay back all, and leave.
MCAmounts ==
  {<<4400, 3500>>, <<4400, 4800>>, <<-1100, -1200>>, <<0, ALL>>, <<ALL, ALL>>}

\* A few units beside a debt of some size: open, add a unit, pay back or leave
MCDustAmounts == {<<8, 4>>, <<40, 30>>, <<1, 0>>, <<0, ALL>>, <<ALL, ALL>>}
=============================================================================

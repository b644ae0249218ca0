------------------------- MODULE LiquidityAccounts -------------------------
(***************************************************************************)
(* The liquidity layer implements, for each protocol and whatever all the  *)
(* others do, the supply account that the programs on top of it rely on.   *)
(***************************************************************************)
EXTENDS Liquidity

Account(p) == INSTANCE SupplyAccount
  WITH OperateAmounts <- {Positive(s) : s \in SupplyAmounts} \cup {Positive(-s) : s \in SupplyAmounts},
       price <- CalculateExchangePrices(reserve, now).supply,
       raw <- supplyPos[p].amount,
       earning <- supplyPos[p].with_interest

(* No instruction of any protocol, user or auth, and no passing second,    *)
(* moves the raw amount of a position but its own operate calls, and none  *)
(* lowers the supply exchange price: every step of the layer is a step of  *)
(* each protocol's supply account or leaves it alone.                      *)
AccountsServed ==
  /\ \A p \in Protocols : Account(p)!AccountInit
  /\ [][\A p \in Protocols : [Account(p)!AccountNext]_(Account(p)!accountVars)]_moneyVars
=============================================================================

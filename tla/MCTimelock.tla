----------------------------- MODULE MCTimelock -----------------------------
(* Model values for Timelock.                                                *)
EXTENDS Timelock, TLC

CONSTANTS uusd, uluna

Nothing == [d \in {} |-> 0]
SingleCoins == {Nothing, uusd :> 1, uluna :> 1}

\* A minimum of another coin: met only when that coin joins.
AllConditions ==
  {NoCondition, Never, AtTime(3), AtHeight(2), MinimumFunds(uusd :> 1 @@ uluna :> 1)}
=============================================================================

---------------------------- MODULE MCNftVenues ----------------------------
(* NftVenues with two people who are alike and a contract. *)
EXTENDS NftVenues, TLC

CONSTANTS u1, u2, c1, t1, t2

MCUsers == {u1, u2, c1}
MCContracts == {c1}
\* Enough to bid and to pay the price as well; of the contracts only the staking
\* contract starts with coins, the rewards of a few seconds.
MCPurse == [a \in MCUsers \cup Custodians |->
  IF a = c1 THEN 0 ELSE IF a = Staking THEN 2 ELSE IF a \in MCUsers THEN 6 ELSE 0]
MCTokensAt == [v \in Venues |-> IF v \in {"lock", "wrap", "gumball"} THEN {t1, t2} ELSE {t1}]
MCTimeAt == [v \in Venues |-> IF v = "staking" THEN 3 ELSE IF v = "lock" THEN 2 ELSE 1]
Symmetry == Permutations({u1, u2})
=============================================================================

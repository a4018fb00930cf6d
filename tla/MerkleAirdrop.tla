--------------------------- MODULE MerkleAirdrop ----------------------------
(***************************************************************************)
(* The merkle airdrop, contracts/fungible-tokens/andromeda-merkle-airdrop: *)
(* the owner registers stages, each the root of a tree of users and        *)
(* amounts; a user claims an amount by a proof of one leaf, and the owner  *)
(* burns what an expired stage has left.  A proof is modelled by whether   *)
(* the leaf is in the tree.  Nothing relates a stage's total to its tree   *)
(* or to what the contract holds.                                          *)
(***************************************************************************)
EXTENDS AdoBase

CONSTANTS
  Trees,           \* sets of leaves, pairs of a user and an amount
  AirdropTotals,   \* total_amount, 0 when it is left out
  Expirations,     \* times, and Never when expiration is left out
  Never,
  MaxStages        \* bound, for model checking

ASSUME AirdropAssumption ==
  /\ \A tree \in Trees : tree \subseteq Actors \X Nat
  /\ Never \notin Nat /\ Expirations \subseteq Nat \cup {Never}
  /\ AirdropTotals \subseteq Nat /\ MaxStages \in Nat

VARIABLES
  stages,    \* MERKLE_ROOT, STAGE_EXPIRATION, STAGE_AMOUNT, STAGE_AMOUNT_CLAIMED
  claims,    \* CLAIM: pairs of a user and a stage
  paid,      \* history: what each user was paid, by stage
  burned     \* history: what was burned of each stage

AirdropInit ==
  /\ stages = << >> /\ claims = {}
  /\ paid = << >> /\ burned = << >>

\* LATEST_STAGE is the number of stages.
RegisterMerkleRoot(s, tree, expiration, total) ==
  /\ Len(stages) < MaxStages
  /\ s = owner
  /\ stages' = Append(stages, [tree |-> tree, expiration |-> expiration, total |-> total, claimed |-> 0])
  /\ paid' = Append(paid, [u \in Actors |-> 0])
  /\ burned' = Append(burned, 0)
  /\ UNCHANGED <<claims, coins>>

StageExpired(k) == stages[k].expiration # Never /\ stages[k].expiration <= clock

\* Bug: a claim is noted by its leaf, not by the user.
ClaimMutant(u, k, amount) ==
  /\ ~StageExpired(k)
  /\ <<u, k, amount>> \notin claims
  /\ <<u, amount>> \in stages[k].tree
  /\ BankSend(This, u, amount)
  /\ claims' = claims \cup {<<u, k, amount>>}
  /\ stages' = [stages EXCEPT ![k].claimed = @ + amount]
  /\ paid' = [paid EXCEPT ![k][u] = @ + amount]
  /\ UNCHANGED burned

Claim(u, k, amount) ==
  /\ ~StageExpired(k)
  /\ <<u, k>> \notin claims
  /\ <<u, amount>> \in stages[k].tree
  /\ BankSend(This, u, amount)
  /\ claims' = claims \cup {<<u, k>>}
  /\ stages' = [stages EXCEPT ![k].claimed = @ + amount]
  /\ paid' = [paid EXCEPT ![k][u] = @ + amount]
  /\ UNCHANGED burned

\* Bug: a stage can be burned while it is open.
BurnMutant(s, k) ==
  LET left == stages[k].total - stages[k].claimed
  IN  /\ s = owner
      /\ 0 < left /\ left <= coins[This]
      /\ coins' = [coins EXCEPT ![This] = @ - left]
      /\ burned' = [burned EXCEPT ![k] = @ + left]
      /\ UNCHANGED <<stages, claims, paid>>

\* Nothing is noted of a burn: it can be done again, with the coins of others.
Burn(s, k) ==
  LET left == stages[k].total - stages[k].claimed
  IN  /\ s = owner
      /\ StageExpired(k)
      /\ 0 < left /\ left <= coins[This]
      /\ coins' = [coins EXCEPT ![This] = @ - left]
      /\ burned' = [burned EXCEPT ![k] = @ + left]
      /\ UNCHANGED <<stages, claims, paid>>

AirdropStep ==
  \/ \E s \in Actors, tree \in Trees, expiration \in Expirations, total \in AirdropTotals :
       RegisterMerkleRoot(s, tree, expiration, total)
  \/ \E k \in DOMAIN stages, s \in Actors :
       Burn(s, k) \/ \E leaf \in stages[k].tree : Claim(s, k, leaf[2])
-----------------------------------------------------------------------------
\* A stage's count is what its users were paid.
ClaimsCounted ==
  \A k \in DOMAIN stages : stages[k].claimed = SumFunction(paid[k])

\* Whichever stages are open together and whatever their totals: a user is paid
\* one leaf of a stage's tree, once; and when the rest of a stage has been
\* burned, nothing of it is claimed any more.
PaidOnce ==
  \A k \in DOMAIN stages :
    /\ burned[k] > 0 => stages[k].claimed' = stages[k].claimed
    /\ \A u \in Actors :
         \/ paid[k][u]' = paid[k][u]
         \/ paid[k][u] = 0 /\ <<u, paid[k][u]'>> \in stages[k].tree

AirdropFinal == [][PaidOnce]_<<stages, paid, burned>>
=============================================================================

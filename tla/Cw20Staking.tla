---------------------------- MODULE Cw20Staking -----------------------------
(***************************************************************************)
(* The staking contract, contracts/fungible-tokens/andromeda-cw20-staking. *)
(*                                                                         *)
(* Stakers hold shares of a pool of one cw20 token; what is sent to the    *)
(* pool besides stakes makes every share worth more.  Further tokens are   *)
(* given out by index: a token's index is what one share has earned so far *)
(* and a staker is paid for the index's growth since the staker's last     *)
(* visit.  The index of a NonAllocated token grows with the contract's     *)
(* balance of it, that of an Allocated one with the clock.                 *)
(***************************************************************************)
EXTENDS AllocatedRewards, FiniteSets, Functions

CONSTANTS
  Users,
  NonAllocated, Allocated,  \* reward tokens, by how they are given out
  InitialTokens,            \* additional_rewards of the instantiation
  AllocationConfigs,        \* allocation configs the owner may choose
  Amounts,                  \* amounts of tokens a message may carry
  MaxRewardTokens,          \* MAX_REWARD_TOKENS
  MaxTime, MaxPool, MaxFunded   \* bounds, for model checking

RewardTokens == NonAllocated \cup Allocated

ASSUME Cw20StakingAssumption ==
  /\ IsFiniteSet(Users) /\ IsFiniteSet(RewardTokens)
  /\ NonAllocated \cap Allocated = {} /\ InitialTokens \subseteq RewardTokens
  /\ AllocationConfigs \subseteq AllocationConfig
  /\ Amounts \subseteq Nat \ {0}
  /\ MaxRewardTokens \in Nat /\ Cardinality(InitialTokens) <= MaxRewardTokens
  /\ MaxTime \in Nat /\ MaxPool \in Nat /\ MaxFunded \in Nat

VARIABLES
  now,         \* env.block.time.seconds()
  pool,        \* the contract's balance of the staking token
  totalShare,  \* STATE.total_share
  share,       \* STAKERS, 0 for an address that never staked
  reward,      \* REWARD_TOKENS
  info,        \* STAKER_REWARD_INFOS, with the default where there is none
  balance,     \* the contract's balance of each reward token
  released,    \* history: what each allocated token has added to its index
  claimed      \* history: what each staker has been paid

history == <<released, claimed>>
vars == <<now, pool, totalShare, share, reward, info, balance, released, claimed>>


Fresh(t, c) ==
  IF t \in NonAllocated THEN [index |-> 0, previous |-> 0]
  ELSE [index |-> 0, config |-> c, state |-> InitialAllocation(c)]
-----------------------------------------------------------------------------
(* update_global_index and update_staker_rewards.                            *)

\* What an update of allocated token r gives out.
DueNow(r) ==
  IF totalShare = 0 \/ NothingDue(r.config, r.state, now) THEN 0
  ELSE Distribution(r.config, r.state, now).rewards

\* Token t with record r after update_global_index: unchanged without stakers.
Updated(t, r) ==
  IF totalShare = 0 THEN r
  ELSE IF t \in NonAllocated
       THEN [index |-> r.index + FromRatio(balance[t] - r.previous, totalShare),
             previous |-> balance[t]]
       ELSE IF NothingDue(r.config, r.state, now) THEN r
       ELSE [r EXCEPT !.index = @ + FromRatio(DueNow(r), totalShare),
                      !.state = Distribution(r.config, r.state, now).state]

\* balance - previous does not underflow.
CanUpdate(T) == totalShare > 0 => \A t \in T \cap NonAllocated : balance[t] >= reward[t].previous

UpdatedTokens(T) ==
  [t \in DOMAIN reward |-> IF t \in T THEN Updated(t, reward[t]) ELSE reward[t]]

ReleasedBy(T) ==
  [t \in Allocated |-> released[t] + (IF t \in T \cap DOMAIN reward THEN DueNow(reward[t]) ELSE 0)]

\* What the reward of one token is for u, when the index is at i.
Earnings(u, t, i) == info[u][t].pending + Times(i - info[u][t].index, share[u])

\* Bug: what was earned on the old share is not settled.
SettledMutant(u, tokens) ==
  [t \in RewardTokens |->
     IF t \in DOMAIN tokens
     THEN [index |-> tokens[t].index, pending |-> info[u][t].pending]
     ELSE info[u][t]]

\* update_staker_rewards: pending rewards are whole tokens, so the fraction a
\* visit leaves is gone.
Settled(u, tokens) ==
  [t \in RewardTokens |->
     IF t \in DOMAIN tokens
     THEN [index |-> tokens[t].index, pending |-> Earnings(u, t, tokens[t].index)]
     ELSE info[u][t]]

\* get_pending_rewards, which queries show and claims pay.
PendingRewards(u, t) == Earnings(u, t, Updated(t, reward[t]).index)

\* Both, for all tokens, as every handler of a staker begins.
UpdateFor(u) ==
  LET tokens == UpdatedTokens(DOMAIN reward)
  IN  /\ CanUpdate(DOMAIN reward)
      /\ reward' = tokens
      /\ info' = [info EXCEPT ![u] = Settled(u, tokens)]
      /\ released' = ReleasedBy(DOMAIN reward)
-----------------------------------------------------------------------------
Init ==
  /\ now = 0 /\ pool = 0 /\ totalShare = 0
  /\ share = [u \in Users |-> 0]
  /\ \E c \in [InitialTokens -> AllocationConfigs] :
       /\ \A t \in InitialTokens \cap Allocated : ValidAllocation(c[t], 0)
       /\ reward = [t \in InitialTokens |-> Fresh(t, c[t])]
  /\ info = [u \in Users |-> [t \in RewardTokens |-> [index |-> 0, pending |-> 0]]]
  /\ balance = [t \in RewardTokens |-> 0]
  /\ released = [t \in Allocated |-> 0]
  /\ claimed = [u \in Users |-> [t \in RewardTokens |-> 0]]

Tick ==
  /\ now < MaxTime
  /\ now' = now + 1
  /\ UNCHANGED <<pool, totalShare, share, reward, info, balance, history>>

\* Tokens sent to the contract without a message: rewards for the pool, and
\* reward tokens.
SendToPool(amount) ==
  /\ pool + amount <= MaxPool
  /\ pool' = pool + amount
  /\ UNCHANGED <<now, totalShare, share, reward, info, balance, history>>

TotalClaimed(t) == SumFunction([u \in Users |-> claimed[u][t]])

Fund(t, amount) ==
  /\ SumFunction([r \in RewardTokens |-> balance[r] + TotalClaimed(r)]) + amount <= MaxFunded
  /\ balance' = [balance EXCEPT ![t] = @ + amount]
  /\ UNCHANGED <<now, pool, totalShare, share, reward, info, history>>

AddRewardToken(t, c) ==
  /\ Cardinality(DOMAIN reward) + 1 <= MaxRewardTokens
  /\ t \notin DOMAIN reward
  /\ t \in Allocated => ValidAllocation(c, now)
  /\ reward' = [s \in DOMAIN reward \cup {t} |-> IF s = t THEN Updated(t, Fresh(t, c)) ELSE reward[s]]
  /\ released' = [a \in Allocated |-> released[a] + (IF a = t THEN DueNow(Fresh(t, c)) ELSE 0)]
  /\ UNCHANGED <<now, pool, totalShare, share, info, balance, claimed>>

\* Called by anyone, for some tokens or all.
UpdateGlobalIndexes(T) ==
  /\ T \subseteq DOMAIN reward
  /\ CanUpdate(T)
  /\ reward' = UpdatedTokens(T)
  /\ released' = ReleasedBy(T)
  /\ UNCHANGED <<now, pool, totalShare, share, info, balance, claimed>>

\* Bug: always one share for one token.
StakeTokensMutant(u, amount) ==
  /\ pool + amount <= MaxPool
  /\ UpdateFor(u)
  /\ share' = [share EXCEPT ![u] = @ + amount]
  /\ totalShare' = totalShare + amount
  /\ pool' = pool + amount
  /\ UNCHANGED <<now, balance, claimed>>

\* execute_stake_tokens, from the Send of the cw20 token.  The new share is
\* rounded down, down to none.
StakeTokens(u, amount) ==
  LET new == IF pool = 0 \/ totalShare = 0 THEN amount ELSE (amount * totalShare) \div pool
  IN  /\ pool + amount <= MaxPool
      /\ UpdateFor(u)
      /\ share' = [share EXCEPT ![u] = @ + new]
      /\ totalShare' = totalShare + new
      /\ pool' = pool + amount
      /\ UNCHANGED <<now, balance, claimed>>

Unstake(u, shares, amount) ==
  /\ UpdateFor(u)
  /\ shares <= share[u]
  /\ 0 < amount /\ amount <= pool
  /\ share' = [share EXCEPT ![u] = @ - shares]
  /\ totalShare' = totalShare - shares
  /\ pool' = pool - amount
  /\ UNCHANGED <<now, balance, claimed>>

\* execute_unstake_tokens of an amount, for at least one share.
UnstakeTokens(u, amount) ==
  /\ pool > 0
  /\ Unstake(u, Later((amount * totalShare) \div pool, 1), amount)

\* Bug: the shares are taken out of the total before the amount is computed.
UnstakeAllMutant(u) ==
  /\ totalShare > share[u]
  /\ Unstake(u, share[u], (share[u] * pool) \div (totalShare - share[u]))

\* execute_unstake_tokens of everything.
UnstakeAll(u) ==
  /\ totalShare > 0
  /\ Unstake(u, share[u], (share[u] * pool) \div totalShare)

\* Bug: what was paid is not taken out of the balance the index goes by.
ClaimRewardsMutant(u) ==
  LET tokens == UpdatedTokens(DOMAIN reward)
      due == [t \in DOMAIN reward |-> PendingRewards(u, t)]
  IN  /\ CanUpdate(DOMAIN reward)
      /\ \E t \in DOMAIN reward : due[t] > 0
      /\ \A t \in DOMAIN reward : due[t] <= balance[t]
      /\ reward' = tokens
      /\ info' = [info EXCEPT ![u] = [t \in RewardTokens |->
                    IF t \in DOMAIN reward THEN [index |-> tokens[t].index, pending |-> 0] ELSE @[t]]]
      /\ balance' = [t \in RewardTokens |->
                       balance[t] - (IF t \in DOMAIN reward THEN due[t] ELSE 0)]
      /\ released' = ReleasedBy(DOMAIN reward)
      /\ claimed' = [claimed EXCEPT ![u] = [t \in RewardTokens |->
                       @[t] + (IF t \in DOMAIN reward THEN due[t] ELSE 0)]]
      /\ UNCHANGED <<now, pool, totalShare, share>>

\* execute_claim_rewards: all tokens are paid, or none.
ClaimRewards(u) ==
  LET tokens == UpdatedTokens(DOMAIN reward)
      due == [t \in DOMAIN reward |-> PendingRewards(u, t)]
  IN  /\ CanUpdate(DOMAIN reward)
      /\ \E t \in DOMAIN reward : due[t] > 0
      /\ \A t \in DOMAIN reward : due[t] <= balance[t]
      /\ \A t \in DOMAIN reward \cap NonAllocated : due[t] <= tokens[t].previous
      /\ reward' = [t \in DOMAIN reward |->
                      IF t \in NonAllocated THEN [tokens[t] EXCEPT !.previous = @ - due[t]]
                      ELSE tokens[t]]
      /\ info' = [info EXCEPT ![u] = [t \in RewardTokens |->
                    IF t \in DOMAIN reward THEN [index |-> tokens[t].index, pending |-> 0] ELSE @[t]]]
      /\ balance' = [t \in RewardTokens |->
                       balance[t] - (IF t \in DOMAIN reward THEN due[t] ELSE 0)]
      /\ released' = ReleasedBy(DOMAIN reward)
      /\ claimed' = [claimed EXCEPT ![u] = [t \in RewardTokens |->
                       @[t] + (IF t \in DOMAIN reward THEN due[t] ELSE 0)]]
      /\ UNCHANGED <<now, pool, totalShare, share>>

Next ==
  \/ Tick
  \/ \E amount \in Amounts :
       \/ SendToPool(amount)
       \/ \E t \in RewardTokens : Fund(t, amount)
       \/ \E u \in Users : StakeTokens(u, amount) \/ UnstakeTokens(u, amount)
  \/ \E u \in Users : UnstakeAll(u) \/ ClaimRewards(u)
  \/ \E t \in RewardTokens, c \in AllocationConfigs : AddRewardToken(t, c)
  \/ \E T \in SUBSET RewardTokens : UpdateGlobalIndexes(T)

Spec == Init /\ [][Next]_vars
-----------------------------------------------------------------------------
\* The total is the sum of the shares, and no share is worth less than a token,
\* however stakes, rewards for the pool and withdrawals round.
SharesBacked ==
  /\ totalShare = SumFunction(share)
  /\ totalShare <= pool

\* In atoms of a token: what u may claim of t, with the fraction since the
\* last visit.
Owed(u, t) ==
  info[u][t].pending * DecimalOne + (reward[t].index - info[u][t].index) * share[u]

\* What a token's index has given out never exceeds what there was to give: for
\* a NonAllocated token the balance seen by the last update, which the contract
\* has, so that its claims never fail; for an Allocated token what was released.
RewardsCovered ==
  \A t \in DOMAIN reward :
    LET owed == SumFunction([u \in Users |-> Owed(u, t)])
    IN  IF t \in NonAllocated
        THEN owed <= reward[t].previous * DecimalOne /\ reward[t].previous <= balance[t]
        ELSE owed + TotalClaimed(t) * DecimalOne <= released[t] * DecimalOne

\* However rarely the contract is called, over whole cycles or within one, an
\* allocation releases what its schedule says, less what is rounded.
OnSchedule ==
  \A t \in DOMAIN reward \cap Allocated :
    LET c == reward[t].config
        due == DueUntil(c, reward[t].state.lastDistributed)
    IN  /\ released[t] * c.cycleDuration <= due
        /\ NoRounding(c) => released[t] * c.cycleDuration = due

\* What u can claim now and was paid before.
Gained(u, t) ==
  claimed[u][t] + (IF t \in DOMAIN reward THEN Earnings(u, t, reward[t].index) ELSE 0)

\* No step takes earned rewards away: not a stake or an unstake, which change
\* the share they are computed from, and not another's claim.
NothingLost == \A u \in Users, t \in RewardTokens : Gained(u, t) <= Gained(u, t)'

EarningsKept == [][NothingLost]_vars

\* Neither a stake nor the withdrawal of a whole stake makes the shares of the
\* others worth less.
Undiluted ==
  totalShare > 0 /\ pool * totalShare' > pool' * totalShare =>
    ~\E u \in Users : UnstakeAll(u) \/ \E amount \in Amounts : StakeTokens(u, amount)

NoDilution == [][Undiluted]_vars
=============================================================================

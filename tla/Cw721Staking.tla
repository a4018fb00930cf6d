---------------------------- MODULE Cw721Staking ----------------------------
(***************************************************************************)
(* Staking of tokens for rewards, contracts/non-fungible-tokens/           *)
(* andromeda-cw721-staking, over the token contract.                       *)
(*                                                                         *)
(* A token sent here earns a fixed reward for every second until its owner *)
(* unstakes it; after an unbonding period token and reward are claimed in  *)
(* one transaction.  The rewards come out of what the contract holds.      *)
(***************************************************************************)
EXTENDS Cw721, Sequences, SequencesExt

CONSTANTS
  Staking,            \* the address of the contract
  Collections,        \* token contracts
  Collection,         \* the one modelled here
  Reward,             \* REWARD: coins per second; no handler changes it
  MinBonded,          \* ONE_DAY
  UnbondingPeriods,   \* inputs of the owner's settings
  MaxAllowed          \* bound on the list of allowed contracts, for model checking

ASSUME Cw721StakingAssumption ==
  /\ Staking \in DOMAIN Purse \ Users
  /\ Collection \in Collections
  /\ Reward \in Nat /\ MinBonded \in Nat /\ UnbondingPeriods \in (SUBSET Nat) \ {{}}
  /\ MaxAllowed \in Nat

VARIABLES
  allowedContracts,   \* ALLOWED_CONTRACTS, in which a contract may appear twice
  unbondingPeriod,    \* UNBONDING_PERIOD
  stakedNfts,         \* STAKED_NFTS, by token
  bondedTime,         \* history: seconds that tokens were staked, over all tokens
  rewardsPaid         \* history: coins paid as rewards

stakingSettings == <<allowedContracts, unbondingPeriod>>
stakingHistory == <<bondedTime, rewardsPaid>>
stakingVars == <<stakingSettings, stakedNfts, stakingHistory>>

NotUnbonded == -1   \* time_of_unbonding: None

StakingInit ==
  /\ allowedContracts = <<Collection>>
  /\ unbondingPeriod = CHOOSE period \in UnbondingPeriods : TRUE   \* may be changed at once
  /\ stakedNfts = [t \in {} |-> 0]
  /\ bondedTime = 0 /\ rewardsPaid = 0

Bonded == {t \in DOMAIN stakedNfts : stakedNfts[t].unbonded = NotUnbonded}

\* Time passes for the tokens that are staked, too.
StakingTick ==
  /\ Tick
  /\ bondedTime' = bondedTime + Cardinality(Bonded)
  /\ UNCHANGED <<stakingSettings, stakedNfts, rewardsPaid>>

\* The hook of SendNft.  What the list said of the token before is overwritten.
Stake(s, t) ==
  /\ Collection \in ToSet(allowedContracts)
  /\ SendNft(s, t, Staking)
  /\ stakedNfts' = [r \in DOMAIN stakedNfts \cup {t} |->
       IF r = t THEN [staker |-> s, since |-> now, unbonded |-> NotUnbonded, accrued |-> 0]
                ELSE stakedNfts[r]]
  /\ UNCHANGED <<stakingSettings, stakingHistory>>

Unstake(s, t) ==
  /\ t \in Bonded /\ stakedNfts[t].staker = s
  /\ now - stakedNfts[t].since >= MinBonded
  /\ stakedNfts' = [stakedNfts EXCEPT ![t].unbonded = now,
                                      ![t].accrued = Reward * (now - stakedNfts[t].since)]
  /\ UNCHANGED <<cw721Vars, now, stakingSettings, stakingHistory>>

\* Bug: the reward grows during the unbonding period, too.
ClaimStakedMutant(s, t, royalty, tax) ==
  /\ t \in DOMAIN stakedNfts \ Bonded /\ stakedNfts[t].staker = s
  /\ now - stakedNfts[t].unbonded >= unbondingPeriod
  /\ LET due == Reward * (now - stakedNfts[t].since)
     IN  /\ due \in 1 .. wallet[Staking]
         /\ TransferNft(Staking, t, s, 0, royalty, tax,
                        [v \in DOMAIN wallet |-> IF v = s THEN due ELSE IF v = Staking THEN -due ELSE 0])
         /\ rewardsPaid' = rewardsPaid + due
  /\ stakedNfts' = Restrict(stakedNfts, DOMAIN stakedNfts \ {t})
  /\ UNCHANGED <<stakingSettings, bondedTime>>

\* execute_claim: the reward and the token, or neither.  A reward of nothing
\* cannot be sent.
ClaimStaked(s, t, royalty, tax) ==
  /\ t \in DOMAIN stakedNfts \ Bonded /\ stakedNfts[t].staker = s
  /\ now - stakedNfts[t].unbonded >= unbondingPeriod
  /\ LET due == stakedNfts[t].accrued
     IN  /\ due \in 1 .. wallet[Staking]
         /\ TransferNft(Staking, t, s, 0, royalty, tax,
                        [v \in DOMAIN wallet |-> IF v = s THEN due ELSE IF v = Staking THEN -due ELSE 0])
         /\ rewardsPaid' = rewardsPaid + due
  /\ stakedNfts' = Restrict(stakedNfts, DOMAIN stakedNfts \ {t})
  /\ UNCHANGED <<stakingSettings, bondedTime>>

\* The owner's settings.
UpdateAllowedContracts(contracts) ==
  /\ allowedContracts' = contracts
  /\ UNCHANGED unbondingPeriod

AddAllowedContract(c) ==
  /\ c \notin ToSet(allowedContracts)
  /\ Len(allowedContracts) < MaxAllowed
  /\ allowedContracts' = Append(allowedContracts, c)
  /\ UNCHANGED unbondingPeriod

\* One entry goes; the order does not matter.
RemoveAllowedContract(c) ==
  /\ c \in ToSet(allowedContracts)
  /\ allowedContracts' = RemoveFirst(allowedContracts, c)
  /\ UNCHANGED unbondingPeriod

UpdateUnbondingPeriod(period) ==
  /\ unbondingPeriod' = period
  /\ UNCHANGED allowedContracts

StakingSettings ==
  /\ \/ \E c \in Collections : AddAllowedContract(c) \/ RemoveAllowedContract(c)
     \/ \E n \in 0 .. MaxAllowed : \E contracts \in [1 .. n -> Collections] :
          UpdateAllowedContracts(contracts)
     \/ \E period \in UnbondingPeriods : UpdateUnbondingPeriod(period)
  /\ UNCHANGED <<cw721Vars, now, stakedNfts, stakingHistory>>

StakingStep ==
  \/ StakingSettings
  \/ \E s \in Users, t \in Tokens :
       \/ Stake(s, t) \/ Unstake(s, t)
       \/ \E royalty \in Royalties, tax \in Taxes : ClaimStaked(s, t, royalty, tax)
-----------------------------------------------------------------------------
\* Rewards are paid for exactly the time tokens were staked, once: what was paid,
\* what waits to be claimed and what staked tokens have earned so far add up to
\* the reward for every second a token spent staked and not unbonding.
RewardsEarned ==
  LET earned(t) == IF t \in Bonded THEN Reward * (now - stakedNfts[t].since)
                                   ELSE stakedNfts[t].accrued
  IN  rewardsPaid + SumFunction([t \in DOMAIN stakedNfts |-> earned(t)]) = Reward * bondedTime
=============================================================================

-------------------------- MODULE AllocatedRewards --------------------------
(***************************************************************************)
(* How an allocated reward token of the staking contract is given out:     *)
(* allocated_rewards.rs of contracts/fungible-tokens/andromeda-cw20-       *)
(* staking.  Rewards accrue by the second from init to till, in cycles     *)
(* whose reward grows by a fixed rate.  The index catches up with the      *)
(* clock, over any number of cycles, whenever somebody calls the contract. *)
(***************************************************************************)
EXTENDS Integers

CONSTANT DecimalOne   \* the atomics of Decimal::one()

ASSUME DecimalAssumption == DecimalOne \in Nat \ {0}

\* Decimal::from_ratio, and Decimal * Uint128, both rounded down.
FromRatio(n, m) == (n * DecimalOne) \div m
Times(x, n) == (x * n) \div DecimalOne

Earlier(a, b) == IF a <= b THEN a ELSE b
Later(a, b) == IF a <= b THEN b ELSE a

AllocationConfig == [init : Nat, till : Nat, cycleRewards : Nat, cycleDuration : Nat \ {0},
                     increase : 0 .. DecimalOne - 1]

\* RewardTokenUnchecked::check
ValidAllocation(c, now) ==
  c.init >= now /\ c.init < c.till /\ c.cycleDuration > 0 /\ c.increase < DecimalOne

InitialAllocation(c) ==
  [currentCycle |-> 0, currentCycleRewards |-> c.cycleRewards, lastDistributed |-> c.init]

CyclesElapsed(c, now) ==
  IF c.init >= now THEN 0
  ELSE Earlier((c.till - c.init) \div c.cycleDuration, (now - c.init) \div c.cycleDuration)

CycleStart(c, cycle) == c.init + cycle * c.cycleDuration

DistributedForCycle(rate, from, till) == IF till <= from THEN 0 ELSE Times(rate, till - from)

\* Bug: the rate grows with every distribution, not with every cycle.
CycleRewardsMutant(rewards, increase, isSameCycle) == rewards + Times(increase, rewards)

CycleRewards(rewards, increase, isSameCycle) ==
  IF isSameCycle THEN rewards ELSE rewards + Times(increase, rewards)

\* The loop of update_allocated_index, from the cycle of the last distribution
\* to the current one: what is given out, and the allocation it leaves.
Distribution(c, s, now) ==
  LET current == CyclesElapsed(c, now)
      first == s.currentCycle
      after[cycle \in first - 1 .. current] ==
        IF cycle = first - 1
        THEN [rewards |-> 0, cycleRewards |-> s.currentCycleRewards, last |-> s.lastDistributed]
        ELSE LET b == after[cycle - 1]
                 end == Earlier(now, Earlier(c.till, CycleStart(c, cycle + 1)))
             IN  [rewards |-> b.rewards + DistributedForCycle(
                               FromRatio(b.cycleRewards, c.cycleDuration), Later(b.last, c.init), end),
                  cycleRewards |-> CycleRewards(b.cycleRewards, c.increase, cycle = current),
                  last |-> end]
      done == after[current]
  IN  [rewards |-> done.rewards,
       state |-> [currentCycle |-> current,
                  currentCycleRewards |-> IF done.last = c.till THEN 0 ELSE done.cycleRewards,
                  lastDistributed |-> done.last]]

\* Nothing is left to give out, or nothing yet.
NothingDue(c, s, now) == s.lastDistributed = c.till \/ c.init > now
-----------------------------------------------------------------------------
(* The reference: second by second, each at the rate of its own cycle.       *)

RewardsOfCycle(c, cycle) ==
  LET r[k \in 0 .. cycle] == IF k = 0 THEN c.cycleRewards ELSE r[k - 1] + Times(c.increase, r[k - 1])
  IN  r[cycle]

\* cycleDuration times what is due from init until time t.
DueUntil(c, t) ==
  LET d[s \in c.init .. t] ==
        IF s = c.init THEN 0
        ELSE d[s - 1] + RewardsOfCycle(c, (s - 1 - c.init) \div c.cycleDuration)
  IN  d[t]

\* Every cycle's reward divides into whole tokens a second.
NoRounding(c) ==
  \A k \in 0 .. CyclesElapsed(c, c.till) :
    /\ RewardsOfCycle(c, k) % c.cycleDuration = 0
    /\ (c.increase * RewardsOfCycle(c, k)) % DecimalOne = 0
=============================================================================

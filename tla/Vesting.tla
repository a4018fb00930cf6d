------------------------------ MODULE Vesting -------------------------------
(***************************************************************************)
(* The vesting contract, contracts/finance/andromeda-vesting.              *)
(*                                                                         *)
(* The owner funds batches of one coin.  After its lockup a batch releases *)
(* a fixed amount every release unit, and the owner claims the releases    *)
(* for the recipient, batch by batch or over all batches.  Coins that wait *)
(* may be staked, so a claim can find less in the contract than is due.    *)
(* Transactions are atomic; the staking module, which also slashes and     *)
(* completes unbondings, acts between them.                                *)
(***************************************************************************)
EXTENDS Integers, FiniteSets, Functions

CONSTANTS
  Owner, Operators,     \* the contract owner, and its operators (ADOContract)
  Validators,           \* validators coins may be delegated to
  IsMultiBatchEnabled,  \* config.is_multi_batch_enabled
  Amounts,              \* amounts a batch may be funded with
  LockupDurations,      \* lockup_duration; 0 stands for None too
  ReleaseUnits,         \* release_unit
  ReleaseAmounts,       \* release_amount: [percentage |-> BOOLEAN, value |-> Nat]
  DecimalOne,           \* the atomics of Decimal::one()
  Limits,               \* limit of claim_all, with the default and the maximum applied
  MaxUint,              \* the largest Uint128
  MaxBatches, MaxTime, MaxSlashed   \* bounds, for model checking

ASSUME VestingAssumption ==
  /\ IsMultiBatchEnabled \in BOOLEAN
  /\ IsFiniteSet(Validators)
  /\ MaxUint \in Nat /\ DecimalOne \in Nat \ {0}
  /\ Amounts \subseteq 0 .. MaxUint
  /\ LockupDurations \subseteq Nat /\ ReleaseUnits \subseteq Nat
  /\ ReleaseAmounts \subseteq [percentage : BOOLEAN, value : Nat]
  /\ Limits \subseteq Nat
  /\ MaxBatches \in Nat /\ MaxTime \in Nat /\ MaxSlashed \in Nat

VARIABLES
  now,        \* env.block.time.seconds()
  nextId,     \* NEXT_ID
  batches,    \* batches(), by id
  liquid,     \* the contract's bank balance of config.denom
  delegated,  \* staked with each validator
  unbonding,  \* undelegated and not yet returned
  slashed,    \* history: what the staking module has taken
  paid,       \* history: what the recipient has been sent
  short       \* history: batches a claim paid less than was due

staking == <<delegated, unbonding, slashed>>
vars == <<now, nextId, batches, liquid, delegated, unbonding, slashed, paid, short>>

MinOf(a, b) == IF a <= b THEN a ELSE b

Batch == [amount : 0 .. MaxUint, amountClaimed : 0 .. MaxUint, lockupEnd : Nat,
          releaseUnit : Nat \ {0}, releaseAmount : ReleaseAmounts,
          lastClaimedReleaseTime : Nat]
-----------------------------------------------------------------------------
(* What a claim computes from a batch, WithdrawalType::get_amount included.  *)

\* Rates over one are accepted by create_batch and refused by every claim.
RateOK(b) == b.releaseAmount.percentage => b.releaseAmount.value <= DecimalOne

AmountPerClaim(b) ==
  IF b.releaseAmount.percentage
  THEN (b.amount * b.releaseAmount.value) \div DecimalOne
  ELSE MinOf(b.releaseAmount.value, b.amount)

Remaining(b) == b.amount - b.amountClaimed

\* The releases of b up to time t that no claim has counted yet.
AvailableClaims(b, t) == (t - b.lastClaimedReleaseTime) \div b.releaseUnit

\* claim_batch panics when the multiplication overflows.
ClaimSucceeds(b, n) == RateOK(b) /\ AmountPerClaim(b) * n <= MaxUint

\* Bug: the balance is not looked at, nor what the batch has left.
AmountToSendMutant(b, n) == AmountPerClaim(b) * n
AmountToSend(b, n) == MinOf(AmountPerClaim(b) * n, MinOf(Remaining(b), liquid))

\* Bug: the time since the last release is dropped.
ClaimedMutant(b, n) ==
  IF AmountToSend(b, n) = 0 THEN b
  ELSE [b EXCEPT !.amountClaimed = @ + AmountToSend(b, n),
                 !.lastClaimedReleaseTime = now]

\* The batch after a claim of n releases: all n are counted, even when the
\* balance did not suffice for them, unless nothing at all was paid.
Claimed(b, n) ==
  IF AmountToSend(b, n) = 0 THEN b
  ELSE [b EXCEPT !.amountClaimed = @ + AmountToSend(b, n),
                 !.lastClaimedReleaseTime = @ + n * b.releaseUnit]

IsShort(b, n) ==
  /\ AmountToSend(b, n) > 0
  /\ AmountToSend(b, n) < MinOf(AmountPerClaim(b) * n, Remaining(b))

\* The index lists unfinished batches by (lockup_end, id); those past their
\* lockup are claimable, even when they have no release to pay.
Claimable ==
  {i \in DOMAIN batches : Remaining(batches[i]) > 0 /\ batches[i].lockupEnd <= now}

Before(i, j) ==
  \/ batches[i].lockupEnd < batches[j].lockupEnd
  \/ batches[i].lockupEnd = batches[j].lockupEnd /\ i < j

\* get_claimable_batches_with_ids
Page(limit) == {i \in Claimable : Cardinality({j \in Claimable : Before(j, i)}) < limit}
-----------------------------------------------------------------------------
Init ==
  /\ now = 0
  /\ nextId = 1
  /\ batches = [i \in {} |-> 0]
  /\ liquid = 0
  /\ delegated = [v \in Validators |-> 0]
  /\ unbonding = 0
  /\ slashed = 0
  /\ paid = 0
  /\ short = {}

Tick ==
  /\ now < MaxTime
  /\ now' = now + 1
  /\ UNCHANGED <<nextId, batches, liquid, staking, paid, short>>

NewBatch(amount, duration, unit, release) ==
  [amount |-> amount, amountClaimed |-> 0, lockupEnd |-> now + duration,
   releaseUnit |-> unit, releaseAmount |-> release,
   lastClaimedReleaseTime |-> now + duration]

SaveNewBatch(b) ==
  /\ nextId = 1 \/ IsMultiBatchEnabled
  /\ nextId <= MaxBatches
  /\ batches' = [i \in 1 .. nextId |-> IF i = nextId THEN b ELSE batches[i]]
  /\ nextId' = nextId + 1

\* The message comes with the coins, which are in the balance already.
CreateBatch(sender, amount, duration, unit, release) ==
  /\ sender \in {Owner} \cup Operators
  /\ amount > 0 /\ unit > 0 /\ release.value > 0
  /\ SaveNewBatch(NewBatch(amount, duration, unit, release))
  /\ liquid' = liquid + amount
  /\ UNCHANGED <<now, staking, paid, short>>

\* Naming a validator runs execute_delegate too, which only the owner may.
CreateBatchAndDelegate(sender, amount, duration, unit, release, v) ==
  /\ sender = Owner
  /\ amount > 0 /\ unit > 0 /\ release.value > 0
  /\ SaveNewBatch(NewBatch(amount, duration, unit, release))
  /\ delegated' = [delegated EXCEPT ![v] = @ + amount]
  /\ UNCHANGED <<now, liquid, unbonding, slashed, paid, short>>

\* execute_claim by the owner.  The number of claims in the message is capped
\* by the releases available; none stands for all of them.
Claim(i, n) ==
  LET b == batches[i]  send == AmountToSend(b, n)
  IN  /\ b.lockupEnd <= now
      /\ n <= AvailableClaims(b, now)
      /\ ClaimSucceeds(b, n)
      /\ 0 < send /\ send <= liquid
      /\ batches' = [batches EXCEPT ![i] = Claimed(b, n)]
      /\ liquid' = liquid - send
      /\ paid' = paid + send
      /\ short' = IF IsShort(b, n) THEN short \cup {i} ELSE short
      /\ UNCHANGED <<now, nextId, staking>>

\* What claim_all sends for batch i: every batch of the page is measured
\* against the whole balance, which is only debited at the end.
Share(i, page, upTo) ==
  IF i \in page THEN AmountToSend(batches[i], AvailableClaims(batches[i], upTo)) ELSE 0

TotalToSend(page, upTo) ==
  SumFunctionOnSet([i \in DOMAIN batches |-> Share(i, page, upTo)], DOMAIN batches)

\* up_to_time - last_claimed_release_time panics on underflow.
ClaimAllSucceeds(page, upTo) ==
  /\ \A i \in page : /\ batches[i].lastClaimedReleaseTime <= upTo
                     /\ ClaimSucceeds(batches[i], AvailableClaims(batches[i], upTo))
  /\ TotalToSend(page, upTo) <= liquid

\* Bug: the batches are not saved back.
ClaimAllMutant(limit, upTo) ==
  LET page == Page(limit)
  IN  /\ ClaimAllSucceeds(page, upTo)
      /\ liquid' = liquid - TotalToSend(page, upTo)
      /\ paid' = paid + TotalToSend(page, upTo)
      /\ UNCHANGED <<now, nextId, batches, staking, short>>

\* execute_claim_all by the owner, up to min(current_time, up_to_time).
ClaimAll(limit, upTo) ==
  LET page == Page(limit)
  IN  /\ ClaimAllSucceeds(page, upTo)
      /\ batches' = [i \in DOMAIN batches |->
                       IF i \in page
                       THEN Claimed(batches[i], AvailableClaims(batches[i], upTo))
                       ELSE batches[i]]
      /\ liquid' = liquid - TotalToSend(page, upTo)
      /\ paid' = paid + TotalToSend(page, upTo)
      /\ short' = short \cup
           {i \in page : IsShort(batches[i], AvailableClaims(batches[i], upTo))}
      /\ UNCHANGED <<now, nextId, staking>>
-----------------------------------------------------------------------------
(* Staking, by the owner.  A message's amount is capped by what there is, so *)
(* any nonzero part of it may move.  Rewards go to the owner: every message  *)
(* sets the withdraw address first.                                          *)

Delegate(v, amount) ==
  /\ 0 < amount /\ amount <= liquid
  /\ liquid' = liquid - amount
  /\ delegated' = [delegated EXCEPT ![v] = @ + amount]
  /\ UNCHANGED <<now, nextId, batches, unbonding, slashed, paid, short>>

Redelegate(v, w, amount) ==
  /\ v # w
  /\ 0 < amount /\ amount <= delegated[v]
  /\ delegated' = [delegated EXCEPT ![v] = @ - amount, ![w] = @ + amount]
  /\ UNCHANGED <<now, nextId, batches, liquid, unbonding, slashed, paid, short>>

Undelegate(v, amount) ==
  /\ 0 < amount /\ amount <= delegated[v]
  /\ delegated' = [delegated EXCEPT ![v] = @ - amount]
  /\ unbonding' = unbonding + amount
  /\ UNCHANGED <<now, nextId, batches, liquid, slashed, paid, short>>

\* The staking module: an unbonding matures, or a validator is slashed.
Unbond(amount) ==
  /\ 0 < amount /\ amount <= unbonding
  /\ unbonding' = unbonding - amount
  /\ liquid' = liquid + amount
  /\ UNCHANGED <<now, nextId, batches, delegated, slashed, paid, short>>

Slash(v) ==
  /\ delegated[v] > 0 /\ slashed < MaxSlashed
  /\ delegated' = [delegated EXCEPT ![v] = @ - 1]
  /\ slashed' = slashed + 1
  /\ UNCHANGED <<now, nextId, batches, liquid, unbonding, paid, short>>

Next ==
  \/ Tick
  \/ \E amount \in Amounts, duration \in LockupDurations, unit \in ReleaseUnits,
        release \in ReleaseAmounts :
       \/ \E sender \in {Owner} \cup Operators :
            CreateBatch(sender, amount, duration, unit, release)
       \/ \E v \in Validators :
            CreateBatchAndDelegate(Owner, amount, duration, unit, release, v)
  \/ \E i \in DOMAIN batches : \E n \in 0 .. now : Claim(i, n)
  \/ \E limit \in Limits, upTo \in 0 .. now : ClaimAll(limit, upTo)
  \/ \E v \in Validators :
       \/ \E amount \in 1 .. liquid : Delegate(v, amount)
       \/ \E amount \in 1 .. delegated[v] :
            \/ Undelegate(v, amount)
            \/ \E w \in Validators : Redelegate(v, w, amount)
       \/ Slash(v)
  \/ \E amount \in 1 .. unbonding : Unbond(amount)

Spec == Init /\ [][Next]_vars

\* The owner keeps claiming everything that is due, and time passes.
FairSpec ==
  /\ Spec
  /\ WF_vars(Tick)
  /\ \A limit \in Limits : WF_vars(ClaimAll(limit, now))
-----------------------------------------------------------------------------
\* Every amount stays in range, so that neither amount - amount_claimed nor
\* current_time - last_claimed_release_time underflows.
TypeOK ==
  /\ now \in Nat
  /\ nextId \in Nat \ {0}
  /\ batches \in [1 .. nextId - 1 -> Batch]
  /\ liquid \in Nat /\ unbonding \in Nat /\ slashed \in Nat /\ paid \in Nat
  /\ delegated \in [Validators -> Nat]
  /\ short \subseteq 1 .. nextId - 1

\* Releases counted by the claims on b so far.
Counted(b) == (b.lastClaimedReleaseTime - b.lockupEnd) \div b.releaseUnit

WithinSchedule(b) ==
  /\ b.amountClaimed <= b.amount
  /\ b.lastClaimedReleaseTime >= b.lockupEnd
  /\ b.lastClaimedReleaseTime = b.lockupEnd + Counted(b) * b.releaseUnit
  /\ b.lastClaimedReleaseTime <= now \/ b.lastClaimedReleaseTime = b.lockupEnd
  /\ b.amountClaimed <= AmountPerClaim(b) * Counted(b)

ExactlyScheduled(b) ==
  b.amountClaimed = MinOf(b.amount, AmountPerClaim(b) * Counted(b))

\* No batch is ahead of its schedule, whatever mix of claims was made: what
\* has been claimed is paid for by whole releases that are over.
NeverAhead == \A i \in DOMAIN batches : WithinSchedule(batches[i])

\* A batch no claim ever left short has been paid exactly its schedule.
OnSchedule == \A i \in DOMAIN batches \ short : ExactlyScheduled(batches[i])

TotalRemaining ==
  SumFunctionOnSet([i \in DOMAIN batches |-> Remaining(batches[i])], DOMAIN batches)

\* What the batches have left is in the contract, staked, unbonding or lost to
\* slashing: no claim takes coins without counting them against a batch.
Backed ==
  liquid + SumFunctionOnSet(delegated, Validators) + unbonding + slashed = TotalRemaining

\* Until its lockup is over a batch does not change, and its terms never do.
LockedUntouched ==
  [][\A i \in DOMAIN batches :
       /\ batches'[i].amount = batches[i].amount
       /\ batches'[i].lockupEnd = batches[i].lockupEnd
       /\ now < batches[i].lockupEnd => batches'[i] = batches[i]]_vars

\* Paid out in full by time t, if claims are made.
CompleteBy(b, t) ==
  b.amount <= AmountPerClaim(b) * ((t - b.lockupEnd) \div b.releaseUnit)

NothingStaked == liquid = TotalRemaining

\* If nothing is ever staked, and no batch has a rate that every claim refuses,
\* claiming everything from time to time pays every batch in full, whatever
\* other claims are made in between.
PaidInFull ==
  [](NothingStaked /\ \A i \in DOMAIN batches : RateOK(batches[i])) =>
    \A i \in 1 .. MaxBatches :
      (i \in DOMAIN batches /\ CompleteBy(batches[i], MaxTime))
        ~> (i \in DOMAIN batches /\ Remaining(batches[i]) = 0)
=============================================================================

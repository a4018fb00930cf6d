--------------------------- MODULE VestingProofs ----------------------------
(***************************************************************************)
(* Proofs about Vesting, for any batches, schedules, staking and times.    *)
(***************************************************************************)
EXTENDS Vesting, Sums, TLAPS

USE VestingAssumption

\* A batch within its schedule, and on it exactly unless a claim was short.
Good(i) == /\ WithinSchedule(batches[i])
           /\ i \notin short => ExactlyScheduled(batches[i])

IInv == TypeOK /\ NeverAhead /\ OnSchedule

LEMMA PerClaimNat ==
  ASSUME NEW b \in Batch
  PROVE  AmountPerClaim(b) \in Nat
<1>1. b.amount \in Nat /\ b.releaseAmount.value \in Nat
  BY DEF Batch
<1>2. b.amount * b.releaseAmount.value \in Nat
  BY <1>1, SMT
<1>3. (b.amount * b.releaseAmount.value) \div DecimalOne \in Nat
  BY <1>2, DivFacts
<1> QED BY <1>1, <1>3 DEF AmountPerClaim, MinOf

\* The releases counted, as a number.
LEMMA CountedNat ==
  ASSUME NEW b \in Batch, b.lastClaimedReleaseTime >= b.lockupEnd
  PROVE  Counted(b) \in Nat
BY DivFacts DEF Counted, Batch

\* The releases available up to t are over by t.
LEMMA AvailableBounds ==
  ASSUME NEW b \in Batch, NEW t \in Nat, b.lastClaimedReleaseTime <= t
  PROVE  /\ AvailableClaims(b, t) \in Nat
         /\ b.lastClaimedReleaseTime + AvailableClaims(b, t) * b.releaseUnit <= t
<1> DEFINE u == b.releaseUnit  d == t - b.lastClaimedReleaseTime
           q == d \div u
<1>1. u \in Nat /\ u > 0 /\ d \in Nat /\ b.lastClaimedReleaseTime \in Nat
  BY DEF Batch
<1>2. q \in Nat /\ u * q <= d
  <2> HIDE DEF u, d
  <2> QED BY <1>1, DivFacts
<1>3. q * u = u * q
  BY <1>1, <1>2, SMT DEF q
<1> QED BY <1>1, <1>2, <1>3 DEF AvailableClaims

LEMMA AmountToSendBounds ==
  ASSUME NEW b \in Batch, NEW n \in Nat, b.amountClaimed <= b.amount, liquid \in Nat
  PROVE  /\ AmountToSend(b, n) \in Nat
         /\ AmountToSend(b, n) <= Remaining(b) /\ AmountToSend(b, n) <= liquid
         /\ AmountToSend(b, n) <= AmountPerClaim(b) * n
         /\ Remaining(b) \in Nat
<1>1. AmountPerClaim(b) * n \in Nat
  BY PerClaimNat, SMT
<1>2. b.amount \in Nat /\ b.amountClaimed \in Nat
  BY DEF Batch
<1> QED BY <1>1, <1>2 DEF AmountToSend, Remaining, MinOf

\* What claiming n releases does to a batch: the heart of the schedule.
LEMMA ClaimedBatch ==
  ASSUME NEW b \in Batch, NEW n \in Nat, liquid \in Nat, now \in Nat,
         WithinSchedule(b), b.lastClaimedReleaseTime <= now,
         b.lastClaimedReleaseTime + n * b.releaseUnit <= now
  PROVE  /\ Claimed(b, n) \in Batch
         /\ WithinSchedule(Claimed(b, n))
         /\ Remaining(Claimed(b, n)) = Remaining(b) - AmountToSend(b, n)
         /\ Claimed(b, n).amount = b.amount /\ Claimed(b, n).lockupEnd = b.lockupEnd
         /\ ExactlyScheduled(b) /\ ~IsShort(b, n) => ExactlyScheduled(Claimed(b, n))
<1> DEFINE s == AmountToSend(b, n)  c == Claimed(b, n)
           k == Counted(b)  p == AmountPerClaim(b)  u == b.releaseUnit
<1>1. /\ b.amount \in 0 .. MaxUint /\ b.amountClaimed \in 0 .. MaxUint
      /\ b.lockupEnd \in Nat /\ u \in Nat /\ u > 0 /\ b.lastClaimedReleaseTime \in Nat
  BY DEF Batch
<1>2. /\ k \in Nat /\ p \in Nat
      /\ b.amountClaimed <= b.amount /\ b.amountClaimed <= p * k
      /\ b.lastClaimedReleaseTime = b.lockupEnd + k * u
  BY CountedNat, PerClaimNat DEF WithinSchedule
<1>3. s \in Nat /\ s <= Remaining(b) /\ s <= p * n
  BY <1>2, AmountToSendBounds
<1>4. CASE s = 0
  <2>1. c = b
    BY <1>4 DEF Claimed
  <2>2. ASSUME ExactlyScheduled(b) PROVE ExactlyScheduled(c)
    BY <2>1, <2>2
  <2>3. Remaining(b) \in Int
    BY <1>1 DEF Remaining
  <2> QED BY <1>4, <2>1, <2>2, <2>3
<1>5. CASE s > 0
  <2>1. c = [b EXCEPT !.amountClaimed = @ + s, !.lastClaimedReleaseTime = @ + n * u]
    BY <1>5 DEF Claimed
  <2>2. n * u \in Nat /\ (k + n) * u = k * u + n * u /\ p * (k + n) = p * k + p * n
        /\ p * k \in Nat /\ p * n \in Nat
    <3> HIDE DEF k, p, u
    <3> QED BY <1>1, <1>2, SMT
  <2>3. /\ c.amount = b.amount /\ c.lockupEnd = b.lockupEnd /\ c.releaseUnit = u
        /\ c.releaseAmount = b.releaseAmount
        /\ c.amountClaimed = b.amountClaimed + s
        /\ c.lastClaimedReleaseTime = b.lastClaimedReleaseTime + n * u
    <3> HIDE DEF s
    <3> QED BY <2>1 DEF Batch
  <2>4. c \in Batch
    <3>1. b.amountClaimed + s \in 0 .. MaxUint /\ b.lastClaimedReleaseTime + n * u \in Nat
      <4> HIDE DEF s, u
      <4> QED BY <1>1, <1>2, <1>3, <2>2 DEF Remaining
    <3> HIDE DEF s, u
    <3> QED BY <2>1, <3>1 DEF Batch
  <2>5. Counted(c) = k + n
    <3>1. c.lastClaimedReleaseTime - c.lockupEnd = (k + n) * u
      <4> HIDE DEF s, u, k, c
      <4> QED BY <1>1, <1>2, <2>2, <2>3
    <3>2. ((k + n) * u) \div u = k + n
      <4> HIDE DEF k, u
      <4> QED BY <1>1, <1>2, DivExact
    <3> HIDE DEF s, u, k, c
    <3> QED BY <2>3, <3>1, <3>2 DEF Counted
  <2>6. AmountPerClaim(c) = p
    <3> HIDE DEF c
    <3> QED BY <2>3 DEF AmountPerClaim
  <2>7. Remaining(c) = Remaining(b) - s
    <3> HIDE DEF c, s
    <3> QED BY <1>1, <1>3, <2>3 DEF Remaining
  <2>8. WithinSchedule(c)
    <3> HIDE DEF c, s, p, k, u
    <3> QED BY <1>1, <1>2, <1>3, <2>2, <2>3, <2>5, <2>6 DEF WithinSchedule, Remaining, u
  <2>9. ASSUME ExactlyScheduled(b), ~IsShort(b, n) PROVE ExactlyScheduled(c)
    <3>1. b.amountClaimed = MinOf(b.amount, p * k)
      BY <2>9 DEF ExactlyScheduled
    <3>2. s >= MinOf(p * n, Remaining(b))
      <4> HIDE DEF s, p
      <4>1. Remaining(b) \in Int
        BY <1>1 DEF Remaining
      <4> QED BY <1>3, <1>5, <2>2, <2>9, <4>1 DEF IsShort, MinOf, s, p
    <3> HIDE DEF c, s, p, k, u
    <3> QED BY <1>1, <1>2, <1>3, <2>2, <2>3, <2>5, <2>6, <3>1, <3>2
            DEF ExactlyScheduled, MinOf, Remaining
  <2> QED BY <2>3, <2>4, <2>7, <2>8, <2>9
<1> QED BY <1>3, <1>4, <1>5
-----------------------------------------------------------------------------
LEMMA InitIInv == Init => IInv
<1> SUFFICES ASSUME Init PROVE IInv
  OBVIOUS
<1>1. batches \in [1 .. nextId - 1 -> Batch] /\ DOMAIN batches = {}
  BY DEF Init
<1>2. TypeOK
  BY <1>1 DEF Init, TypeOK
<1> QED BY <1>1, <1>2 DEF IInv, NeverAhead, OnSchedule

\* The parts of the invariant that a step leaving batches alone keeps.
LEMMA BatchesKept ==
  ASSUME IInv, UNCHANGED <<batches, nextId, short>>, now' \in Nat, now' >= now
  PROVE  /\ NeverAhead' /\ OnSchedule'
         /\ batches' \in [1 .. nextId' - 1 -> Batch] /\ short' \subseteq 1 .. nextId' - 1
<1>1. \A i \in DOMAIN batches : WithinSchedule(batches[i]) => WithinSchedule(batches[i])'
  <2> SUFFICES ASSUME NEW i \in DOMAIN batches, WithinSchedule(batches[i])
               PROVE  WithinSchedule(batches[i])'
    OBVIOUS
  <2>1. /\ batches[i].lastClaimedReleaseTime \in Nat /\ now \in Nat
        /\ batches'[i] = batches[i]
    BY DEF IInv, TypeOK, Batch
  <2>2. /\ AmountPerClaim(batches[i])' = AmountPerClaim(batches[i])
        /\ Counted(batches[i])' = Counted(batches[i])
    BY <2>1 DEF AmountPerClaim, Counted, MinOf
  <2> QED BY <2>1, <2>2 DEF WithinSchedule
<1>2. \A i \in DOMAIN batches : ExactlyScheduled(batches[i]) => ExactlyScheduled(batches[i])'
  BY DEF ExactlyScheduled, AmountPerClaim, Counted, MinOf
<1> QED BY <1>1, <1>2 DEF IInv, TypeOK, NeverAhead, OnSchedule

\* A new batch has claimed nothing and counted nothing.
LEMMA NewBatchGood ==
  ASSUME NEW b \in Batch, b.amountClaimed = 0, b.lastClaimedReleaseTime = b.lockupEnd
  PROVE  WithinSchedule(b) /\ ExactlyScheduled(b) /\ Counted(b) = 0
<1>1. b.amount \in Nat /\ b.releaseUnit \in Nat \ {0} /\ AmountPerClaim(b) \in Nat
      /\ b.lockupEnd \in Nat
  BY PerClaimNat DEF Batch
<1>2. b.lastClaimedReleaseTime - b.lockupEnd = 0 * b.releaseUnit
  BY <1>1
<1>3. Counted(b) = 0
  BY <1>1, <1>2, DivExact DEF Counted
<1>4. AmountPerClaim(b) * 0 = 0 /\ 0 * b.releaseUnit = 0
  BY <1>1
<1> QED BY <1>1, <1>3, <1>4 DEF WithinSchedule, ExactlyScheduled, MinOf

\* Saving a new batch keeps the schedules of the others.
LEMMA SaveKeeps ==
  ASSUME IInv, NEW b \in Batch, b.amountClaimed = 0, b.lastClaimedReleaseTime = b.lockupEnd,
         SaveNewBatch(b), UNCHANGED <<now, short>>
  PROVE  /\ NeverAhead' /\ OnSchedule' /\ nextId' \in Nat \ {0}
         /\ batches' \in [1 .. nextId' - 1 -> Batch] /\ short' \subseteq 1 .. nextId' - 1
<1>1. /\ nextId \in Nat \ {0} /\ nextId' = nextId + 1
      /\ DOMAIN batches = 1 .. nextId - 1 /\ DOMAIN batches' = 1 .. nextId
      /\ batches'[nextId] = b
      /\ \A i \in 1 .. nextId - 1 : batches'[i] = batches[i] /\ batches[i] \in Batch
  BY DEF IInv, TypeOK, SaveNewBatch
<1>2. batches' \in [1 .. nextId' - 1 -> Batch] /\ short' \subseteq 1 .. nextId' - 1
  BY <1>1 DEF SaveNewBatch, IInv, TypeOK
<1>3. ASSUME NEW i \in DOMAIN batches'
      PROVE  WithinSchedule(batches[i])' /\ (i \notin short' => ExactlyScheduled(batches[i])')
  <2>1. CASE i = nextId
    <3>1. WithinSchedule(b) /\ ExactlyScheduled(b)
      BY NewBatchGood
    <3> QED BY <2>1, <3>1, <1>1 DEF WithinSchedule, ExactlyScheduled, AmountPerClaim, Counted, MinOf
  <2>2. CASE i \in 1 .. nextId - 1
    <3>1. WithinSchedule(batches[i]) /\ (i \notin short => ExactlyScheduled(batches[i]))
      BY <1>1, <2>2 DEF IInv, NeverAhead, OnSchedule
    <3> QED BY <2>2, <3>1, <1>1 DEF WithinSchedule, ExactlyScheduled, AmountPerClaim, Counted, MinOf
  <2> QED BY <1>1, <2>1, <2>2
<1> QED BY <1>1, <1>2, <1>3 DEF NeverAhead, OnSchedule

\* Every stored batch, with what the clock says about it.
LEMMA BatchFacts ==
  ASSUME IInv, NEW i \in DOMAIN batches
  PROVE  /\ batches[i] \in Batch /\ i \in 1 .. nextId - 1 /\ WithinSchedule(batches[i])
         /\ i \notin short => ExactlyScheduled(batches[i])
         /\ batches[i].lockupEnd <= now => batches[i].lastClaimedReleaseTime <= now
BY DEF IInv, TypeOK, NeverAhead, OnSchedule, WithinSchedule

\* A claim of one batch, or of a page of them: those claimed get their releases
\* counted, the others are as they were.
LEMMA ClaimKeeps ==
  ASSUME IInv, NEW page, NEW n, page \subseteq DOMAIN batches,
         \A i \in page : /\ n[i] \in Nat /\ batches[i].lockupEnd <= now
                         /\ batches[i].lastClaimedReleaseTime
                              + n[i] * batches[i].releaseUnit <= now,
         DOMAIN batches' = DOMAIN batches,
         batches' \in [DOMAIN batches -> {batches'[i] : i \in DOMAIN batches}],
         \A i \in page : batches'[i] = Claimed(batches[i], n[i]),
         \A i \in DOMAIN batches \ page : batches'[i] = batches[i],
         short' = short \cup {i \in page : IsShort(batches[i], n[i])},
         UNCHANGED <<now, nextId>>
  PROVE  /\ NeverAhead' /\ OnSchedule'
         /\ batches' \in [1 .. nextId' - 1 -> Batch] /\ short' \subseteq 1 .. nextId' - 1
<1>1. ASSUME NEW i \in DOMAIN batches
      PROVE  /\ batches'[i] \in Batch
             /\ WithinSchedule(batches'[i])
             /\ i \notin short' => ExactlyScheduled(batches'[i])
  <2>1. CASE i \in page
    <3>1. /\ Claimed(batches[i], n[i]) \in Batch
          /\ WithinSchedule(Claimed(batches[i], n[i]))
          /\ ExactlyScheduled(batches[i]) /\ ~IsShort(batches[i], n[i])
               => ExactlyScheduled(Claimed(batches[i], n[i]))
      <4>1. liquid \in Nat /\ now \in Nat
        BY DEF IInv, TypeOK
      <4> QED BY <2>1, <4>1, BatchFacts, ClaimedBatch
    <3> QED BY <2>1, <3>1, BatchFacts
  <2>2. CASE i \notin page
    BY <2>2, BatchFacts
  <2> QED BY <2>1, <2>2
<1>2. \A i \in DOMAIN batches : /\ WithinSchedule(batches'[i]) => WithinSchedule(batches[i])'
                                /\ ExactlyScheduled(batches'[i]) => ExactlyScheduled(batches[i])'
  BY DEF WithinSchedule, ExactlyScheduled, AmountPerClaim, Counted, MinOf
<1>3. DOMAIN batches = 1 .. nextId' - 1 /\ short \subseteq 1 .. nextId - 1
  BY DEF IInv, TypeOK
<1> QED BY <1>1, <1>2, <1>3 DEF NeverAhead, OnSchedule

-----------------------------------------------------------------------------
\* The batches claim_all looks at are past their lockup, and so are the
\* releases it counts for them.
LEMMA PageFacts ==
  ASSUME IInv, NEW limit, NEW upTo \in 0 .. now, ClaimAllSucceeds(Page(limit), upTo)
  PROVE  /\ Page(limit) \subseteq DOMAIN batches
         /\ \A i \in Page(limit) :
              LET n == AvailableClaims(batches[i], upTo)
              IN  /\ n \in Nat /\ batches[i].lockupEnd <= now
                  /\ batches[i].lastClaimedReleaseTime + n * batches[i].releaseUnit <= now
<1>1. Page(limit) \subseteq Claimable
  BY DEF Page
<1>2. \A i \in Claimable : i \in DOMAIN batches /\ batches[i].lockupEnd <= now
  BY DEF Claimable
<1>3. now \in Nat
  BY DEF IInv, TypeOK
<1>4. ASSUME NEW i \in Page(limit)
      PROVE  /\ AvailableClaims(batches[i], upTo) \in Nat
             /\ batches[i].lastClaimedReleaseTime
                  + AvailableClaims(batches[i], upTo) * batches[i].releaseUnit <= now
  <2>1. batches[i] \in Batch
    BY <1>1, <1>2, BatchFacts
  <2>2. batches[i].lastClaimedReleaseTime <= upTo
    BY DEF ClaimAllSucceeds
  <2>3. /\ AvailableClaims(batches[i], upTo) \in Nat
        /\ batches[i].lastClaimedReleaseTime
             + AvailableClaims(batches[i], upTo) * batches[i].releaseUnit <= upTo
    BY <1>3, <2>1, <2>2, AvailableBounds
  <2>4. /\ batches[i].lastClaimedReleaseTime
             + AvailableClaims(batches[i], upTo) * batches[i].releaseUnit \in Int
    <3>1. batches[i].releaseUnit \in Nat /\ batches[i].lastClaimedReleaseTime \in Nat
      BY <2>1 DEF Batch
    <3> QED BY <2>3, <3>1, SMT
  <2> QED BY <1>3, <2>3, <2>4
<1> QED BY <1>1, <1>2, <1>4

\* The shares of a claim_all, and their sum.
LEMMA ShareFacts ==
  ASSUME IInv, NEW limit, NEW upTo \in 0 .. now, ClaimAllSucceeds(Page(limit), upTo)
  PROVE  /\ \A i \in DOMAIN batches :
              /\ Share(i, Page(limit), upTo) \in Nat
              /\ Share(i, Page(limit), upTo) <= Remaining(batches[i])
              /\ Remaining(batches[i]) \in Nat
         /\ TotalToSend(Page(limit), upTo) \in Nat
         /\ TotalToSend(Page(limit), upTo) <= liquid
<1>1. ASSUME NEW i \in DOMAIN batches
      PROVE  /\ Share(i, Page(limit), upTo) \in Nat
             /\ Share(i, Page(limit), upTo) <= Remaining(batches[i])
             /\ Remaining(batches[i]) \in Nat
  <2>1. batches[i] \in Batch /\ batches[i].amountClaimed <= batches[i].amount
    BY BatchFacts DEF WithinSchedule
  <2>2. liquid \in Nat
    BY DEF IInv, TypeOK
  <2>3. Remaining(batches[i]) \in Nat
    BY <2>1 DEF Remaining, Batch
  <2>4. CASE i \in Page(limit)
    BY <2>1, <2>2, <2>4, PageFacts, AmountToSendBounds DEF Share
  <2> QED BY <2>3, <2>4 DEF Share
<1>2. IsFiniteSet(DOMAIN batches)
  BY FS_Interval DEF IInv, TypeOK
<1>3. TotalToSend(Page(limit), upTo) \in Nat
  BY <1>1, <1>2, SumNat DEF TotalToSend
<1> QED BY <1>1, <1>3 DEF ClaimAllSucceeds

LEMMA StepIInv == IInv /\ [Next]_vars => IInv'
<1> SUFFICES ASSUME IInv, [Next]_vars PROVE IInv'
  OBVIOUS
<1>1. CASE Tick
  <2>1. /\ NeverAhead' /\ OnSchedule'
        /\ batches' \in [1 .. nextId' - 1 -> Batch] /\ short' \subseteq 1 .. nextId' - 1
    BY <1>1, BatchesKept DEF Tick, IInv, TypeOK
  <2> QED BY <1>1, <2>1 DEF Tick, staking, IInv, TypeOK
<1>2. ASSUME NEW amount \in Amounts, NEW duration \in LockupDurations,
             NEW unit \in ReleaseUnits, NEW release \in ReleaseAmounts,
             \/ \E sender \in {Owner} \cup Operators :
                  CreateBatch(sender, amount, duration, unit, release)
             \/ \E v \in Validators :
                  CreateBatchAndDelegate(Owner, amount, duration, unit, release, v)
      PROVE  IInv'
  <2> DEFINE b == NewBatch(amount, duration, unit, release)
  <2>1. b \in Batch /\ b.amountClaimed = 0 /\ b.lastClaimedReleaseTime = b.lockupEnd
    BY <1>2 DEF CreateBatch, CreateBatchAndDelegate, NewBatch, Batch, IInv, TypeOK
  <2>2. SaveNewBatch(b) /\ UNCHANGED <<now, short, paid, slashed, unbonding>>
    BY <1>2 DEF CreateBatch, CreateBatchAndDelegate, staking
  <2>3. liquid' \in Nat /\ delegated' \in [Validators -> Nat]
    BY <1>2, SMTT(30) DEF CreateBatch, CreateBatchAndDelegate, staking, IInv, TypeOK
  <2> HIDE DEF b
  <2>4. /\ NeverAhead' /\ OnSchedule' /\ nextId' \in Nat \ {0}
        /\ batches' \in [1 .. nextId' - 1 -> Batch] /\ short' \subseteq 1 .. nextId' - 1
    BY <2>1, <2>2, SaveKeeps
  <2> QED BY <2>2, <2>3, <2>4 DEF IInv, TypeOK
<1>3. ASSUME NEW i \in DOMAIN batches, NEW n \in 0 .. now, Claim(i, n) PROVE IInv'
  <2> DEFINE b == batches[i]  nn == [j \in {i} |-> n]
  <2>1. /\ b \in Batch /\ b.lockupEnd <= now /\ b.lastClaimedReleaseTime <= now
        /\ b.amountClaimed <= b.amount /\ n \in Nat /\ now \in Nat /\ liquid \in Nat
    BY <1>3, BatchFacts DEF Claim, WithinSchedule, IInv, TypeOK
  <2>2. b.lastClaimedReleaseTime + n * b.releaseUnit <= now
    <3>1. /\ AvailableClaims(b, now) \in Nat
          /\ b.lastClaimedReleaseTime + AvailableClaims(b, now) * b.releaseUnit <= now
      BY <2>1, AvailableBounds
    <3>2. n <= AvailableClaims(b, now)
      BY <1>3 DEF Claim
    <3>3. b.releaseUnit \in Nat /\ b.lastClaimedReleaseTime \in Nat
      BY <2>1 DEF Batch
    <3> DEFINE a == AvailableClaims(b, now)  u == b.releaseUnit
    <3>4. n * u <= a * u /\ n * u \in Nat /\ a * u \in Nat
      <4>1. a \in Nat /\ n \in Nat /\ n <= a /\ u \in Nat
        BY <2>1, <3>1, <3>2, <3>3
      <4> HIDE DEF a, u
      <4> QED BY <4>1, SMT
    <3> QED BY <2>1, <3>1, <3>3, <3>4
  <2>3. /\ AmountToSend(b, n) \in Nat /\ AmountToSend(b, n) <= liquid
    BY <2>1, AmountToSendBounds
  <2>4. /\ NeverAhead' /\ OnSchedule'
        /\ batches' \in [1 .. nextId' - 1 -> Batch] /\ short' \subseteq 1 .. nextId' - 1
    <3>1. short' = short \cup {j \in {i} : IsShort(batches[j], nn[j])}
      BY <1>3 DEF Claim
    <3>2. /\ batches' = [batches EXCEPT ![i] = Claimed(b, n)]
          /\ UNCHANGED <<now, nextId>>
      BY <1>3 DEF Claim
    <3>3. batches \in [DOMAIN batches -> Batch]
      BY DEF IInv, TypeOK
    <3> QED BY <2>1, <2>2, <3>1, <3>2, <3>3, ClaimKeeps, SMTT(30)
  <2> QED BY <1>3, <2>3, <2>4 DEF Claim, staking, IInv, TypeOK
<1>4. ASSUME NEW limit \in Limits, NEW upTo \in 0 .. now, ClaimAll(limit, upTo) PROVE IInv'
  <2> DEFINE page == Page(limit)
             n == [i \in page |-> AvailableClaims(batches[i], upTo)]
  <2>1. ClaimAllSucceeds(page, upTo)
    BY <1>4 DEF ClaimAll
  <2>2. /\ page \subseteq DOMAIN batches
        /\ \A i \in page : /\ n[i] \in Nat /\ batches[i].lockupEnd <= now
                           /\ batches[i].lastClaimedReleaseTime
                                + n[i] * batches[i].releaseUnit <= now
    BY <2>1, PageFacts
  <2>3. /\ batches' = [i \in DOMAIN batches |->
                        IF i \in page THEN Claimed(batches[i], n[i]) ELSE batches[i]]
        /\ short' = short \cup {i \in page : IsShort(batches[i], n[i])}
        /\ UNCHANGED <<now, nextId>>
    BY <1>4 DEF ClaimAll
  <2>4. TotalToSend(page, upTo) \in Nat /\ TotalToSend(page, upTo) <= liquid
    BY <2>1, ShareFacts
  <2>5. /\ NeverAhead' /\ OnSchedule'
        /\ batches' \in [1 .. nextId' - 1 -> Batch] /\ short' \subseteq 1 .. nextId' - 1
    <3> HIDE DEF page, n
    <3> QED BY <2>2, <2>3, ClaimKeeps
  <2> QED BY <1>4, <2>4, <2>5 DEF ClaimAll, staking, IInv, TypeOK
<1>5. ASSUME NEW v \in Validators,
             \/ \E amount \in 1 .. liquid : Delegate(v, amount)
             \/ \E amount \in 1 .. delegated[v] :
                  \/ Undelegate(v, amount)
                  \/ \E w \in Validators : Redelegate(v, w, amount)
             \/ Slash(v)
      PROVE  IInv'
  <2>1. UNCHANGED <<now, nextId, batches, short>>
    BY <1>5 DEF Delegate, Undelegate, Redelegate, Slash
  <2>2. delegated \in [Validators -> Nat] /\ liquid \in Nat /\ unbonding \in Nat
        /\ slashed \in Nat /\ paid \in Nat /\ now \in Nat
    BY DEF IInv, TypeOK
  <2>3. delegated' \in [Validators -> Nat]
    BY <1>5, <2>2 DEF Delegate, Undelegate, Redelegate, Slash
  <2>4. liquid' \in Nat /\ unbonding' \in Nat /\ slashed' \in Nat /\ paid' \in Nat
    BY <1>5, <2>2 DEF Delegate, Undelegate, Redelegate, Slash
  <2>5. /\ NeverAhead' /\ OnSchedule'
        /\ batches' \in [1 .. nextId' - 1 -> Batch] /\ short' \subseteq 1 .. nextId' - 1
    BY <2>1, <2>2, BatchesKept
  <2> QED BY <2>1, <2>2, <2>3, <2>4, <2>5 DEF IInv, TypeOK
<1>6. CASE UNCHANGED vars
  <2>1. /\ NeverAhead' /\ OnSchedule'
        /\ batches' \in [1 .. nextId' - 1 -> Batch] /\ short' \subseteq 1 .. nextId' - 1
    BY <1>6, BatchesKept DEF vars, IInv, TypeOK
  <2> QED BY <1>6, <2>1 DEF vars, IInv, TypeOK
<1>7. ASSUME NEW amount \in 1 .. unbonding, Unbond(amount) PROVE IInv'
  <2>1. UNCHANGED <<now, nextId, batches, short, delegated, slashed, paid>>
    BY <1>7 DEF Unbond
  <2>2. liquid' \in Nat /\ unbonding' \in Nat
    BY <1>7 DEF Unbond, IInv, TypeOK
  <2>3. /\ NeverAhead' /\ OnSchedule'
        /\ batches' \in [1 .. nextId' - 1 -> Batch] /\ short' \subseteq 1 .. nextId' - 1
    BY <2>1, BatchesKept DEF IInv, TypeOK
  <2> QED BY <2>1, <2>2, <2>3 DEF IInv, TypeOK
<1> QED BY <1>1, <1>2, <1>3, <1>4, <1>5, <1>6, <1>7 DEF Next

LEMMA Invariant == Spec => []IInv
BY InitIInv, StepIInv, PTL DEF Spec

\* Every amount and time stays in range: none of the subtractions of
\* claim_batch and none of the index underflows, and amounts fit a Uint128.
THEOREM TypeCorrect == Spec => []TypeOK
BY Invariant, PTL DEF IInv

\* No claim of one batch or of a page, in any order and with the contract's
\* balance as it may be, pays a batch a release that is not over.
THEOREM NotAhead == Spec => []NeverAhead
BY Invariant, PTL DEF IInv

\* Unless a claim found the balance short, a batch has been paid exactly the
\* releases counted for it, up to its amount.
THEOREM Scheduled == Spec => []OnSchedule
BY Invariant, PTL DEF IInv
-----------------------------------------------------------------------------
(* The coins behind the batches.                                            *)

LEMMA FiniteBatches ==
  ASSUME IInv PROVE IsFiniteSet(DOMAIN batches)
BY FS_Interval DEF IInv, TypeOK

\* What is left of the batches, when they do not change.
LEMMA RemainingKept ==
  ASSUME IInv, UNCHANGED batches
  PROVE  TotalRemaining' = TotalRemaining
BY DEF TotalRemaining, Remaining

LEMMA RemainingInt ==
  ASSUME IInv
  PROVE  \A i \in DOMAIN batches : Remaining(batches[i]) \in Int
<1> TAKE i \in DOMAIN batches
<1>1. batches[i] \in Batch
  BY DEF IInv, TypeOK
<1>2. batches[i].amount \in Int /\ batches[i].amountClaimed \in Int
  BY <1>1 DEF Batch
<1> QED BY <1>2 DEF Remaining

\* A new batch adds its amount.
LEMMA RemainingAdded ==
  ASSUME IInv, NEW b \in Batch, b.amountClaimed = 0, SaveNewBatch(b)
  PROVE  TotalRemaining' = TotalRemaining + b.amount
<1> DEFINE f == [i \in DOMAIN batches |-> Remaining(batches[i])]
           g == [i \in DOMAIN batches' |-> Remaining(batches'[i])]
<1>1. /\ DOMAIN batches = 1 .. nextId - 1 /\ nextId \in Nat \ {0}
      /\ DOMAIN batches' = DOMAIN batches \cup {nextId} /\ nextId \notin DOMAIN batches
      /\ batches'[nextId] = b /\ \A i \in DOMAIN batches : batches'[i] = batches[i]
  BY DEF IInv, TypeOK, SaveNewBatch
<1>2. g[nextId] = b.amount /\ b.amount \in Int
  BY <1>1 DEF Remaining, Batch
<1>3. \A i \in DOMAIN batches : f[i] \in Int /\ g[i] = f[i]
  BY <1>1, RemainingInt
<1>4. TotalRemaining = SumFunctionOnSet(f, DOMAIN batches)
      /\ TotalRemaining' = SumFunctionOnSet(g, DOMAIN batches \cup {nextId})
  BY <1>1 DEF TotalRemaining, Remaining
<1> DEFINE S == DOMAIN batches
<1>5. /\ IsFiniteSet(S) /\ nextId \notin S /\ g[nextId] \in Int
      /\ \A i \in S : f[i] \in Int /\ g[i] = f[i]
  BY <1>1, <1>2, <1>3, FiniteBatches
<1> HIDE DEF f, g, S
<1>6. SumFunctionOnSet(g, S \cup {nextId}) = SumFunctionOnSet(f, S) + g[nextId]
  BY <1>5, SumAdd
<1> QED BY <1>2, <1>4, <1>6 DEF S

LEMMA DelegatedInt ==
  ASSUME IInv
  PROVE  /\ \A v \in Validators : delegated[v] \in Int
         /\ SumFunctionOnSet(delegated, Validators) \in Int
BY SumSplit DEF IInv, TypeOK

\* Changing one delegation.
LEMMA DelegatedChange ==
  ASSUME IInv, IInv', NEW v \in Validators, \A w \in Validators \ {v} : delegated'[w] = delegated[w]
  PROVE  SumFunctionOnSet(delegated, Validators)'
           = SumFunctionOnSet(delegated, Validators) - delegated[v] + delegated'[v]
<1>1. \A w \in Validators : delegated[w] \in Int /\ delegated'[w] \in Int
  BY DEF IInv, TypeOK
<1> QED BY <1>1, SumChange

LEMMA StepBacked == IInv /\ IInv' /\ Backed /\ [Next]_vars => Backed'
<1> SUFFICES ASSUME IInv, IInv', Backed, [Next]_vars PROVE Backed'
  OBVIOUS
<1> DEFINE D == SumFunctionOnSet(delegated, Validators)
<1>nums. /\ liquid \in Nat /\ unbonding \in Nat /\ slashed \in Nat
         /\ delegated \in [Validators -> Nat] /\ D \in Int /\ TotalRemaining \in Int
  BY DelegatedInt, SumSplit, RemainingInt, FiniteBatches DEF IInv, TypeOK, TotalRemaining
<1>1. CASE Tick \/ UNCHANGED vars
  <2>1. UNCHANGED <<batches, liquid, delegated, unbonding, slashed>>
    BY <1>1 DEF Tick, vars, staking
  <2> QED BY <2>1, RemainingKept DEF Backed
<1>2. ASSUME NEW amount \in Amounts, NEW duration \in LockupDurations,
             NEW unit \in ReleaseUnits, NEW release \in ReleaseAmounts,
             \/ \E sender \in {Owner} \cup Operators :
                  CreateBatch(sender, amount, duration, unit, release)
             \/ \E v \in Validators :
                  CreateBatchAndDelegate(Owner, amount, duration, unit, release, v)
      PROVE  Backed'
  <2> DEFINE b == NewBatch(amount, duration, unit, release)
  <2>1. b \in Batch /\ b.amountClaimed = 0 /\ b.amount = amount /\ amount \in Nat
    BY <1>2, SMTT(30) DEF CreateBatch, CreateBatchAndDelegate, NewBatch, Batch, IInv, TypeOK
  <2>2. SaveNewBatch(b)
    BY <1>2 DEF CreateBatch, CreateBatchAndDelegate
  <2>3. liquid' + D' + unbonding' + slashed' = liquid + D + unbonding + slashed + amount
    <3>1. CASE \E sender \in {Owner} \cup Operators :
                 CreateBatch(sender, amount, duration, unit, release)
      BY <1>nums, <2>1, <3>1 DEF CreateBatch, staking
    <3>2. ASSUME NEW v \in Validators,
                 CreateBatchAndDelegate(Owner, amount, duration, unit, release, v)
          PROVE  liquid' + D' + unbonding' + slashed' = liquid + D + unbonding + slashed + amount
      <4>1. /\ delegated' = [delegated EXCEPT ![v] = @ + amount]
            /\ UNCHANGED <<liquid, unbonding, slashed>>
        BY <3>2 DEF CreateBatchAndDelegate
      <4>2. D' = D - delegated[v] + delegated'[v]
        <5>1. \A w \in Validators \ {v} : delegated'[w] = delegated[w]
          BY <4>1, <1>nums
        <5> QED BY <5>1, DelegatedChange
      <4> HIDE DEF D
      <4> QED BY <1>nums, <2>1, <4>1, <4>2
    <3> QED BY <1>2, <3>1, <3>2
  <2> HIDE DEF b
  <2>4. TotalRemaining' = TotalRemaining + amount
    BY <2>1, <2>2, RemainingAdded
  <2> QED BY <1>nums, <2>1, <2>3, <2>4 DEF Backed
<1>3. ASSUME NEW i \in DOMAIN batches, NEW n \in 0 .. now, Claim(i, n) PROVE Backed'
  <2> DEFINE s == AmountToSend(batches[i], n)
             f == [j \in DOMAIN batches |-> Remaining(batches[j])]
             g == [j \in DOMAIN batches |-> Remaining(batches'[j])]
  <2>1. s \in Nat /\ s > 0 /\ liquid' = liquid - s
    <3>1. batches[i] \in Batch /\ batches[i].amountClaimed <= batches[i].amount /\ n \in Nat
      BY BatchFacts DEF WithinSchedule, IInv, TypeOK
    <3> QED BY <1>3, <1>nums, <3>1, AmountToSendBounds DEF Claim
  <2>2. /\ batches' = [batches EXCEPT ![i] = Claimed(batches[i], n)]
        /\ UNCHANGED <<delegated, unbonding, slashed>>
    BY <1>3 DEF Claim, staking
  <2>3. Claimed(batches[i], n)
          = [batches[i] EXCEPT !.amountClaimed = @ + s,
                               !.lastClaimedReleaseTime = @ + n * batches[i].releaseUnit]
    BY <2>1 DEF Claimed
  <2>4. batches[i] \in Batch /\ DOMAIN batches' = DOMAIN batches
    BY <2>2, BatchFacts
  <2> HIDE DEF s
  <2>5. g[i] = f[i] - s /\ \A j \in DOMAIN batches \ {i} : g[j] = f[j]
    <3>1. batches'[i].amount = batches[i].amount
          /\ batches'[i].amountClaimed = batches[i].amountClaimed + s
      BY <2>2, <2>3, <2>4 DEF Batch
    <3> QED BY <2>1, <2>2, <2>4, <3>1 DEF Remaining, Batch
  <2>6. \A j \in DOMAIN batches : f[j] \in Int /\ g[j] \in Int
    BY <2>1, <2>5, RemainingInt
  <2>7. TotalRemaining = SumFunctionOnSet(f, DOMAIN batches)
        /\ TotalRemaining' = SumFunctionOnSet(g, DOMAIN batches)
    BY <2>4 DEF TotalRemaining, Remaining
  <2> HIDE DEF f, g
  <2>8. TotalRemaining' = TotalRemaining - f[i] + g[i]
    BY <2>5, <2>6, <2>7, FiniteBatches, SumChange
  <2> QED BY <1>nums, <2>1, <2>2, <2>5, <2>6, <2>8 DEF Backed
<1>4. ASSUME NEW limit \in Limits, NEW upTo \in 0 .. now, ClaimAll(limit, upTo) PROVE Backed'
  <2> DEFINE page == Page(limit)
             n(i) == AvailableClaims(batches[i], upTo)
             f == [i \in DOMAIN batches |-> Remaining(batches[i])]
             g == [i \in DOMAIN batches |-> Share(i, page, upTo)]
             h == [i \in DOMAIN batches |-> Remaining(batches'[i])]
  <2>1. /\ ClaimAllSucceeds(page, upTo)
        /\ batches' = [i \in DOMAIN batches |->
                          IF i \in page THEN Claimed(batches[i], n(i)) ELSE batches[i]]
        /\ liquid' = liquid - TotalToSend(page, upTo)
        /\ UNCHANGED <<delegated, unbonding, slashed>>
    BY <1>4 DEF ClaimAll, staking
  <2>2. ASSUME NEW i \in DOMAIN batches
        PROVE  f[i] \in Int /\ g[i] \in Int /\ h[i] = f[i] - g[i]
    <3>1. f[i] \in Int /\ g[i] \in Int
      BY <2>1, ShareFacts
    <3>2. CASE i \in page
      <4>1. Remaining(Claimed(batches[i], n(i))) = Remaining(batches[i]) - AmountToSend(batches[i], n(i))
        <5>1. /\ n(i) \in Nat /\ batches[i].lockupEnd <= now
              /\ batches[i].lastClaimedReleaseTime + n(i) * batches[i].releaseUnit <= now
          BY <2>1, <3>2, PageFacts
        <5>2. now \in Nat
          BY DEF IInv, TypeOK
        <5> QED BY <5>1, <5>2, <1>nums, BatchFacts, ClaimedBatch
      <4>2. g[i] = AmountToSend(batches[i], n(i))
        <5> HIDE DEF page
        <5> QED BY <3>2 DEF Share
      <4>3. batches'[i] = Claimed(batches[i], n(i))
        <5> HIDE DEF page, n
        <5> QED BY <2>1, <3>2
      <4> HIDE DEF g, n
      <4> QED BY <3>1, <4>1, <4>2, <4>3
    <3>3. CASE i \notin page
      BY <2>1, <3>1, <3>3 DEF Share
    <3> QED BY <3>1, <3>2, <3>3
  <2>3. /\ TotalRemaining = SumFunctionOnSet(f, DOMAIN batches)
        /\ TotalToSend(page, upTo) = SumFunctionOnSet(g, DOMAIN batches)
        /\ TotalRemaining' = SumFunctionOnSet(h, DOMAIN batches)
    BY <2>1 DEF TotalRemaining, TotalToSend, Remaining
  <2>4. TotalToSend(page, upTo) \in Nat
    BY <2>1, ShareFacts
  <2> HIDE DEF f, g, h, page
  <2>5. TotalRemaining' = TotalRemaining - TotalToSend(page, upTo)
    BY <2>2, <2>3, FiniteBatches, SumDifference
  <2> QED BY <1>nums, <2>1, <2>4, <2>5 DEF Backed
<1>5. ASSUME NEW v \in Validators,
             \/ \E amount \in 1 .. liquid : Delegate(v, amount)
             \/ \E amount \in 1 .. delegated[v] : Undelegate(v, amount)
             \/ Slash(v)
      PROVE  Backed'
  <2>1. UNCHANGED batches /\ \A w \in Validators \ {v} : delegated'[w] = delegated[w]
    BY <1>5, <1>nums DEF Delegate, Undelegate, Slash
  <2>2. D' = D - delegated[v] + delegated'[v]
    BY <2>1, DelegatedChange
  <2>3. liquid' + delegated'[v] + unbonding' + slashed'
          = liquid + delegated[v] + unbonding + slashed
        /\ liquid' \in Int /\ delegated'[v] \in Int /\ unbonding' \in Int /\ slashed' \in Int
    BY <1>5, <1>nums DEF Delegate, Undelegate, Slash
  <2>4. delegated[v] \in Int
    BY <1>nums
  <2> HIDE DEF D
  <2>5. liquid' + D' + unbonding' + slashed' = liquid + D + unbonding + slashed
    BY <1>nums, <2>2, <2>3, <2>4
  <2> QED BY <2>1, <2>5, RemainingKept DEF Backed, D
<1>6. ASSUME NEW v \in Validators, NEW w \in Validators,
             NEW amount \in 1 .. delegated[v], Redelegate(v, w, amount)
      PROVE  Backed'
  <2> DEFINE m == [delegated EXCEPT ![v] = @ - amount]
  <2>1. /\ UNCHANGED <<batches, liquid, unbonding, slashed>> /\ v # w
        /\ delegated' = [delegated EXCEPT ![v] = @ - amount, ![w] = @ + amount]
        /\ amount \in Int
    BY <1>6, <1>nums DEF Redelegate
  <2>2. /\ m \in [Validators -> Int]
        /\ m[v] = delegated[v] - amount /\ m[w] = delegated[w]
        /\ delegated'[v] = m[v] /\ delegated'[w] = m[w] + amount
        /\ \A x \in Validators : delegated'[x] \in Int /\ delegated[x] \in Int /\ m[x] \in Int
        /\ \A x \in Validators \ {v} : m[x] = delegated[x]
        /\ \A x \in Validators \ {w} : delegated'[x] = m[x]
    BY <1>nums, <2>1
  <2> HIDE DEF m, D
  <2>3. SumFunctionOnSet(m, Validators) = SumFunctionOnSet(delegated, Validators) - delegated[v] + m[v]
    BY <2>2, SumChange
  <2>4. SumFunctionOnSet(delegated', Validators) = SumFunctionOnSet(m, Validators) - m[w] + delegated'[w]
    BY <2>2, SumChange
  <2>5. SumFunctionOnSet(delegated', Validators) = SumFunctionOnSet(delegated, Validators)
    BY <1>nums, <2>1, <2>2, <2>3, <2>4 DEF D
  <2> QED BY <2>1, <2>5, RemainingKept DEF Backed
<1>7. ASSUME NEW amount \in 1 .. unbonding, Unbond(amount) PROVE Backed'
  <2>1. UNCHANGED <<batches, delegated, slashed>>
        /\ unbonding' = unbonding - amount /\ liquid' = liquid + amount
    BY <1>7 DEF Unbond
  <2> QED BY <1>nums, <2>1, RemainingKept DEF Backed
<1> QED BY <1>1, <1>2, <1>3, <1>4, <1>5, <1>6, <1>7 DEF Next

LEMMA InitBacked == Init => Backed
<1> SUFFICES ASSUME Init PROVE Backed
  OBVIOUS
<1>1. DOMAIN batches = {} /\ TotalRemaining = 0
  BY SumEmpty DEF Init, TotalRemaining
<1>2. SumFunctionOnSet(delegated, Validators) = 0
  BY SumZero DEF Init
<1> QED BY <1>1, <1>2 DEF Init, Backed

\* Through any claims, delegations, unbondings and slashings, the coins held,
\* staked, unbonding and lost are exactly what the batches have left.
THEOREM AlwaysBacked == Spec => []Backed
<1>1. Init => Backed
  BY InitBacked
<1>2. IInv /\ IInv' /\ Backed /\ [Next]_vars => Backed'
  BY StepBacked
<1> QED BY <1>1, <1>2, Invariant, PTL DEF Spec

\* A batch under lockup is not touched by any step, and no step changes the
\* amount or the lockup of any batch.
THEOREM LockedStay == Spec => LockedUntouched
<1> DEFINE Untouched(i) == /\ batches'[i].amount = batches[i].amount
                           /\ batches'[i].lockupEnd = batches[i].lockupEnd
                           /\ now < batches[i].lockupEnd => batches'[i] = batches[i]
<1>1. IInv /\ [Next]_vars => [\A i \in DOMAIN batches : Untouched(i)]_vars
  <2> SUFFICES ASSUME IInv, Next, NEW i \in DOMAIN batches PROVE Untouched(i)
    OBVIOUS
  <2>1. ASSUME batches'[i] = batches[i] PROVE Untouched(i)
    BY <2>1
  <2>2. ASSUME NEW n, batches'[i] = Claimed(batches[i], n), batches[i].lockupEnd <= now
        PROVE  Untouched(i)
    <3>1. batches[i] \in Batch /\ now \in Nat
      BY BatchFacts DEF IInv, TypeOK
    <3>2. /\ Claimed(batches[i], n).amount = batches[i].amount
          /\ Claimed(batches[i], n).lockupEnd = batches[i].lockupEnd
      BY <3>1 DEF Claimed, Batch
    <3>3. ~(now < batches[i].lockupEnd)
      BY <2>2, <3>1 DEF Batch
    <3> QED BY <2>2, <3>2, <3>3
  <2>3. ASSUME NEW b, SaveNewBatch(b) PROVE Untouched(i)
    <3>1. batches'[i] = batches[i]
      BY <2>3 DEF SaveNewBatch, IInv, TypeOK
    <3> QED BY <2>1, <3>1
  <2> HIDE DEF Untouched
  <2>4. ASSUME NEW amount \in Amounts, NEW duration \in LockupDurations,
               NEW unit \in ReleaseUnits, NEW release \in ReleaseAmounts,
               \/ \E sender \in {Owner} \cup Operators :
                    CreateBatch(sender, amount, duration, unit, release)
               \/ \E v \in Validators :
                    CreateBatchAndDelegate(Owner, amount, duration, unit, release, v)
        PROVE  Untouched(i)
    BY <2>3, <2>4 DEF CreateBatch, CreateBatchAndDelegate
  <2>5. ASSUME NEW j \in DOMAIN batches, NEW n \in 0 .. now, Claim(j, n)
        PROVE  Untouched(i)
    <3>1. /\ batches' = [batches EXCEPT ![j] = Claimed(batches[j], n)]
          /\ batches[j].lockupEnd <= now
      BY <2>5 DEF Claim
    <3>2. \/ batches'[i] = batches[i]
          \/ batches'[i] = Claimed(batches[i], n) /\ batches[i].lockupEnd <= now
      BY <3>1 DEF IInv, TypeOK
    <3> QED BY <3>2, <2>1, <2>2
  <2>6. ASSUME NEW limit \in Limits, NEW upTo \in 0 .. now, ClaimAll(limit, upTo)
        PROVE  Untouched(i)
    <3>1. ClaimAllSucceeds(Page(limit), upTo)
      BY <2>6 DEF ClaimAll
    <3>2. \/ batches'[i] = batches[i]
          \/ /\ i \in Page(limit)
             /\ batches'[i] = Claimed(batches[i], AvailableClaims(batches[i], upTo))
      BY <2>6 DEF ClaimAll
    <3> QED BY <2>1, <2>2, <3>1, <3>2, PageFacts
  <2>7. ASSUME UNCHANGED batches PROVE Untouched(i)
    BY <2>1, <2>7
  <2> QED BY <2>4, <2>5, <2>6, <2>7
          DEF Next, Tick, Delegate, Undelegate, Redelegate, Slash, Unbond
<1> QED BY <1>1, Invariant, PTL DEF Spec, LockedUntouched
=============================================================================

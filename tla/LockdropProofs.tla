-------------------------- MODULE LockdropProofs ----------------------------
(***************************************************************************)
(* Proofs about Lockdrop, for any set of users, windows and amounts.       *)
(***************************************************************************)
EXTENDS Lockdrop, Sums, TLAPS

USE LockdropAssumption DEF Never

-----------------------------------------------------------------------------
(* The share of a position that may be withdrawn.                           *)

LEMMA PercentBounds ==
  ASSUME NEW t \in Nat
  PROVE  /\ AllowedWithdrawalPercent(t) \in 0 .. DecimalOne
         /\ t >= DepositEnd => 2 * AllowedWithdrawalPercent(t) <= DecimalOne
<1> DEFINE second == DepositEnd + (WithdrawalWindow \div 2)
           left == PhaseEnd - t
           half == PhaseEnd - second
<1>1. DepositEnd \in Nat /\ second \in Nat /\ PhaseEnd \in Nat /\ second < PhaseEnd
  BY DivFacts DEF DepositEnd, PhaseEnd
<1>2. CASE t < DepositEnd
  BY <1>1, <1>2 DEF AllowedWithdrawalPercent
<1>3. CASE t >= DepositEnd /\ t <= second
  BY <1>1, <1>3 DEF AllowedWithdrawalPercent
<1>4. CASE t >= PhaseEnd
  BY <1>1, <1>4 DEF AllowedWithdrawalPercent
<1>5. CASE second < t /\ t < PhaseEnd
  <2> DEFINE q == (50 * left * DecimalOne) \div (100 * half)
  <2>1. left \in Nat /\ half \in Nat /\ 0 < left /\ left <= half
    BY <1>1, <1>5
  <2>2. AllowedWithdrawalPercent(t) = q
    BY <1>1, <1>5 DEF AllowedWithdrawalPercent
  <2> HIDE DEF left, half
  <2>3. PICK h \in Nat : DecimalOne = 2 * h
    BY SMT
  <2>4. left * DecimalOne <= half * DecimalOne
    BY <2>1, SMT
  <2>5. 50 * left * DecimalOne \in Nat /\ 100 * half \in Nat /\ 100 * half > 0
    BY <2>1, SMT
  <2>6. 50 * left * DecimalOne <= (100 * half) * h
    BY <2>1, <2>3, <2>4, SMT
  <2>7. q \in Nat /\ q <= h
    BY <2>5, <2>6, <2>3, DivFacts, DivBound
  <2> HIDE DEF q
  <2>8. t >= DepositEnd
    BY <1>1, <1>5
  <2> QED BY <2>2, <2>3, <2>7
<1> QED BY <1>1, <1>2, <1>3, <1>4, <1>5

\* What may be withdrawn is part of the position, and at most half of it once
\* the deposit window is over.
LEMMA MaxWithdrawalBounds ==
  ASSUME now \in Nat, locked \in [Users -> Nat], NEW u \in Users
  PROVE  /\ MaxWithdrawal(u) \in Nat
         /\ MaxWithdrawal(u) <= locked[u]
         /\ now >= DepositEnd => 2 * MaxWithdrawal(u) <= locked[u]
<1> DEFINE p == AllowedWithdrawalPercent(now)
           q == (locked[u] * p) \div DecimalOne
<1>1. p \in Nat /\ p <= DecimalOne /\ (now >= DepositEnd => 2 * p <= DecimalOne)
  BY PercentBounds
<1> HIDE DEF p
<1>2. locked[u] \in Nat /\ locked[u] * p \in Nat
  BY <1>1
<1>3. q \in Nat /\ DecimalOne * q <= locked[u] * p
  BY <1>2, DivFacts
<1>4. locked[u] * p <= DecimalOne * locked[u]
  BY <1>1, <1>2, SMT
<1>5. q <= locked[u]
  BY <1>2, <1>4, DivBound
<1>6. ASSUME now >= DepositEnd PROVE 2 * q <= locked[u]
  <2> HIDE DEF q
  <2>1. locked[u] * (2 * p) <= locked[u] * DecimalOne
    BY <1>1, <1>2, <1>6, SMT
  <2>2. DecimalOne * (2 * q) <= DecimalOne * locked[u]
    BY <1>1, <1>2, <1>3, <2>1, SMT
  <2> QED BY <1>2, <1>3, <2>2, SMT
<1> QED BY <1>3, <1>5, <1>6 DEF MaxWithdrawal, p
-----------------------------------------------------------------------------
(* The inductive invariant.  Bookkeeping says what the flags and the clock   *)
(* imply about the money: nothing is paid to the owner before the phase ends *)
(* and no incentive leaves before claims are enabled.  Flags says that until *)
(* a user has used the one late withdrawal, the position is the one the      *)
(* deposit window closed with.                                               *)

Bookkeeping ==
  /\ now <= PhaseEnd => proceeds = 0
  /\ claimsEnabledAt <= now
  /\ ~areClaimsAllowed => /\ claimsEnabledAt = Never
                          /\ incentiveHeld = lockdropIncentives
                          /\ \A u \in Users : ~lockdropClaimed[u]

Flags ==
  \A u \in Users :
    /\ now <= DepositEnd => ~withdrawalFlag[u]
    /\ now > DepositEnd /\ ~withdrawalFlag[u] => locked[u] = lockedAtClose[u]

IInv ==
  /\ TypeOK
  /\ TotalMatchesUsers
  /\ NativeCovered
  /\ Bookkeeping
  /\ Flags
  /\ HalfStaysLocked
  /\ IncentivesCovered

LEMMA Times ==
  /\ DepositEnd \in Nat /\ PhaseEnd \in Nat
  /\ InitTimestamp < DepositEnd /\ DepositEnd < PhaseEnd
BY DEF DepositEnd, PhaseEnd

LEMMA InitIInv == Init => IInv
<1> SUFFICES ASSUME Init PROVE IInv
  OBVIOUS
<1>1. TypeOK
  <2>1. /\ locked \in [Users -> Nat] /\ lockedAtClose \in [Users -> Nat]
        /\ lockdropClaimed \in [Users -> BOOLEAN] /\ withdrawalFlag \in [Users -> BOOLEAN]
    BY DEF Init
  <2>2. now \in Nat /\ lockdropIncentives \in 0 .. MaxAmount /\ totalNativeLocked \in 0 .. MaxAmount
    BY DEF Init
  <2>3. claimsEnabledAt \in Nat \cup {Never} /\ areClaimsAllowed \in BOOLEAN
    BY DEF Init
  <2>4. nativeHeld \in Nat /\ incentiveHeld \in Nat /\ proceeds \in Nat
    BY DEF Init
  <2> QED BY <2>1, <2>2, <2>3, <2>4 DEF TypeOK
<1>2. TotalMatchesUsers
  BY SumZero DEF Init, TotalMatchesUsers
<1>3. NativeCovered /\ Bookkeeping
  BY DEF Init, NativeCovered, Bookkeeping
<1>4. Flags /\ HalfStaysLocked /\ IncentivesCovered
  BY Times DEF Init, Flags, HalfStaysLocked, IncentivesCovered
<1> QED BY <1>1, <1>2, <1>3, <1>4 DEF IInv

\* A position is part of the total.
LEMMA PositionInTotal ==
  ASSUME TypeOK, TotalMatchesUsers, NEW u \in Users
  PROVE  locked[u] <= totalNativeLocked
BY SumNat DEF TypeOK, TotalMatchesUsers

\* A reward is a natural, so the claim's transfer is well formed.
LEMMA RewardNat ==
  ASSUME TypeOK, TotalMatchesUsers, NEW u \in Users, locked[u] > 0
  PROVE  Reward(u) \in Nat
<1>1. locked[u] \in Nat /\ totalNativeLocked \in Nat /\ lockdropIncentives \in Nat
  BY DEF TypeOK
<1>2. totalNativeLocked > 0
  BY <1>1, PositionInTotal
<1>3. lockdropIncentives * locked[u] \in Nat
  BY <1>1, SMT
<1> QED BY <1>1, <1>2, <1>3, DivFacts DEF Reward

\* The ledger: types, the total, and the coins in the contract.
LEMMA LedgerStep ==
  ASSUME IInv, [Next]_vars
  PROVE  TypeOK' /\ TotalMatchesUsers' /\ NativeCovered' /\ (now <= PhaseEnd => proceeds = 0)'
<1> USE DEF IInv
<1>t. now \in Nat /\ locked \in [Users -> Nat] /\ totalNativeLocked \in Nat /\ proceeds \in Nat
  BY DEF TypeOK
<1>1. CASE Tick
  BY <1>1, Times DEF Tick, TypeOK, TotalMatchesUsers, NativeCovered, Bookkeeping
<1>2. ASSUME NEW amount \in IncentiveAmounts, IncreaseIncentives(amount)
      PROVE  TypeOK' /\ TotalMatchesUsers' /\ NativeCovered' /\ (now <= PhaseEnd => proceeds = 0)'
  BY <1>2 DEF IncreaseIncentives, history, TypeOK, TotalMatchesUsers, NativeCovered, Bookkeeping, PhaseEnd, DepositEnd
<1>3. CASE EnableClaims
  BY <1>3 DEF EnableClaims, TypeOK, TotalMatchesUsers, NativeCovered, Bookkeeping, PhaseEnd, DepositEnd
<1>4. ASSUME NEW u \in Users, NEW amount \in DepositAmounts, DepositNative(u, amount)
      PROVE  TypeOK' /\ TotalMatchesUsers' /\ NativeCovered' /\ (now <= PhaseEnd => proceeds = 0)'
  <2>1. amount \in Nat /\ now <= PhaseEnd /\ proceeds = 0
    BY <1>4, Times, <1>t DEF DepositNative, IsDepositOpen, Bookkeeping
  <2>2. SumFunctionOnSet(locked', Users) = SumFunctionOnSet(locked, Users) + amount
    <3>1. \A x \in Users : locked[x] \in Int /\ locked'[x] \in Int
      BY <1>4, <2>1, <1>t DEF DepositNative
    <3>2. /\ locked'[u] = locked[u] + amount
          /\ \A x \in Users \ {u} : locked'[x] = locked[x]
      BY <1>4, <1>t DEF DepositNative
    <3>3. SumFunctionOnSet(locked', Users) = SumFunctionOnSet(locked, Users) - locked[u] + locked'[u]
      BY <3>1, <3>2, SumChange
    <3>4. SumFunctionOnSet(locked, Users) \in Nat /\ locked[u] \in Nat
      BY <1>t, SumNat
    <3> QED BY <3>2, <3>3, <3>4, <2>1
  <2>3. TotalMatchesUsers'
    BY <2>2, <1>4 DEF DepositNative, TotalMatchesUsers
  <2>4. TypeOK'
    BY <1>4, <2>1 DEF DepositNative, TypeOK, history
  <2>5. NativeCovered' /\ (now <= PhaseEnd => proceeds = 0)'
    BY <1>4, <2>1, <1>t DEF DepositNative, NativeCovered, TypeOK, history
  <2> QED BY <2>3, <2>4, <2>5
<1>5. ASSUME NEW u \in Users, NEW amount \in 1 .. MaxAmount, WithdrawNative(u, amount)
      PROVE  TypeOK' /\ TotalMatchesUsers' /\ NativeCovered' /\ (now <= PhaseEnd => proceeds = 0)'
  <2>1. amount \in Nat /\ now <= PhaseEnd /\ proceeds = 0
    BY <1>5, <1>t DEF WithdrawNative, IsWithdrawOpen, Bookkeeping
  <2>2. amount <= locked[u]
    BY <1>5, <1>t, <2>1, MaxWithdrawalBounds DEF WithdrawNative
  <2>3. amount <= totalNativeLocked
    BY <2>1, <2>2, <1>t, PositionInTotal
  <2>4. SumFunctionOnSet(locked', Users) = SumFunctionOnSet(locked, Users) - amount
    <3>1. \A x \in Users : locked[x] \in Int /\ locked'[x] \in Int
      BY <1>5, <2>1, <1>t DEF WithdrawNative
    <3>2. /\ locked'[u] = locked[u] - amount
          /\ \A x \in Users \ {u} : locked'[x] = locked[x]
      BY <1>5, <1>t DEF WithdrawNative
    <3>3. SumFunctionOnSet(locked', Users) = SumFunctionOnSet(locked, Users) - locked[u] + locked'[u]
      BY <3>1, <3>2, SumChange
    <3>4. SumFunctionOnSet(locked, Users) \in Nat /\ locked[u] \in Nat
      BY <1>t, SumNat
    <3> QED BY <3>2, <3>3, <3>4, <2>1
  <2>5. TotalMatchesUsers'
    BY <2>4, <1>5 DEF WithdrawNative, TotalMatchesUsers
  <2>6. TypeOK'
    BY <1>5, <2>1, <2>2, <2>3, <1>t DEF WithdrawNative, TypeOK, history
  <2>7. NativeCovered' /\ (now <= PhaseEnd => proceeds = 0)'
    BY <1>5, <2>1, <1>t DEF WithdrawNative, NativeCovered, TypeOK, history
  <2> QED BY <2>5, <2>6, <2>7
<1>6. ASSUME NEW u \in Users, ClaimRewards(u)
      PROVE  TypeOK' /\ TotalMatchesUsers' /\ NativeCovered' /\ (now <= PhaseEnd => proceeds = 0)'
  <2>1. Reward(u) \in Nat
    BY <1>6, RewardNat DEF ClaimRewards
  <2>2. TypeOK'
    BY <1>6, <2>1 DEF ClaimRewards, TypeOK, history
  <2> QED BY <1>6, <2>2 DEF ClaimRewards, TotalMatchesUsers, NativeCovered, Bookkeeping, history, PhaseEnd, DepositEnd
<1>7. ASSUME NEW u \in Users, WithdrawProceeds(u)
      PROVE  TypeOK' /\ TotalMatchesUsers' /\ NativeCovered' /\ (now <= PhaseEnd => proceeds = 0)'
  <2>1. now > PhaseEnd
    BY <1>7, <1>t, Times DEF WithdrawProceeds, IsWithdrawOpen
  <2>2. proceeds = 0 /\ nativeHeld = totalNativeLocked
    BY <1>7, <1>t DEF WithdrawProceeds, NativeCovered, TypeOK
  <2>3. TypeOK'
    BY <1>7, <1>t DEF WithdrawProceeds, TypeOK
  <2> QED BY <1>7, <2>1, <2>2, <2>3, <1>t, Times DEF WithdrawProceeds, TotalMatchesUsers, NativeCovered
<1>8. CASE UNCHANGED vars
  BY <1>8 DEF vars, TypeOK, TotalMatchesUsers, NativeCovered, Bookkeeping
<1> QED BY <1>1, <1>2, <1>3, <1>4, <1>5, <1>6, <1>7, <1>8 DEF Next

\* The late withdrawal: at most one, of at most half.
LEMMA FlagsStep ==
  ASSUME IInv, [Next]_vars
  PROVE  Flags' /\ HalfStaysLocked'
<1> USE DEF IInv
<1>t. /\ now \in Nat /\ locked \in [Users -> Nat] /\ lockedAtClose \in [Users -> Nat]
      /\ withdrawalFlag \in [Users -> BOOLEAN]
  BY DEF TypeOK
<1>e. DepositEnd \in Nat /\ PhaseEnd \in Nat /\ DepositEnd' = DepositEnd
  BY Times DEF DepositEnd
<1>1. CASE Tick
  <2>1. PICK t \in (now + 1) .. MaxTime :
          /\ now' = t
          /\ lockedAtClose' = IF now <= DepositEnd /\ t > DepositEnd THEN locked ELSE lockedAtClose
          /\ locked' = locked /\ withdrawalFlag' = withdrawalFlag
    BY <1>1 DEF Tick
  <2>2. t \in Nat /\ t > now
    BY <2>1, <1>t
  <2>3. CASE now <= DepositEnd /\ t > DepositEnd
    BY <2>1, <2>2, <2>3, <1>t, <1>e DEF Flags, HalfStaysLocked
  <2>4. CASE now > DepositEnd
    BY <2>1, <2>2, <2>4, <1>t, <1>e DEF Flags, HalfStaysLocked
  <2>5. CASE t <= DepositEnd
    BY <2>1, <2>2, <2>5, <1>t, <1>e DEF Flags, HalfStaysLocked
  <2> QED BY <2>2, <2>3, <2>4, <2>5, <1>t, <1>e
<1>2. ASSUME NEW u \in Users, NEW amount \in DepositAmounts, DepositNative(u, amount)
      PROVE  Flags' /\ HalfStaysLocked'
  <2>1. now <= DepositEnd /\ now' = now /\ withdrawalFlag' = withdrawalFlag
    BY <1>2 DEF DepositNative, IsDepositOpen, history
  <2> QED BY <2>1, <1>t, <1>e DEF Flags, HalfStaysLocked
<1>3. ASSUME NEW u \in Users, NEW amount \in 1 .. MaxAmount, WithdrawNative(u, amount)
      PROVE  Flags' /\ HalfStaysLocked'
  <2>1. /\ now' = now /\ lockedAtClose' = lockedAtClose
        /\ withdrawalFlag' = [withdrawalFlag EXCEPT ![u] = @ \/ now > DepositEnd]
        /\ locked' = [locked EXCEPT ![u] = @ - amount]
        /\ amount \in Nat /\ amount <= MaxWithdrawal(u)
        /\ now > DepositEnd => ~withdrawalFlag[u]
    BY <1>3 DEF WithdrawNative, history
  <2>2. CASE now <= DepositEnd
    <3>1. \A v \in Users : ~withdrawalFlag'[v]
      BY <2>1, <2>2, <1>t, <1>e DEF Flags
    <3> QED BY <2>1, <2>2, <3>1, <1>t, <1>e DEF Flags, HalfStaysLocked
  <2>3. CASE now > DepositEnd
    <3>1. /\ withdrawalFlag'[u] /\ locked'[u] = locked[u] - amount
          /\ \A v \in Users \ {u} : /\ withdrawalFlag'[v] = withdrawalFlag[v]
                                    /\ locked'[v] = locked[v]
      BY <2>1, <2>3, <1>t
    <3>2. 2 * amount <= locked[u]
      BY <2>1, <2>3, <1>t, <1>e, MaxWithdrawalBounds
    <3>3. locked[u] = lockedAtClose[u]
      BY <2>1, <2>3 DEF Flags
    <3>4. 2 * locked'[u] >= lockedAtClose[u]
      BY <3>1, <3>2, <3>3, <2>1, <1>t
    <3> QED BY <2>1, <2>3, <3>1, <3>4, <1>t, <1>e DEF Flags, HalfStaysLocked
  <2> QED BY <2>2, <2>3, <1>t, <1>e
<1>4. CASE UNCHANGED <<now, locked, withdrawalFlag, lockedAtClose>>
  BY <1>4, <1>e DEF Flags, HalfStaysLocked
<1>5. ASSUME NEW u \in Users, ClaimRewards(u) \/ WithdrawProceeds(u)
      PROVE  Flags' /\ HalfStaysLocked'
  BY <1>4, <1>5 DEF ClaimRewards, WithdrawProceeds, history
<1>6. ASSUME NEW amount \in IncentiveAmounts, IncreaseIncentives(amount)
      PROVE  Flags' /\ HalfStaysLocked'
  BY <1>4, <1>6 DEF IncreaseIncentives, history
<1>7. CASE EnableClaims \/ UNCHANGED vars
  BY <1>4, <1>7 DEF EnableClaims, vars
<1> QED BY <1>1, <1>2, <1>3, <1>5, <1>6, <1>7 DEF Next
-----------------------------------------------------------------------------
(* The incentive pool.                                                       *)

owed == [u \in Users |-> Owed(u)]

LEMMA OwedNat ==
  ASSUME TypeOK, TotalMatchesUsers
  PROVE  \A u \in Users : Owed(u) \in Nat /\ owed[u] = Owed(u)
<1> SUFFICES ASSUME NEW u \in Users PROVE Owed(u) \in Nat
  BY DEF owed
<1>1. CASE lockdropClaimed[u] \/ locked[u] = 0
  BY <1>1 DEF Owed
<1>2. CASE ~lockdropClaimed[u] /\ locked[u] > 0
  BY <1>2, RewardNat DEF Owed
<1> QED BY <1>1, <1>2 DEF TypeOK

\* All rewards together fit in the pool.
LEMMA OwedFits ==
  ASSUME TypeOK, TotalMatchesUsers
  PROVE  SumFunctionOnSet(owed, Users) <= lockdropIncentives
<1>1. /\ locked \in [Users -> Nat] /\ lockdropIncentives \in Nat /\ totalNativeLocked \in Nat
      /\ totalNativeLocked = SumFunctionOnSet(locked, Users)
  BY DEF TypeOK, TotalMatchesUsers
<1>2. CASE totalNativeLocked = 0
  <2>1. \A u \in Users : locked[u] = 0
    BY <1>1, <1>2, PositionInTotal
  <2>2. \A u \in Users : owed[u] = 0
    BY <2>1, OwedNat DEF Owed
  <2> QED BY <2>2, <1>1, SumZero
<1>3. CASE totalNativeLocked > 0
  <2>1. \A u \in Users : owed[u] \in Nat /\ owed[u] <= (lockdropIncentives * locked[u]) \div totalNativeLocked
    <3> SUFFICES ASSUME NEW u \in Users
                 PROVE  owed[u] <= (lockdropIncentives * locked[u]) \div totalNativeLocked
      BY OwedNat
    <3>1. lockdropIncentives * locked[u] \in Nat
      BY <1>1, SMT
    <3>2. (lockdropIncentives * locked[u]) \div totalNativeLocked \in Nat
      BY <3>1, <1>1, <1>3, DivFacts
    <3> QED BY <3>2, OwedNat DEF Owed, Reward
  <2> QED BY <2>1, <1>1, <1>3, SumShares
<1> QED BY <1>1, <1>2, <1>3

LEMMA IncentivesStep ==
  ASSUME IInv, [Next]_vars
  PROVE  IncentivesCovered' /\ Bookkeeping'
<1> USE DEF IInv
<1>t. /\ now \in Nat /\ incentiveHeld \in Nat /\ lockdropIncentives \in Nat
      /\ claimsEnabledAt \in Int /\ lockdropClaimed \in [Users -> BOOLEAN]
  BY DEF TypeOK
<1>e. /\ DepositEnd \in Nat /\ PhaseEnd \in Nat /\ DepositEnd < PhaseEnd
      /\ PhaseEnd' = PhaseEnd
  BY Times DEF DepositEnd, PhaseEnd
<1>p. (now <= PhaseEnd => proceeds = 0)'
  BY LedgerStep
<1>i. IncentivesCovered <=>
        (claimsEnabledAt > PhaseEnd => SumFunctionOnSet(owed, Users) <= incentiveHeld)
  BY DEF IncentivesCovered, owed
<1>j. IncentivesCovered' <=>
        (claimsEnabledAt' > PhaseEnd => SumFunctionOnSet(owed', Users) <= incentiveHeld')
  BY <1>e DEF IncentivesCovered, owed
<1>1. CASE UNCHANGED <<lockdropIncentives, totalNativeLocked, areClaimsAllowed, locked,
                       lockdropClaimed, incentiveHeld, claimsEnabledAt>> /\ now' \in Nat /\ now' >= now
  <2>1. owed' = owed
    BY <1>1 DEF owed, Owed, Reward
  <2>2. IncentivesCovered'
    BY <1>1, <1>i, <1>j, <2>1
  <2>3. Bookkeeping'
    BY <1>1, <1>p, <1>t DEF Bookkeeping
  <2> QED BY <2>2, <2>3
<1>2. CASE Tick
  <2>1. now' \in Nat /\ now' >= now
    BY <1>2, <1>t DEF Tick
  <2> QED BY <1>1, <1>2, <2>1 DEF Tick
<1>3. ASSUME NEW amount \in IncentiveAmounts, IncreaseIncentives(amount)
      PROVE  IncentivesCovered' /\ Bookkeeping'
  <2>1. claimsEnabledAt' <= PhaseEnd
    BY <1>3, <1>t, <1>e DEF IncreaseIncentives, IsWithdrawOpen, Bookkeeping, history
  <2> QED BY <1>3, <2>1, <1>j, <1>p, <1>t, <1>e DEF IncreaseIncentives, Bookkeeping, history
<1>4. ASSUME NEW u \in Users, NEW amount \in DepositAmounts, DepositNative(u, amount)
      PROVE  IncentivesCovered' /\ Bookkeeping'
  <2>1. claimsEnabledAt' <= PhaseEnd
    BY <1>4, <1>t, <1>e DEF DepositNative, IsDepositOpen, Bookkeeping, history
  <2> QED BY <1>4, <2>1, <1>j, <1>p, <1>t, <1>e DEF DepositNative, Bookkeeping, history
<1>5. ASSUME NEW u \in Users, NEW amount \in 1 .. MaxAmount, WithdrawNative(u, amount)
      PROVE  IncentivesCovered' /\ Bookkeeping'
  <2>1. claimsEnabledAt' <= PhaseEnd
    BY <1>5, <1>t, <1>e DEF WithdrawNative, IsWithdrawOpen, Bookkeeping, history
  <2> QED BY <1>5, <2>1, <1>j, <1>p, <1>t, <1>e DEF WithdrawNative, Bookkeeping, history
<1>6. CASE EnableClaims
  <2>1. owed' = owed
    BY <1>6 DEF EnableClaims, owed, Owed, Reward
  <2>2. incentiveHeld' = lockdropIncentives
    BY <1>6 DEF EnableClaims, Bookkeeping
  <2>3. SumFunctionOnSet(owed', Users) <= incentiveHeld'
    BY <2>1, <2>2, OwedFits
  <2> QED BY <1>6, <2>3, <1>j, <1>p, <1>t DEF EnableClaims, Bookkeeping
<1>7. ASSUME NEW u \in Users, ClaimRewards(u)
      PROVE  IncentivesCovered' /\ Bookkeeping'
  <2>1. /\ ~lockdropClaimed[u] /\ locked[u] > 0 /\ areClaimsAllowed
        /\ lockdropClaimed' = [lockdropClaimed EXCEPT ![u] = TRUE]
        /\ incentiveHeld' = incentiveHeld - Reward(u)
        /\ UNCHANGED <<now, lockdropIncentives, totalNativeLocked, areClaimsAllowed, locked,
                       proceeds, claimsEnabledAt>>
    BY <1>7 DEF ClaimRewards, history
  <2>2. \A x \in Users : owed[x] \in Int /\ owed'[x] \in Int
    <3>1. TypeOK' /\ TotalMatchesUsers'
      BY LedgerStep
    <3>2. \A x \in Users : Owed(x)' \in Nat /\ owed'[x] = Owed(x)'
      BY <3>1, <2>1, <1>t, OwedNat DEF owed, Owed, Reward, TypeOK, TotalMatchesUsers
    <3> QED BY <3>2, OwedNat
  <2>3. owed'[u] = 0 /\ owed[u] = Reward(u)
    BY <2>1, <1>t DEF owed, Owed
  <2>4. \A x \in Users \ {u} : owed'[x] = owed[x]
    BY <2>1, <1>t DEF owed, Owed, Reward
  <2>5. SumFunctionOnSet(owed', Users) = SumFunctionOnSet(owed, Users) - owed[u] + owed'[u]
    BY <2>2, <2>4, SumChange
  <2>6. SumFunctionOnSet(owed, Users) \in Nat /\ Reward(u) \in Nat
    BY OwedNat, SumNat, RewardNat, <2>1
  <2>7. IncentivesCovered'
    BY <2>1, <2>3, <2>5, <2>6, <1>i, <1>j, <1>t
  <2> QED BY <2>7, <2>1, <1>p, <1>t DEF Bookkeeping
<1>8. ASSUME NEW u \in Users, WithdrawProceeds(u)
      PROVE  IncentivesCovered' /\ Bookkeeping'
  BY <1>1, <1>8, <1>t DEF WithdrawProceeds
<1>9. CASE UNCHANGED vars
  BY <1>1, <1>9, <1>t DEF vars
<1> QED BY <1>2, <1>3, <1>4, <1>5, <1>6, <1>7, <1>8, <1>9 DEF Next
-----------------------------------------------------------------------------
LEMMA IInvStep == IInv /\ [Next]_vars => IInv'
BY LedgerStep, FlagsStep, IncentivesStep DEF IInv

LEMMA Invariance == Spec => []IInv
<1>1. Init => IInv
  BY InitIInv
<1>2. IInv /\ [Next]_vars => IInv'
  BY IInvStep
<1> QED BY <1>1, <1>2, PTL DEF Spec

\* Amounts keep their types: no subtraction of the handlers underflows.
THEOREM TypeCorrect == Spec => []TypeOK
BY Invariance, PTL DEF IInv

\* The stored total is the sum of the stored positions.
THEOREM TotalCorrect == Spec => []TotalMatchesUsers
BY Invariance, PTL DEF IInv

\* Locked coins are in the contract until they are paid to the owner, once.
THEOREM ProceedsPaidOnce == Spec => []NativeCovered
BY Invariance, PTL DEF IInv

\* The pool covers every reward still to be claimed.
THEOREM PoolCoversRewards == Spec => []IncentivesCovered
BY Invariance, PTL DEF IInv

\* The withdrawal window takes at most half of a position.
THEOREM HalfRemains == Spec => []HalfStaysLocked
BY Invariance, PTL DEF IInv

\* Nothing that a reward depends on changes after the phase.
THEOREM Frozen == Spec => FrozenAfterPhase
<1> DEFINE A == now > PhaseEnd => UNCHANGED <<totalNativeLocked, locked, lockdropIncentives>>
<1>1. TypeOK /\ [Next]_vars => [A]_vars
  <2> SUFFICES ASSUME TypeOK, Next, now > PhaseEnd
               PROVE  UNCHANGED <<totalNativeLocked, locked, lockdropIncentives>>
    OBVIOUS
  <2>1. now \in Nat /\ DepositEnd \in Nat /\ PhaseEnd \in Nat /\ DepositEnd < PhaseEnd
    BY Times DEF TypeOK
  <2> QED BY <2>1 DEF Next, Tick, IncreaseIncentives, DepositNative, WithdrawNative, EnableClaims,
                      ClaimRewards, WithdrawProceeds, IsDepositOpen, IsWithdrawOpen, history
<1>2. Spec => []TypeOK
  BY TypeCorrect
<1>3. Spec => [][A]_vars
  BY <1>1, <1>2, PTL DEF Spec
<1> QED BY <1>3 DEF FrozenAfterPhase
=============================================================================

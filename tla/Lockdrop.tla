------------------------------ MODULE Lockdrop ------------------------------
(***************************************************************************)
(* The lockdrop contract, contracts/fungible-tokens/andromeda-lockdrop.    *)
(*                                                                         *)
(* Users lock a native coin during a deposit window, may take part of it   *)
(* back during a withdrawal window that follows, and then share a pool of  *)
(* incentive tokens in proportion to what they left locked.  The owner     *)
(* takes the locked coins as proceeds.  A transaction either runs to its   *)
(* end or reverts, so each execute handler is one atomic action; block     *)
(* time moves between transactions.                                        *)
(***************************************************************************)
EXTENDS Integers, FiniteSets, Functions

CONSTANTS
  Users,              \* addresses that call the contract
  Owner,              \* the contract owner (ADOContract)
  StartTime,          \* block time of instantiate, in seconds
  InitTimestamp,      \* config.init_timestamp
  DepositWindow,      \* config.deposit_window
  WithdrawalWindow,   \* config.withdrawal_window
  DecimalOne,         \* the atomics of Decimal::one(), 10^18 in the code
  MaxAmount,          \* the largest amount; Uint128 additions panic above it
  DepositAmounts,     \* amounts of native coin users may attach
  IncentiveAmounts,   \* amounts of incentive token sent to the contract
  MaxTime             \* bound on block time, for model checking

ASSUME LockdropAssumption ==
  /\ IsFiniteSet(Users)
  /\ StartTime \in Nat /\ InitTimestamp \in Nat /\ MaxTime \in Nat
  /\ DepositWindow \in Nat /\ WithdrawalWindow \in Nat
  /\ MaxAmount \in Nat
  /\ DepositAmounts \subseteq Nat
  /\ IncentiveAmounts \subseteq Nat
  /\ DecimalOne \in Nat /\ DecimalOne % 2 = 0 /\ DecimalOne > 0
  \* the checks of instantiate
  /\ InitTimestamp >= StartTime
  /\ 0 < WithdrawalWindow /\ WithdrawalWindow < DepositWindow

VARIABLES
  now,                 \* env.block.time.seconds()
  lockdropIncentives,  \* CONFIG.lockdrop_incentives
  totalNativeLocked,   \* STATE.total_native_locked
  areClaimsAllowed,    \* STATE.are_claims_allowed
  locked,              \* USER_INFO[u].total_native_locked
  lockdropClaimed,     \* USER_INFO[u].lockdrop_claimed
  withdrawalFlag,      \* USER_INFO[u].withdrawal_flag
  nativeHeld,          \* the contract's balance of the native coin
  incentiveHeld,       \* the contract's balance of the incentive token
  proceeds,            \* history: what the owner has been paid
  claimsEnabledAt,     \* history: when claims were enabled, or Never
  lockedAtClose        \* history: locked when the deposit window closed

history == <<proceeds, claimsEnabledAt, lockedAtClose>>
vars == <<now, lockdropIncentives, totalNativeLocked, areClaimsAllowed, locked,
          lockdropClaimed, withdrawalFlag, nativeHeld, incentiveHeld,
          proceeds, claimsEnabledAt, lockedAtClose>>

Never == -1

DepositEnd == InitTimestamp + DepositWindow
PhaseEnd == DepositEnd + WithdrawalWindow
-----------------------------------------------------------------------------
(* The two windows and the share of a position that may be withdrawn.       *)

IsDepositOpen(t) == InitTimestamp <= t /\ t <= DepositEnd

\* Bug: the window is kept open one second too long.
IsWithdrawOpenMutant(t) == InitTimestamp <= t /\ t <= PhaseEnd + 1
IsWithdrawOpen(t) == InitTimestamp <= t /\ t <= PhaseEnd

\* A Decimal, as the number of its atomics.
AllowedWithdrawalPercent(t) ==
  LET second == DepositEnd + (WithdrawalWindow \div 2)
  IN  IF t < DepositEnd THEN DecimalOne
      ELSE IF t <= second THEN DecimalOne \div 2
      ELSE IF t < PhaseEnd
           THEN (50 * (PhaseEnd - t) * DecimalOne) \div (100 * (PhaseEnd - second))
      ELSE 0

\* Uint128 * Decimal truncates.
MaxWithdrawal(u) ==
  (locked[u] * AllowedWithdrawalPercent(now)) \div DecimalOne

\* multiply_ratio truncates.  delegated_incentives is never set, so nothing
\* is subtracted from a user's share.
Reward(u) == (lockdropIncentives * locked[u]) \div totalNativeLocked
-----------------------------------------------------------------------------
Init ==
  /\ now = StartTime
  /\ lockdropIncentives = 0
  /\ totalNativeLocked = 0
  /\ areClaimsAllowed = FALSE
  /\ locked = [u \in Users |-> 0]
  /\ lockdropClaimed = [u \in Users |-> FALSE]
  /\ withdrawalFlag = [u \in Users |-> FALSE]
  /\ nativeHeld = 0
  /\ incentiveHeld = 0
  /\ proceeds = 0
  /\ claimsEnabledAt = Never
  /\ lockedAtClose = [u \in Users |-> 0]

\* Block time advances between transactions, by any amount.
Tick ==
  \E t \in (now + 1) .. MaxTime :
    /\ now' = t
    /\ lockedAtClose' = IF now <= DepositEnd /\ t > DepositEnd
                        THEN locked ELSE lockedAtClose
    /\ UNCHANGED <<lockdropIncentives, totalNativeLocked, areClaimsAllowed, locked,
                   lockdropClaimed, withdrawalFlag, nativeHeld, incentiveHeld,
                   proceeds, claimsEnabledAt>>

\* receive_cw20 / execute_increase_incentives: the incentive token sends the
\* hook, after it has moved the tokens to the contract.
IncreaseIncentives(amount) ==
  /\ amount > 0
  /\ IsWithdrawOpen(now)
  /\ lockdropIncentives + amount <= MaxAmount
  /\ lockdropIncentives' = lockdropIncentives + amount
  /\ incentiveHeld' = incentiveHeld + amount
  /\ UNCHANGED <<now, totalNativeLocked, areClaimsAllowed, locked, lockdropClaimed,
                 withdrawalFlag, nativeHeld, history>>

DepositNative(u, amount) ==
  /\ IsDepositOpen(now)
  /\ amount > 0
  /\ totalNativeLocked + amount <= MaxAmount
  /\ locked' = [locked EXCEPT ![u] = @ + amount]
  /\ totalNativeLocked' = totalNativeLocked + amount
  /\ nativeHeld' = nativeHeld + amount
  /\ UNCHANGED <<now, lockdropIncentives, areClaimsAllowed, lockdropClaimed,
                 withdrawalFlag, incentiveHeld, history>>

\* Bug: the flag that allows one withdrawal is checked and never set.
WithdrawNativeMutant(u, amount) ==
  /\ IsWithdrawOpen(now)
  /\ 0 < amount /\ amount <= MaxWithdrawal(u)
  /\ now > DepositEnd => ~withdrawalFlag[u]
  /\ nativeHeld >= amount
  /\ locked' = [locked EXCEPT ![u] = @ - amount]
  /\ totalNativeLocked' = totalNativeLocked - amount
  /\ nativeHeld' = nativeHeld - amount
  /\ UNCHANGED <<now, lockdropIncentives, areClaimsAllowed, lockdropClaimed, withdrawalFlag,
                 incentiveHeld, history>>

\* The message names an amount, or none for the most that is allowed; the bank
\* refuses to send zero coins, and a failed send reverts the transaction.  That
\* the Uint128 subtractions do not underflow is part of TypeOK.
WithdrawNative(u, amount) ==
  /\ IsWithdrawOpen(now)
  /\ 0 < amount /\ amount <= MaxWithdrawal(u)
  /\ now > DepositEnd => ~withdrawalFlag[u]
  /\ nativeHeld >= amount
  /\ withdrawalFlag' = [withdrawalFlag EXCEPT ![u] = @ \/ now > DepositEnd]
  /\ locked' = [locked EXCEPT ![u] = @ - amount]
  /\ totalNativeLocked' = totalNativeLocked - amount
  /\ nativeHeld' = nativeHeld - amount
  /\ UNCHANGED <<now, lockdropIncentives, areClaimsAllowed, lockdropClaimed, incentiveHeld,
                 history>>

\* Anyone may call it.  Note that the withdrawal window is also "not open"
\* before it begins.
EnableClaims ==
  /\ ~IsWithdrawOpen(now)
  /\ ~areClaimsAllowed
  /\ areClaimsAllowed' = TRUE
  /\ claimsEnabledAt' = now
  /\ UNCHANGED <<now, lockdropIncentives, totalNativeLocked, locked, lockdropClaimed,
                 withdrawalFlag, nativeHeld, incentiveHeld, proceeds, lockedAtClose>>

\* Bug: the claim pays without being recorded.
ClaimRewardsMutant(u) ==
  /\ ~lockdropClaimed[u]
  /\ locked[u] > 0
  /\ areClaimsAllowed
  /\ 0 < Reward(u) /\ Reward(u) <= incentiveHeld
  /\ incentiveHeld' = incentiveHeld - Reward(u)
  /\ UNCHANGED <<now, lockdropIncentives, totalNativeLocked, areClaimsAllowed, locked,
                 lockdropClaimed, withdrawalFlag, nativeHeld, history>>

\* The incentive token refuses a transfer of zero, which reverts the claim.
ClaimRewards(u) ==
  /\ ~lockdropClaimed[u]
  /\ locked[u] > 0
  /\ areClaimsAllowed
  /\ 0 < Reward(u) /\ Reward(u) <= incentiveHeld
  /\ lockdropClaimed' = [lockdropClaimed EXCEPT ![u] = TRUE]
  /\ incentiveHeld' = incentiveHeld - Reward(u)
  /\ UNCHANGED <<now, lockdropIncentives, totalNativeLocked, areClaimsAllowed, locked,
                 withdrawalFlag, nativeHeld, history>>

\* Bug: only the start of the phase is checked, not that it is over.
WithdrawProceedsMutant(u) ==
  /\ u = Owner
  /\ now >= InitTimestamp
  /\ 0 < totalNativeLocked /\ nativeHeld >= totalNativeLocked
  /\ nativeHeld' = nativeHeld - totalNativeLocked
  /\ proceeds' = proceeds + totalNativeLocked
  /\ UNCHANGED <<now, lockdropIncentives, totalNativeLocked, areClaimsAllowed, locked, lockdropClaimed,
                 withdrawalFlag, incentiveHeld, claimsEnabledAt, lockedAtClose>>

\* That the proceeds are still there is read off the contract's balance.
WithdrawProceeds(u) ==
  /\ u = Owner
  /\ now >= InitTimestamp /\ ~IsWithdrawOpen(now)
  /\ 0 < totalNativeLocked /\ nativeHeld >= totalNativeLocked
  /\ nativeHeld' = nativeHeld - totalNativeLocked
  /\ proceeds' = proceeds + totalNativeLocked
  /\ UNCHANGED <<now, lockdropIncentives, totalNativeLocked, areClaimsAllowed, locked, lockdropClaimed,
                 withdrawalFlag, incentiveHeld, claimsEnabledAt, lockedAtClose>>

Next ==
  \/ Tick
  \/ \E amount \in IncentiveAmounts : IncreaseIncentives(amount)
  \/ EnableClaims
  \/ \E u \in Users :
       \/ \E amount \in DepositAmounts : DepositNative(u, amount)
       \/ \E amount \in 1 .. MaxAmount : WithdrawNative(u, amount)
       \/ ClaimRewards(u)
       \/ WithdrawProceeds(u)

Spec == Init /\ [][Next]_vars

\* Users who are owed incentives keep asking for them, and somebody enables
\* claims: it is in the interest of any of them to do so, and anyone may.
Fairness ==
  /\ WF_vars(EnableClaims)
  /\ \A u \in Users : WF_vars(ClaimRewards(u))

FairSpec == Spec /\ Fairness
-----------------------------------------------------------------------------
\* Amounts stay naturals, so no Uint128 subtraction of the code underflows,
\* and the total stays in range.
TypeOK ==
  /\ now \in Nat
  /\ lockdropIncentives \in 0 .. MaxAmount
  /\ totalNativeLocked \in 0 .. MaxAmount
  /\ areClaimsAllowed \in BOOLEAN
  /\ locked \in [Users -> Nat]
  /\ lockdropClaimed \in [Users -> BOOLEAN]
  /\ withdrawalFlag \in [Users -> BOOLEAN]
  /\ nativeHeld \in Nat
  /\ incentiveHeld \in Nat
  /\ proceeds \in Nat
  /\ claimsEnabledAt \in Nat \cup {Never}
  /\ lockedAtClose \in [Users -> Nat]

\* STATE.total_native_locked, the divisor of every reward and the amount of
\* the proceeds, is the sum of the positions stored in USER_INFO.
TotalMatchesUsers == totalNativeLocked = SumFunctionOnSet(locked, Users)

\* The coins in the contract and the coins paid to the owner are together the
\* coins locked, and the owner has been paid nothing or all of them: the
\* balance comparison in execute_withdraw_proceeds, which stands in for a
\* "paid" flag, pays the proceeds once.
NativeCovered ==
  /\ nativeHeld + proceeds = totalNativeLocked
  /\ proceeds \in {0, totalNativeLocked}

\* What u can still claim.
Owed(u) == IF lockdropClaimed[u] \/ locked[u] = 0 THEN 0 ELSE Reward(u)

\* Once claims are enabled after the phase, the contract holds enough of the
\* incentive token for every reward not yet claimed, whatever the order of the
\* claims and however the shares were rounded.
IncentivesCovered ==
  claimsEnabledAt > PhaseEnd =>
    SumFunctionOnSet([u \in Users |-> Owed(u)], Users) <= incentiveHeld

\* "This value remains unchanged post the lockdrop window" (state.rs:36): no
\* step after the phase moves a position, the total or the pool, so a reward
\* does not depend on when it is claimed.
FrozenAfterPhase ==
  [][now > PhaseEnd =>
       UNCHANGED <<totalNativeLocked, locked, lockdropIncentives>>]_vars

\* At least half of what a user had locked when the deposit window closed
\* stays locked: the withdrawal window allows one withdrawal, of at most half.
HalfStaysLocked ==
  now > DepositEnd => \A u \in Users : 2 * locked[u] >= lockedAtClose[u]

\* A user who has a nonzero share when the phase is over, and claims have not
\* been enabled before its end, is eventually paid, whatever the others do.
RewardsPaid ==
  \A u \in Users :
    (/\ now > PhaseEnd /\ claimsEnabledAt \notin 0 .. PhaseEnd
     /\ locked[u] > 0 /\ Reward(u) > 0) ~> lockdropClaimed[u]

\* contract.rs:372, "Claims can only be enabled after the deposit / withdrawal
\* windows are closed".
ClaimsAfterPhase == areClaimsAllowed => claimsEnabledAt > PhaseEnd
=============================================================================

----------------------------- MODULE RateLimit ------------------------------
(***************************************************************************)
(* The rate limiting withdrawals contract,                                 *)
(* contracts/finance/andromeda-rate-limiting-withdrawals.                  *)
(*                                                                         *)
(* Depositors keep accounts of one coin and withdraw at most MaxWithdrawal *)
(* at a time, at least Frequency seconds apart.  Anyone may deposit for    *)
(* anyone.  The names are those of the contract with Limit before them     *)
(* where other contracts have the same.                                    *)
(***************************************************************************)
EXTENDS Integers, FiniteSets, Functions

CONSTANTS
  Depositors,
  MaxWithdrawal,     \* ALLOWED_COIN.limit
  Frequency,         \* ALLOWED_COIN.minimal_withdrawal_frequency, in seconds
  TicksPerSecond,    \* block time is finer than the seconds that are compared
  LimitDeposits,
  MayTopUpOthers,    \* whether deposits for another's existing account are made
  MaxLimitTime, MaxHeld   \* bounds, for model checking

ASSUME RateLimitAssumption ==
  /\ IsFiniteSet(Depositors)
  /\ MaxWithdrawal \in Nat /\ Frequency \in Nat /\ TicksPerSecond \in Nat \ {0}
  /\ LimitDeposits \subseteq Nat
  /\ MayTopUpOthers \in BOOLEAN
  /\ MaxLimitTime \in Nat /\ MaxHeld \in Nat

VARIABLES
  time,              \* env.block.time, in ticks
  hasAccount,        \* the keys of ACCOUNTS
  account,           \* ACCOUNTS[u].balance
  latestWithdrawal,  \* ACCOUNTS[u].latest_withdrawal
  held,              \* the contract's balance of the coin
  taken              \* history: what u was paid at each tick

limitVars == <<time, hasAccount, account, latestWithdrawal, held, taken>>

NoWithdrawal == -1
LimitTimes == 0 .. MaxLimitTime
Seconds(t) == t \div TicksPerSecond

LimitInit ==
  /\ time = 0
  /\ hasAccount = [u \in Depositors |-> FALSE]
  /\ account = [u \in Depositors |-> 0]
  /\ latestWithdrawal = [u \in Depositors |-> NoWithdrawal]
  /\ held = 0
  /\ taken = [u \in Depositors |-> [t \in LimitTimes |-> 0]]

LimitTick ==
  /\ time < MaxLimitTime
  /\ time' = time + 1
  /\ UNCHANGED <<hasAccount, account, latestWithdrawal, held, taken>>

\* Bug: a deposit starts the account's history over.
LimitDepositMutant(sender, user, amount) ==
  /\ amount > 0 /\ held + amount <= MaxHeld
  /\ MayTopUpOthers \/ sender = user \/ ~hasAccount[user]
  /\ held' = held + amount
  /\ hasAccount' = [hasAccount EXCEPT ![user] = TRUE]
  /\ account' = [account EXCEPT ![user] = account[user] + amount]
  /\ latestWithdrawal' = [latestWithdrawal EXCEPT ![user] = NoWithdrawal]
  /\ UNCHANGED <<time, taken>>

\* execute_deposit.  The details read are those of the recipient; an existing
\* account is saved back under the sender's key.
LimitDeposit(sender, user, amount) ==
  LET key == IF hasAccount[user] THEN sender ELSE user
  IN  /\ amount > 0 /\ held + amount <= MaxHeld
      /\ MayTopUpOthers \/ sender = user \/ ~hasAccount[user]
      /\ held' = held + amount
      /\ hasAccount' = [hasAccount EXCEPT ![key] = TRUE]
      /\ account' = [account EXCEPT ![key] = account[user] + amount]
      /\ latestWithdrawal' = [latestWithdrawal EXCEPT ![key] = latestWithdrawal[user]]
      /\ UNCHANGED <<time, taken>>

\* The bank refuses to send zero coins or more than there is, which reverts
\* the withdrawal.
LimitWithdraw(u, amount) ==
  /\ hasAccount[u]
  /\ latestWithdrawal[u] # NoWithdrawal =>
       Seconds(time) - Seconds(latestWithdrawal[u]) >= Frequency
  /\ amount <= account[u] /\ amount <= MaxWithdrawal
  /\ 0 < amount /\ amount <= held
  /\ account' = [account EXCEPT ![u] = @ - amount]
  /\ latestWithdrawal' = [latestWithdrawal EXCEPT ![u] = time]
  /\ held' = held - amount
  /\ taken' = [taken EXCEPT ![u][time] = @ + amount]
  /\ UNCHANGED <<time, hasAccount>>

LimitNext ==
  \/ LimitTick
  \/ \E sender, user \in Depositors, amount \in LimitDeposits : LimitDeposit(sender, user, amount)
  \/ \E u \in Depositors : \E amount \in 1 .. held : LimitWithdraw(u, amount)

LimitSpec == LimitInit /\ [][LimitNext]_limitVars
-----------------------------------------------------------------------------
\* The coins held are what the accounts add up to, so that every account can
\* be paid.
AccountsBacked == held = SumFunctionOnSet(account, Depositors)

\* However deposits and withdrawals are mixed, what one user takes is at most
\* MaxWithdrawal at a time and at least Frequency apart, up to the second that
\* is lost by comparing whole seconds.
Limited ==
  Frequency > 0 =>
    \A u \in Depositors, t \in LimitTimes :
      taken[u][t] > 0 =>
        /\ taken[u][t] <= MaxWithdrawal
        /\ \A s \in LimitTimes : s < t /\ taken[u][s] > 0 => Seconds(t) - Seconds(s) >= Frequency

\* "Check if recipient already has an account ... add new balance with updated
\* coin" (contract.rs:130, 137): a deposit adds its coins to one account and
\* leaves the others alone.
DepositAdds ==
  [][held' > held =>
       \E u \in Depositors : account' = [account EXCEPT ![u] = @ + (held' - held)]]_limitVars
=============================================================================

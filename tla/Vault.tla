------------------------------- MODULE Vault --------------------------------
(***************************************************************************)
(* The vault, contracts/ecosystem/andromeda-vault: it keeps coins for its  *)
(* users or forwards them to a strategy, a contract that keeps each user's *)
(* position and lets the vault, one of its operators, withdraw it.  The    *)
(* strategy is modelled from the messages the vault sends it.              *)
(***************************************************************************)
EXTENDS AdoBase

CONSTANTS
  Strategies,      \* contracts
  NoStrategy,
  NoAmount,        \* a deposit of what is sent
  DepositSizes,    \* amounts sent, and amounts named
  VaultWithdrawals

ASSUME VaultAssumption ==
  /\ Strategies \subseteq Contracts \ {This} /\ NoStrategy \notin Strategies
  /\ NoAmount \notin Nat /\ DepositSizes \subseteq Nat
  /\ VaultWithdrawals \subseteq [kind : WithdrawalKinds, n : Nat]

VARIABLES
  vaultBalance,   \* BALANCES of the coin
  strategyAddr,   \* STRATEGY_CONTRACT_ADDRESSES of the one strategy type
  positions,      \* what each strategy keeps for each user
  trusting        \* the strategies that have the vault as an operator

bookVars == <<vaultBalance, positions>>

VaultInit ==
  /\ vaultBalance = [u \in Actors |-> 0]
  /\ strategyAddr = NoStrategy
  /\ positions = [st \in Strategies |-> [u \in Actors |-> 0]]
  /\ trusting = {}

\* deposited_funds, when the coins are enough for the amount named.
Deposited(sent, named) == IF named = NoAmount THEN sent ELSE named

\* execute_deposit without a strategy.  What is sent beyond the amount named is
\* credited to nobody.
VaultDeposit(s, sent, named, r) ==
  /\ 0 < Deposited(sent, named) /\ Deposited(sent, named) <= sent
  /\ sent <= coins[s]
  /\ vaultBalance' = [vaultBalance EXCEPT ![r] = @ + Deposited(sent, named)]
  /\ coins' = AfterPayments(s, Only(This, sent))
  /\ UNCHANGED <<strategyAddr, positions, trusting>>

\* Coins of the sender pass through the vault, which adds its own.
ThroughVault(s, sent, to, amount) ==
  [coins EXCEPT ![s] = @ - sent, ![This] = @ + sent - amount, ![to] = @ + amount]

\* Bug: the position is the sender's, who made up for nothing.
StrategyDepositMutant(s, sent, named, r) ==
  LET amount == Deposited(sent, named)
      fromVault == IF sent < amount THEN amount - sent ELSE 0
  IN  /\ 0 < amount /\ sent <= coins[s]
      /\ fromVault <= vaultBalance[r]
      /\ strategyAddr # NoStrategy
      /\ vaultBalance' = [vaultBalance EXCEPT ![r] = @ - fromVault]
      /\ positions' = [positions EXCEPT ![strategyAddr][s] = @ + amount]
      /\ coins' = ThroughVault(s, sent, strategyAddr, amount)
      /\ UNCHANGED <<strategyAddr, trusting>>

\* execute_deposit to the strategy.  What the coins sent lack is taken from the
\* balance of the recipient, whoever the sender is.
StrategyDeposit(s, sent, named, r) ==
  LET amount == Deposited(sent, named)
      fromVault == IF sent < amount THEN amount - sent ELSE 0
  IN  /\ 0 < amount /\ sent <= coins[s]
      /\ fromVault <= vaultBalance[r]
      /\ strategyAddr # NoStrategy
      /\ vaultBalance' = [vaultBalance EXCEPT ![r] = @ - fromVault]
      /\ positions' = [positions EXCEPT ![strategyAddr][r] = @ + amount]
      /\ coins' = ThroughVault(s, sent, strategyAddr, amount)
      /\ UNCHANGED <<strategyAddr, trusting>>

\* Bug: a withdrawal of everything leaves the balance.
WithdrawVaultMutant(s, r, w) ==
  LET amount == IF w.kind = "percent" THEN Portion(vaultBalance[s], w.n)
                ELSE IF w.kind = "all" THEN vaultBalance[s] ELSE w.n
  IN  /\ amount <= vaultBalance[s]
      /\ BankSend(This, r, amount)
      /\ vaultBalance' = [vaultBalance EXCEPT ![s] = IF w.kind = "all" THEN @ ELSE @ - amount]
      /\ UNCHANGED <<strategyAddr, positions, trusting>>

\* More than the balance fails, where WithdrawalType::get_amount would take less.
WithdrawVault(s, r, w) ==
  LET amount == IF w.kind = "percent" THEN Portion(vaultBalance[s], w.n)
                ELSE IF w.kind = "all" THEN vaultBalance[s] ELSE w.n
  IN  /\ amount <= vaultBalance[s]
      /\ BankSend(This, r, amount)
      /\ vaultBalance' = [vaultBalance EXCEPT ![s] = @ - amount]
      /\ UNCHANGED <<strategyAddr, positions, trusting>>

\* The strategy pays the sender, if the vault is still its operator.
WithdrawStrategy(s, w) ==
  /\ strategyAddr \in trusting
  /\ CanWithdraw(w)
  /\ LET amount == WithdrawalAmount(w, positions[strategyAddr][s])
     IN  /\ BankSend(strategyAddr, s, amount)
         /\ positions' = [positions EXCEPT ![strategyAddr][s] = @ - amount]
  /\ UNCHANGED <<vaultBalance, strategyAddr, trusting>>

\* execute_withdraw.  A strategy pays the sender, whoever the recipient is.
VaultWithdraw(s, r, w) == WithdrawVault(s, r, w) \/ WithdrawStrategy(s, w)

\* Positions in the strategy that was there before stay behind.
UpdateStrategy(s, st) ==
  /\ s = owner
  /\ st \in trusting
  /\ strategyAddr' = st
  /\ UNCHANGED <<vaultBalance, positions, trusting, coins>>

\* The owner of a strategy adds the vault to its operators, or removes it.
ChangeTrust(st) ==
  /\ trusting' = IF st \in trusting THEN trusting \ {st} ELSE trusting \cup {st}
  /\ UNCHANGED <<vaultBalance, strategyAddr, positions, coins>>

\* AndromedaMsg::Receive without data is a deposit for the sender.
VaultStep ==
  \/ \E s, r \in Actors, sent \in DepositSizes, named \in DepositSizes \cup {NoAmount} :
       VaultDeposit(s, sent, named, r) \/ StrategyDeposit(s, sent, named, r)
  \/ \E s, r \in Actors, w \in VaultWithdrawals : VaultWithdraw(s, r, w)
  \/ \E st \in Strategies : ChangeTrust(st) \/ \E s \in Actors : UpdateStrategy(s, st)
-----------------------------------------------------------------------------
\* The vault and its strategies hold at least what they owe.
VaultBacked ==
  /\ SumFunction(vaultBalance) <= coins[This]
  /\ \A st \in Strategies : SumFunction(positions[st]) <= coins[st]

\* What u has in the vault and in the strategies it has had.
Worth(u) ==
  vaultBalance[u] + SumFunction([st \in Strategies |-> positions[st][u]])
=============================================================================

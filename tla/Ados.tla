-------------------------------- MODULE Ados --------------------------------
(***************************************************************************)
(* The contracts that share the base of packages/ado-base, one at a time:  *)
(* ado says which, and its steps interleave with those of the base it is   *)
(* built on, of the modules it has, of the primitive contract and factory  *)
(* it reads, of the clock, and of people who send it coins.  The base's    *)
(* own handlers, which every contract has, are looked at in three parts    *)
(* that share no more than the owner: modules, cache and funds.            *)
(***************************************************************************)
EXTENDS WeightedSplitter, Vault, MerkleAirdrop, Cw20, AppContract, Swapper, RateLimit, Cw20Staking

CONSTANTS
  Ados,        \* the contracts looked at
  OwnedAdos    \* those of them whose owners change

VARIABLE ado

splitterVars == <<recipients, lock>>
vaultVars == <<vaultBalance, strategyAddr, positions, trusting>>
airdropVars == <<stages, claims, paid, burned>>
hookVars == <<rates, listed, inclusive, receipts, numReceipt>>

\* The state of the contracts that are not looked at is any they may start in.
Idle(x, choices) == x = CHOOSE v \in choices : TRUE

AdosInit ==
  /\ ado \in Ados
  /\ CommonInit /\ PrimitiveInit
  /\ BaseInit
  /\ ado \notin {"modules", "token"} => modules = << >>
  /\ ado = "token" => HasModule("rates")
  /\ ado # "modules" => adoType = "cw20"
  /\ ado # "funds" => Idle(contractVersion, Versions)
  /\ ado \notin OwnedAdos => Idle(owner, Actors)
  /\ CASE ado = "splitter" -> SplitterInit
       [] ado = "weighted" -> WeightedInit
       [] OTHER -> recipients = << >> /\ lock = 0
  /\ VaultInit /\ AirdropInit
  /\ RatesInit /\ AddressListInit /\ ReceiptInit /\ Cw20Init
  /\ FactoryInit /\ AppInit /\ SwapperInit
  /\ LimitInit /\ Init
  /\ ado # "token" => Idle(rates, RateLists) /\ Idle(inclusive, BOOLEAN)
  /\ ado # "sale" => Idle(price, Prices)
  /\ ado # "swapper" => Idle(swapperImpl, SwapperImpls)

\* The steps of a contract change its own state and no more.
OnlyChange(parts) ==
  /\ UNCHANGED ado
  /\ IF "coins" \in parts THEN TRUE ELSE UNCHANGED coins
  /\ IF "clock" \in parts THEN TRUE ELSE UNCHANGED clock
  /\ IF "values" \in parts THEN TRUE ELSE UNCHANGED values
  /\ IF "own" \in parts THEN TRUE ELSE UNCHANGED ownVars
  /\ IF "modules" \in parts THEN TRUE ELSE UNCHANGED moduleVars
  /\ IF "cache" \in parts THEN TRUE ELSE UNCHANGED cached
  /\ IF "version" \in parts THEN TRUE ELSE UNCHANGED versionVars
  /\ IF "splitter" \in parts THEN TRUE ELSE UNCHANGED splitterVars
  /\ IF "vault" \in parts THEN TRUE ELSE UNCHANGED vaultVars
  /\ IF "airdrop" \in parts THEN TRUE ELSE UNCHANGED airdropVars
  /\ IF "rates" \in parts THEN TRUE ELSE UNCHANGED rates
  /\ IF "addresses" \in parts THEN TRUE ELSE UNCHANGED <<listed, inclusive>>
  /\ IF "receipts" \in parts THEN TRUE ELSE UNCHANGED <<receipts, numReceipt>>
  /\ IF "cw20" \in parts THEN TRUE ELSE UNCHANGED cwVars
  /\ IF "factory" \in parts THEN TRUE ELSE UNCHANGED codeIds
  /\ IF "app" \in parts THEN TRUE ELSE UNCHANGED appVars
  /\ IF "swapper" \in parts THEN TRUE ELSE UNCHANGED <<holdings, swapperImpl>>
  /\ IF "limit" \in parts THEN TRUE ELSE UNCHANGED limitVars
  /\ IF "staking" \in parts THEN TRUE ELSE UNCHANGED vars

GiveCoins == \E s \in Actors, n \in Gifts : BankSend(s, This, n)

Splits == ado \in {"splitter", "weighted"}
\* The addresses a contract itself stores.
StoredAddresses == IF Splits THEN RecipientAddresses ELSE {}

AdosNext ==
  \/ ado \in OwnedAdos /\ OwnStep(StoredAddresses) /\ OnlyChange({"own"})
  \/ (Splits \/ ado = "airdrop") /\ ClockTick /\ OnlyChange({"clock"})
  \/ ado \in {"funds", "vault", "airdrop"} /\ GiveCoins /\ OnlyChange({"coins"})
  \/ ado = "cache" /\ PrimitiveStep(PrimitiveKeys) /\ OnlyChange({"values"})
  \/ ado = "app" /\ PrimitiveStep({FactoryKey}) /\ OnlyChange({"values"})
  \/ ado = "token" /\ PrimitiveStep(RateKeys) /\ OnlyChange({"values"})
  \/ ado = "modules" /\ ModuleStep /\ OnlyChange({"modules"})
  \/ ado = "cache" /\ CacheStep /\ OnlyChange({"cache"})
  \/ ado = "funds" /\ (\E version \in Versions : Migrate(version)) /\ OnlyChange({"version"})
  \/ /\ ado = "funds"
     /\ \E s \in Actors, recipient \in Actors \cup Names, w \in WithdrawalChoices : WithdrawFunds(s, recipient, w)
     /\ OnlyChange({"coins"})
  \/ ado = "splitter" /\ SplitterStep /\ OnlyChange({"splitter", "coins"})
  \/ ado = "weighted" /\ WeightedStep /\ OnlyChange({"splitter", "coins"})
  \/ ado = "vault" /\ VaultStep /\ OnlyChange({"vault", "coins"})
  \/ ado = "airdrop" /\ AirdropStep /\ OnlyChange({"airdrop", "coins"})
  \/ ado = "token" /\ RatesStep /\ OnlyChange({"rates"})
  \/ ado = "token" /\ AddressListStep /\ OnlyChange({"addresses"})
  \/ ado = "token" /\ ReceiptStep /\ OnlyChange({"receipts"})
  \/ ado \in {"token", "sale"} /\ TokenStep /\ OnlyChange({"cw20", "receipts"})
  \/ ado = "sale" /\ AllowanceStep /\ OnlyChange({"cw20"})
  \/ ado = "app" /\ FactoryStep /\ OnlyChange({"factory"})
  \/ ado = "app" /\ AppStep /\ OnlyChange({"app"})
  \/ ado = "swapper" /\ SwapperStep /\ OnlyChange({"swapper"})
  \/ ado = "limit" /\ LimitNext /\ OnlyChange({"limit"})
  \/ ado = "staking" /\ Next /\ OnlyChange({"staking"})

adosVars ==
  <<ado, coins, clock, values, ownVars, moduleVars, cached, versionVars, splitterVars, vaultVars,
    airdropVars, hookVars, cwVars, codeIds, appVars, holdings, swapperImpl, limitVars, vars>>

AdosSpec == AdosInit /\ [][AdosNext]_adosVars
-----------------------------------------------------------------------------
\* Whatever the sequence of deposits, withdrawals, claims, stakes, mints and
\* burns: what the books of the vault, the airdrop, the token, the limited
\* withdrawals and the pool say is owed is what there is to pay it with.
BooksBalance == VaultBacked /\ ClaimsCounted /\ SupplyBacked /\ AccountsBacked /\ SharesBacked

\* What a user has in the vault and its strategies only falls by the user's own
\* withdrawals, although anybody can move another's balance to the strategy and
\* the owner can change the strategy under it.
TakenByTheirOwners ==
  \A u \in Actors : Worth(u)' < Worth(u) =>
    \E r \in Actors, w \in VaultWithdrawals : VaultWithdraw(u, r, w)

VaultKept == [][TakenByTheirOwners]_vaultVars

\* A split of the amount: every entry on the list gets its exact part but for
\* the fraction of a coin, the sender the rest, the splitter nothing.
SplitExact(s, amount) ==
  LET whole == IF ado = "splitter" THEN PercentOne ELSE PartsOf(recipients)
      entries(h) == {i \in DOMAIN recipients : AddressOf(recipients[i].to, appContract) = h}
      exact(h) == amount * SumFunctionOnSet([i \in DOMAIN recipients |-> recipients[i].part], entries(h))
  IN  /\ \A h \in DOMAIN coins \ {s} :
           LET got == (coins'[h] - coins[h]) * whole
           IN  got <= exact(h) /\ got >= exact(h) - Cardinality(entries(h)) * (whole - 1)
      /\ SumFunction(coins') = SumFunction(coins)

\* Splits, transfers of the token with fees, and swaps pay everybody what is
\* theirs, to the coin, and keep nothing.
PaymentsExact ==
  [][/\ coins' # coins /\ Splits => \A s \in Actors, amount \in SentAmounts :
          IF ado = "splitter" THEN SplitterSend(s, amount) => SplitExact(s, amount)
          ELSE WeightedSend(s, amount) => SplitExact(s, amount)
     /\ tokens' # tokens /\ ado = "token" => \A s \in Actors, to \in Holders, amount \in TokenAmounts :
          Transfer(s, to, amount) => TransferExact(s, to, amount)
     /\ holdings' # holdings /\ ado = "swapper" => \A offer, ask \in Natives \cup Cw20s : offer # ask =>
          \A s, recipient \in Actors, n, out \in SwapAmounts :
            Swap(s, offer, n, ask, out, recipient) \/ SwapCw20(s, offer, n, ask, out, recipient) =>
              SwapExact(ask)
    ]_<<coins, tokens, holdings>>
=============================================================================

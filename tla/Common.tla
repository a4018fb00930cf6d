------------------------------- MODULE Common -------------------------------
(***************************************************************************)
(* What the contracts share: packages/common, the chain's clock and one    *)
(* native coin.  Amounts are whole coins and percentages fractions of      *)
(* PercentOne, so that their product is rounded down as Decimal's is.      *)
(***************************************************************************)
EXTENDS Integers, FiniteSets, Sequences, Functions

CONSTANTS
  Actors,        \* who calls the contracts
  Managers,      \* owners and operators of the contracts beside the one looked at
  This,          \* the contract looked at
  Contracts,     \* the contracts that hold coins, This among them
  Names,         \* identifiers that are no address: names of components
  Apps,          \* app contracts
  ComponentsOf,  \* the address behind each name of their components
  NoApp,         \* app_contract before it is set
  PercentOne,    \* the atomics of Decimal::one()
  Wealth,        \* the coins each holder starts with
  Gifts,         \* amounts of coins that are sent to a contract without a message
  MaxClock       \* bound on time, for model checking

ASSUME CommonAssumption ==
  /\ IsFiniteSet(Actors) /\ IsFiniteSet(Contracts)
  /\ Managers \subseteq Actors /\ This \in Contracts /\ Actors \cap Contracts = {}
  /\ \A app \in Apps : DOMAIN ComponentsOf[app] \subseteq Names
  /\ NoApp \notin Apps
  /\ PercentOne \in Nat \ {0} /\ MaxClock \in Nat /\ Gifts \subseteq Nat \ {0}
  /\ Wealth \in [Actors \cup Contracts -> Nat]

VARIABLES
  coins,   \* the bank's balances
  clock    \* env.block.time

CommonInit == coins = Wealth /\ clock = 0

ClockTick == clock < MaxClock /\ clock' = clock + 1

\* Maps of cw-storage-plus: save and remove.
With(f, k, v) == [j \in DOMAIN f \cup {k} |-> IF j = k THEN v ELSE f[j]]
Without(f, k) == Restrict(f, DOMAIN f \ {k})

\* The balances after a payment from one holder to others, and the bank's check:
\* no message sends zero coins, and nobody sends more than there is.
AfterPayments(payer, pay) ==
  [h \in DOMAIN coins |-> coins[h] + pay[h] - (IF h = payer THEN SumFunction(pay) ELSE 0)]
Only(h, amount) == [g \in DOMAIN coins |-> IF g = h THEN amount ELSE 0]

BankSend(from, to, amount) ==
  /\ 0 < amount /\ amount <= coins[from]
  /\ coins' = AfterPayments(from, Only(to, amount))

\* AndrAddress::get_address: an identifier that is no address is looked up in
\* the app contract.
Resolves(identifier, app) ==
  identifier \in Names => app # NoApp /\ identifier \in DOMAIN ComponentsOf[app]
AddressOf(identifier, app) ==
  IF identifier \in Names THEN ComponentsOf[app][identifier] ELSE identifier

\* Decimal * Uint128
Portion(amount, percent) == (amount * percent) \div PercentOne

\* WithdrawalType::get_amount
WithdrawalKinds == {"all", "amount", "percent"}
CanWithdraw(w) == w.kind = "percent" => w.n <= PercentOne
WithdrawalAmount(w, balance) ==
  CASE w.kind = "all" -> balance
    [] w.kind = "percent" -> Portion(balance, w.n)
    [] w.kind = "amount" -> IF w.n <= balance THEN w.n ELSE balance
=============================================================================

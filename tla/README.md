# The Andromeda contracts in TLA+

Andromeda is a set of CosmWasm contracts ("ADOs") for tokens, sales, staking and
payments. This directory holds TLA+ modules of its contracts, translated from the
Rust source, TLC configurations that check them on small instances, and proofs
that TLAPS checks for every value of the constants. `PROJECT.json` is the index:
components, runs, the mutation each property is known to detect, the source lines
of every definition, the disagreements found, hazards and theorems.

    tlc -workers 2 -config MCAuction.cfg MCAuction     # a run: cfg and module
    tlapm AuctionProofs.tla                            # a proof module

## 1. The system

### How it executes

Every contract is a set of entry points over its own key-value storage. A
transaction calls one `execute`, which reads and writes storage and returns
messages; the messages (bank transfers, calls of other contracts) run after the
handler, depth first, in the same transaction, and if any of them fails everything
is reverted. Contracts hold coins and tokens on one account each, so the coins of
all users, auctions, batches or escrows are in one balance. Time is the time or
the height of the block and does not move within a transaction.

So in every module **an action is a whole transaction**: the handler and its
messages, atomically, and what makes a message fail (sending zero coins or more
than there are, moving a token the contract does not own) or panics (underflow,
index out of range) is a guard. There are no threads and no half-finished
handlers. What is hard is elsewhere:

* *interleaving of transactions* of several users, of anyone who may call the
  permissionless handlers, and of block time;
* *duplicated state*: counters, totals and flags kept beside what they summarise,
  or inferred from a balance or an owner;
* *work in pages*, over several transactions, while others act;
* *callbacks*: hooks from token contracts, queries of modules whose answers are
  stored and used later;
* *rounding*, and panics at the limits of a subtraction;
* *things that must happen in the end*, with nobody obliged to call.

### Components

State, operations, and what makes each right. "Modelled" says where; the rest is
listed with the reason in section 7.

| component | state | operations | hard part | correct if |
|---|---|---|---|---|
| lockdrop (`Lockdrop`) | positions, total, incentive pool, claim flags, phase windows | deposit, withdraw, add incentives, enable claims, claim, withdraw proceeds | two overlapping windows with inclusive ends, a shrinking withdrawal limit, pro-rata rounding, "paid" inferred from a balance | pool covers every claim, owner paid once, half stays locked |
| crowdfund (`Crowdfund`, `SaleOutcome`) | sale state, tokens for sale and their number, purchases per buyer | mint, start, purchase (any / by id), refund, end sale in pages | paging over a flattened map, counters, fees stored per purchase, consecutive sales | all served or all refunded, once; sale can be ended |
| vesting (`Vesting`) | batches, next id, staked coins | create batch, claim, claim all, delegate, undelegate, redelegate | coins staked while due, slashing, one balance for all batches | never ahead of the schedule, coins accounted for, paid in the end |
| rate-limiting-withdrawals (`RateLimit`) | accounts with latest withdrawal | deposit for anyone, withdraw | account read versus account written, truncated seconds | accounts backed, limit holds |
| auction (`Auction`) | auctions by id, latest id of a token, bids | start (by token hook), update, bid, cancel, claim | settled inferred from the token's owner, refund of beaten bids out of one balance, taxes | everyone charged exactly what they won or lead; token to the winner |
| timelock (`Timelock`) | escrows by owner and recipient | hold, release a page, release one | later deposits into an escrow, boundary of the condition, pages, shared balance | never early, never twice, in the end |
| cw20-staking (`Cw20Staking`, `AllocatedRewards`) | shares, pool, reward tokens with indexes, stakers' indexes and pending rewards | stake, unstake, claim, add reward token, update indexes | index arithmetic with rounding at two places, schedules over cycles, balances seen last time | rewards covered, none lost, shares backed |
| cw721 (`Cw721`) | tokens, approvals, transfer agreements, archive | mint, transfer, send, agreement, archive, burn, approve | hooks of modules around a transfer, payment by whoever sends, what survives a transfer or a burn | a price is paid, and once |
| cw721-bids (`Cw721Bids`) | bids by token | place, cancel, accept (by hook) | the transfer calls back; fees stored with the bid; expired bids | a bid ends in the token or in its coins |
| marketplace (`Marketplace`) | sales by id, latest of a token | start (hook), update, buy, cancel | a price that changes under the buyer, a sale repriced when it is over | token to the buyer who pays the seller, or back |
| cw721-staking (`Cw721Staking`) | staked tokens, allowed contracts, unbonding period | stake (hook), unstake, claim, settings | reward and token leave together, settings change meanwhile | every staked second paid once, token back |
| cw721-timelock (`Cw721Timelock`) | locked tokens | lock (hook), claim | claims by anybody, the same token locked again | not before its time, then to the recipient |
| wrapped-cw721 (`WrappedCw721`) | original of each wrapped token | wrap (hook), unwrap | wrapped tokens that are wrapped again | every wrapped token has its original in the wrapper |
| gumball (`Gumball`) | tokens for sale, price, switch | mint, buy, set sale details, required coin, switch | the list is kept apart from the token contract; random pick | what is for sale is there |
| merkle-airdrop (`MerkleAirdrop`) | stages, claims, amounts claimed | register, claim, burn | stages out of one balance, repeated burns | one leaf per user and stage; nothing after a burn |
| vault (`Vault`) | balances by user, strategy | deposit, withdraw, both through a strategy, change of strategy | ledger against balance, one user's deposit uses another's balance | what a user has falls only by the user's withdrawals |
| splitter, weighted-distribution-splitter (`Splitter`, `WeightedSplitter`) | recipients, shares, lock | send, update recipients (all or one), lock | rounding and remainder, names as recipients, all-or-nothing payment | each exact share, the rest returned |
| cw20 (`Cw20`) | balances, supply, allowances, price | transfer and send with hooks; mint, burn, allowances; purchases with a stablecoin | fees taken within the transfer, several modules | supply = balances; fees exact |
| ado-base (`AdoBase`) | owner, operators, app, modules with indexes, cached addresses, versions | ownership, operators, modules, cache, withdrawals, migration | module types unique across registering and altering; names that resolve only in an app | modules sound in every app |
| rates, address-list, receipt (`Rates`, `AddressList`, `Receipt`) | rates; addresses; receipts | hooks: fees of a transfer, permission, receipt | fees deducted or added, external rates | see cw20; receipts kept |
| app-contract, factory, primitive (`AppContract`, `Factory`, `Primitive`) | component names, addresses, owners; code ids; values | add component with reply, claim ownership, proxy, update address; registry; store | names reserved before they have an address | every component is found under its name |
| swapper (`Swapper`) | implementation address | swaps of native and cw20 assets | forwards whatever the implementation paid | asked asset to the recipient, nothing kept |
| `packages/common` (`Common`) | - | coins, rates, expirations, withdrawals, recipients | rounding | used inside the modules |

### How components interact

* A cw721 or cw20 token contract calls the contract it sends to (`Send` hooks):
  auctions start, stakes and incentives arrive that way. The hook runs after the
  token has moved, so the action moves the token and runs the handler.
* A contract with modules asks each of them by query: `OnExecute` may refuse,
  `OnTransfer` returns messages, `OnFundsTransfer` returns payments: part of them
  *deducted* from the amount (royalties), part *added* to it (taxes). `Cw20` asks
  the modules `Rates`, `AddressList` and `Receipt` themselves. In the sales of
  NFTs modules are modelled by the amounts they can ask for: constants `Royalties`,
  `Taxes`, `AdditiveTaxes`, chosen anew at each call, since rates may be changed at
  any time.
* A recipient, a module or a stored address may be the *name* of a component, which
  only the app contract of the ADO resolves (`Common!Resolves`, `AddressOf`).
* Rates, the cache of addresses and the app contract read the primitive contract;
  the app contract reads the factory's address there and code ids in the factory.
* cw721-bids is such a module of cw721: `Cw721Bids` composes the two (section 3).
* vesting delegates coins to the chain's staking module, which acts on its own
  (`Unbond`, `Slash`).

## 2. Modules

One module per contract, `MC*` for model values that a cfg cannot write, `*Proofs`
for theorems. Variables carry the names of the storage items or a comment naming
them; *history* variables (marked so) are read by properties only. Operators
ending in `Mutant`, preceded by "Bug:", are deliberately wrong versions of the
definition that follows; no specification uses them. They document, for each
property, a mistake it detects.

| module | lines modelled | notes |
|---|---|---|
| `Lockdrop` | lockdrop `contract.rs` | one action per handler; `Tick` moves time by any amount |
| `Crowdfund` | crowdfund `contract.rs` | `EndSale` has the code's three branches `RefundBatch`, `DeliverBatch`, `PayAndBurn`; buyers and tokens are naturals because pages go in key order |
| `SaleOutcome` | (what a sale promises) | abstract: a fate for all buyers, no batches and no counters |
| `Vesting` | vesting `contract.rs`, `state.rs`, `withdraw.rs` | the staking module as `Unbond`, `Slash` |
| `RateLimit` | rate-limiting `contract.rs` | ticks finer than the compared seconds |
| `Auction` | auction `contract.rs`, `state.rs` | the token contract as `nftOwner` and `TransferNft` |
| `Timelock` | timelock `contract.rs`, `state.rs`, `timelock.rs` | condition kinds as records |
| `AllocatedRewards` | cw20-staking `allocated_rewards.rs` | pure; the loop over cycles as a recursive function, and a second-by-second reference `DueUntil` |
| `Cw20Staking` | cw20-staking `contract.rs` | EXTENDS `AllocatedRewards` |
| `Cw721` | cw721 `contract.rs` | token contract; what it leaves to cw721-base is external |
| `Cw721Bids` | cw721-bids `contract.rs` | EXTENDS `Cw721`; `Transfer` composes the two |
| `Marketplace`, `Cw721Staking`, `Cw721Timelock`, `WrappedCw721`, `Gumball` | their `contract.rs`, `state.rs` | each EXTENDS `Cw721`: the contract and the collection it is used with |
| `NftVenues` | - | composes the six with the collection, one *venue* at a time beside users' own moves in the token contract |
| `NftCustody` | (what a custodian promises) | abstract: a token in custody is owed to one address |
| `Common`, `Primitive`, `AdoBase` | packages/common, primitive, packages/ado-base | the ADO: bank, clock, names, and the handlers every contract has |
| `Splitter`, `WeightedSplitter`, `Vault`, `MerkleAirdrop`, `Swapper` | their `contract.rs` | EXTEND `AdoBase` or `Common` |
| `Rates`, `AddressList`, `Receipt`, `Cw20` | their `contract.rs`, `ado-base/src/modules/hooks.rs` | `Cw20` EXTENDS the three: a transfer runs their hooks |
| `Factory`, `AppContract` | their `contract.rs`, `state.rs` | a component is its number; its owner is part of the state |
| `Ados` | - | composes these with `RateLimit` and `Cw20Staking`; `ado` says which contract a behaviour is about |
| `Sums` | - | lemmas about sums over finite sets and about division |

Numbers. A `Decimal` is a number of atoms, `DecimalOne` of them to one, with the
code's truncations in the code's places; 10^18 is replaced by a small value.
`Uint128` subtraction underflow is excluded by the guards or, in the contracts with
proofs, shown absent by type invariants; `MaxAmount` (lockdrop) and `MaxUint` (vesting) stand for the maximum
where a handler multiplies or adds without bound. Overflow is not modelled elsewhere.

## 3. What is checked

Bounds are small on purpose; for each run the text says why the interesting cases
occur. All runs set `CHECK_DEADLOCK FALSE`: time is bounded, and when it stands
still with nothing left to claim a contract really has nothing to do.

**lockdrop** (three users, deposit window 3, withdrawal window 2, deployed one
second before the phase; about 180 000 states). `DecimalOne` = 1000 and amounts up
to 6 with pools of 2 to 6 make withdrawal limits and rewards round; the time line
has instants before, on and after each boundary. `NativeCovered`: coins held and
paid to the owner are the coins locked, paid all at once and once, although "paid"
is a comparison of balances. `IncentivesCovered`: after a phase the pool covers all
claims still to come. `HalfStaysLocked`, `FrozenAfterPhase`, and `RewardsPaid`
(liveness). *Fairness*: `EnableClaims` and every user's `ClaimRewards` are weakly
fair: anybody may enable claims and each user gains by claiming.

**lockdrop_early_claims** (violation). `ClaimsAfterPhase`, the comment at
`contract.rs:372`, fails: the withdrawal window is also "not open" before it
begins. `IncentivesCovered` and `RewardsPaid` are therefore about claims enabled
after the phase.

**crowdfund** (two buyers, three tokens, minimum 2, wallet limit 2, two sales,
taxes that differ between purchases, overpayment, page limits 1 and 2). With three
tokens and limit 1 or 2 pages end within, at and past a buyer's purchases.
`SalesMatch` (the tokens held, those counted as available and the purchases agree
through every batch; `amount_transferred = amount_sold` means everyone is served),
`Solvent` (to the coin), `KeepsPromise`
(refinement of `SaleOutcome`: everyone is served or everyone is refunded, each
once, and a sale closes only when nothing is owed) and `FirstSaleEnds`. The
refinement maps the sale's flags to a fate, entries of `PURCHASES` to the tokens
bought, and their refunds to the escrow. *Fairness*: time, and `EndSale` with some
limit: anyone may call it and buyers, recipient and owner all wait for it.

**crowdfund_stuck** (violation, `SaleEnds`). After a first sale whose last page
ended with two purchases of one buyer, or held one purchase, that buyer keeps an
empty entry; if the next sale fails its refund panics for ever.

**vesting** (two batches, fixed, proportional and over-100% releases, lockup 1,
units 1 and 2, two validators, one slash). `NeverAhead`, `OnSchedule` (a batch no
claim left short was paid exactly its schedule), `Backed` (coins held, staked,
unbonding, slashed = what batches have left), `PaidInFull`. *Fairness*: time, and
`ClaimAll` up to the present with each limit: the owner, who alone may claim,
keeps claiming; without that nothing is owed to happen, so `PaidInFull` is a
statement about schedules (claims between releases do not push them away), not
about the owner. It is conditional on nothing being staked and on rates no claim
refuses.

**ratelimit_topup** (violation, `DepositAdds`). A deposit into another's existing
account is saved under the sender's key (`contract.rs:146`). The run `ados` checks
the contract with `MayTopUpOthers = FALSE`, without such deposits.

**auction** (three users, two tokens, at most two auctions at once or in sequence,
starts 1 and 2, time to 3). Two auctions sharing the balance are what could go
wrong in it, and the same token auctioned twice what could go wrong in "settled".
`Escrowed`, `Charged`, `OutcomesAgree` (state, history of bids, pages read from it
and payments tell the same outcome), `Immutable`, `WinnerGetsToken`.
Named restrictions: `PlainTransfers = FALSE` (tokens reach the contract through
`Send`; see section 5) and `AdditiveTaxes = {0}`. *Fairness*: time, and settling
of each token's auction, which anyone may do and the winner wants.

**auction_tax** (violation, `WinnerCanClaim`) lifts the second restriction: taxes
on top of a bid are paid from a balance that never received them.

**timelock** (two users, one of them a contract, two coins, all condition kinds,
page limits 1 and 2). `Accounted` (the balance is what the escrows hold, and per
recipient deposited = paid + in escrow), `KeepsItsCondition`, `PaidInTheEnd`. *Fairness*: blocks, and `ReleaseSpecificFunds` of each escrow,
which anyone may call and the recipient wants. `PaidInTheEnd` excepts escrows to
be delivered by message to an address that takes none.

**nft** (two people, a contract, one or two tokens; symmetric in the people; six
venues). Users do in the token contract what they like, so approvals and operators
given before a deposit, sends and transfers to a custodian, and second deposits all
occur. Bids: price 2, bids 1 and 2, royalty 1, tax 1, excess 1, purses that allow a
user to bid and to pay the price as well, so that both ways of paying meet in one
transfer; `Escrowed`, `BidSettled`, `PriceIsPaid`. Marketplace (two sales, two
prices, over- and underpayment), staking (time 3, rewards for 2 seconds so that they
may run out) and time lock: `CustodyKept`, the refinement of `NftCustody`;
`RewardsEarned`, `LockedUntilItsTime`. Wrapper (two tokens, two wrapped ids):
`WrappedBacked`. Gumball machine (two tokens, mints of two, two denominations):
`StockHeld`. Outside bids there are no transfer agreements (section 5). No liveness:
a bid, a sale or a stake may wait for ever.

**ados** (thirteen contracts, one per behaviour, about 290 000 states, two
minutes). Two people, a venue that other contracts and names stand for, one app with
one name that resolves and one that does not. The base's own handlers belong to
every contract and touch state of their own; they are looked at in three parts
(`modules`, `cache`, `funds`), and ownership, operators and app change in the
behaviours of `OwnedAdos`, where a handler reads them. What each part contains and
why its bound is enough:

* *modules*: up to three more registrations beside three modules at the start, a
  module by a name that resolves and by one that does not, registered before the app
  is known or after. `ModulesSound`.
* *splitter, weighted*: lists with one recipient twice, a name, shares that do not
  divide the amounts 1, 3 and 5, sums below and above one (refused), locks around the
  limits. `PaymentsExact`.
* *vault*: deposits of what is sent, of more and of less; two strategies that come
  to trust the vault and stop doing so. `VaultKept`, `BooksBalance`.
* *airdrop*: two stages, two trees, of which one has two leaves of a user; totals
  that have nothing to do with the tree; expiration. `AirdropFinal`, `BooksBalance`.
* *token*: the cw20 with all three modules or rates alone, percentages that round, a
  flat and an external rate, lists that are edited meanwhile. `PaymentsExact`,
  `BooksBalance`. *sale*: the same token without modules, with allowances and their
  sale. `BooksBalance`.
* *app*: two components, names taken, updated, claimed; a factory entry and its
  address in the primitive contract that come and go. `NamesResolve`.
* *swapper*: swaps both ways, an implementation that pays what it likes, stray
  assets before the swap, offers of coins and of cw20 tokens. `PaymentsExact`.
* *limit*: rate-limited withdrawals, limit 2, frequency 2 s of two ticks. `Limited`,
  `BooksBalance`.
* *staking*: cw20-staking with one reward token at a time, by balance or by one of
  two schedules, one that rounds and one that does not; time 0 to 3, pool up to 3;
  symmetric in the users. `RewardsCovered` (in atoms, fractions included),
  `OnSchedule` against the second-by-second reference over every combination of
  update times, `EarningsKept`, `NoDilution`, and in `BooksBalance` that shares are
  backed. Claims of several tokens at once, which fail together, are not exercised.

**receipts_stored** (violation, `ReceiptsKept`). The number of the next receipt is
computed and not saved (`receipt/src/state.rs:21`): all receipts are stored as 1.

## 4. What is proved

Every theorem holds for all users, amounts, windows and times permitted by the
modules' `ASSUME`s, which TLC also evaluates. `THEOREM`s are listed in
`PROJECT.json`; the argument of each module:

**LockdropProofs.** `IInv` is the checked invariants strengthened by: the total is
the sum of the positions; `Bookkeeping` (nothing is paid to the owner before the phase
ends, and no incentive leaves before claims are enabled); `Flags` (no withdrawal flag is up in the deposit window, and
while it is down after it the position is what it was at the close). Without the sum, a reward
`pool * locked[u] / total` has no bound; with it, `SumShares` (Sums) bounds the sum
of truncated shares by the pool. `MaxWithdrawalBounds` shows the limit at most half
after the deposit window from the code's decimals. Conclusions: `TypeCorrect`,
`TotalCorrect`, `ProceedsPaidOnce`, `PoolCoversRewards`, `HalfRemains`, `Frozen`.

**VestingProofs.** `IInv == TypeOK /\ NeverAhead /\ OnSchedule`: type correctness
needs `amountClaimed <= amount` and that last claims lie on the grid of releases,
which is `NeverAhead`; the minimum in a claim keeps both. `Backed` is a second
induction on top, over sums of batches and of validators (`SumChange`).
Conclusions: `TypeCorrect`, `NotAhead`, `Scheduled`, `AlwaysBacked`, `LockedStay`.

**AuctionProofs.** `IInv` is type correctness, `Charged`, `Holding` (a running
auction's token is with the contract, and a token with the contract has an auction
that is not cancelled) and `Fresh` (no bid before the start, and a bid has a
bidder). `Holding` is what `PlainTransfers` would break, so theorems
assume `~PlainTransfers`; `EscrowBacked` also assumes `AdditiveTaxes \subseteq {0}`.
`OutcomeInv` is a second induction on top: the history of bids matches the state,
and a token that is with the contract is unpaid (`Unpaid`), which is why "settled"
may be read off the holder. Pages need no induction: `ForwardPage`, `BackwardPage`.
Conclusions: `TypeCorrect`, `ChargedFairly`, `TermsStay`, `EscrowBacked`,
`OutcomeIsOne`.

**CrowdfundProofs.** `IInv` is `TypeOK` (an entry of `PURCHASES` names its buyer,
balances and counters are naturals), `Kept`, `Counted` and `Owed`: the parts of
`SalesMatch` and `Solvent` said over the entries of `PURCHASES`, plus what joins them
(until a sale is over, the funds to send and the fees to pay are together what
refunding everyone takes, so that a sale may turn either way; between sales there is
no purchase). The handlers work on one list, the entries flattened in the order of
their keys, and the proof is about places in it. `EnumerationExists` shows that
`Ascending` exists for any finite set of keys; `AllLaidOut`, by an induction over the
number of buyers, that each buyer's purchases fill an interval of the list and that
the intervals follow the keys (`Layout`). The first q of all purchases then cut each
entry in two (`Cut`), and what the books lose is what the prefix holds
(`PrefixBooks`, `BooksCut`). `BatchCuts` is the arithmetic of
`transfer_tokens_and_send_funds`: for every limit, the entries it removes and the one
it shortens are what this cut leaves, empty entries included. The refinement maps
steps one by one: a batch is a `Deliver` of the tokens of the prefix (`HandedOver`:
a buyer keeps what was not delivered and its coins fall to zero with the last token),
a `Refund`, a `BurnRest` or a `Close`. Conclusions: `TypeCorrect`,
`SalesAlwaysMatch`, `AlwaysSolvent`, `PromiseImplemented`.

**TimelockProofs.** `IInv == TypeOK /\ Accounted`: the balance as the sum of the
escrows, and for each recipient deposited = paid + in escrow, over any set of
escrows; the page a release takes is a subset of the recipient's, and the sums over
it and over the rest make the whole (`SumPartition`). `KeepsItsCondition` follows
step by step. Conclusions: `TypeCorrect`, `BooksAgree`, `ConditionStays`.

**NftProofs** (over `VenuesSpec`). `NftInv` is `LedgerOK` (the token contract's
state; *no approval speaks for an address that does not act by itself*, which keeps
a custodian's tokens where they are), `NoAgreement` and `Idle` (what the venues that
are not looked at hold), and one invariant for each venue: bids are escrowed and
coins conserved; what is on sale, staked or locked is held; rewards are paid for
seconds staked; wrapped tokens have different originals; the list of the machine is
held. There is one lemma for each handler, and for each venue one of what a step
elsewhere leaves alone (`BidsIdle`, `MarketIdle`, ...). `CustodyImplemented` is the refinement of `NftCustody`:
the initial states map, and each step is a deposit, a return, a sale, a move
elsewhere or a stutter of the abstract specification. Conclusions: `BidsEscrowed`,
`BidsSettle`, `PricesArePaid`, `RewardsAreEarned`, `WrappedAreBacked`,
`StockIsHeld`, `LocksHold`, `CustodyImplemented`.

**AdosProofs** (over `AdosSpec`). `AdosInv` is a conjunction of invariants of parts
that share little, each with a lemma of the frame (which steps touch it):

* `AppInv`: `NamesResolve`, with as many owners as descriptors.
* `ModulesInv`: `ModulesSound` with indexes that are naturals; a new module passes
  the checks of `register_module`, an altered one is checked against the others.
* `MoneyInv`: balances are naturals; `VaultInv`, the vault's books and each
  strategy's are sums that the balances cover; `AirdropInv`, what was paid is a sum
  per stage, a payment has its claim, and burned stages have expired.
* `TokenInv`: supply = sum of balances, through transfers whose fees are a recursive
  function over the list of rates and each rate's recipients (`AfterFeesIs`): what
  matters is only that each payment moves an amount between holders.
* `SwapperInv`: every asset has a whole number in the book of every holder, the
  implementation included, which may be an address that had no account.
* `StakingInv`: for each reward token, the staker's index is not ahead (`Behind`),
  and the pending rewards and the unvisited gains of all stakers, in atoms, are
  covered by the balance last seen or by what the schedule released (`Covered`);
  tokens not added are `Untouched`. `VisitCovers` and `VisitGains` carry the two
  truncations of an index update and of a visit; `SettleKeeps` composes them.
* `ScheduleInv`: each allocated token is `OnTrack`: what it has released, times the
  length of a cycle, is at most what the reference has due at the time of the last
  distribution, and just that where nothing rounds; and it is to go on at the rate
  the reference has for the cycle it is in. The second part is what makes the first
  inductive.

`PaymentsExact` takes one argument for each part. What a splitter's recipient gets
is a sum of truncated shares over its entries in the list, short by less than a coin
for each (`SharesExact`, over `SumTruncated`). A transfer's fees are followed along
the list: after the first k payments each holder has what `FeesUpTo` k adds up to
(`AfterFeesGive`), and a percentage divided back by the rate is at most a coin above
its exact part (`InverseBound`, `FeeFacts`). A swap leaves the swapper nothing of
the asked asset, whatever the implementation paid, even where the payer, the
implementation, the recipient and the swapper are not all different
(`SwapPaysExactly`).

`OnSchedule` relates two loops. The reference adds up second by second, the code
cycle by cycle from wherever it was last called. Both are functions of a loop that
exists (`DueLoop`, `RewardLoop`, `DistributionIs`), and one step further of the
reference is an equation (`DueNext`, `RewardsNext`). Within a cycle every second is
due the same (`DueSpan`), so that a span in it is due its length times the reward,
of which the truncated rate releases no more (`SpanDistributed`). The invariant of
the code's loop is `Reached`: after cycle k the loop stands at the end of cycle k
with the reward of k + 1, or at the current time with the current one, and has
released what is due up to there (`CycleReached`, `DistributionOnTrack`).

`LimitInv` is apart, since it needs `~MayTopUpOthers`: a deposit into an existing
account of another is saved under the sender's key (section 3, `ratelimit_topup`),
which breaks both the books of the accounts and the limit. `WithdrawalsLimited` and
`BooksAreBacked` have this hypothesis; the others have none. Conclusions also:
`ComponentsResolve`, `ModulesStaySound`, `RewardsStayCovered`, and the action
properties `VaultIsKept`, `AirdropIsFinal`, `PaymentsAreExact`, `EarningsAreKept`,
`SharesUndiluted`, and `RewardsOnSchedule`.

What these proofs assume of the constants beyond their types: `Actors` and
`Contracts` are finite and disjoint (addresses of people and of contracts), coins
and tokens start as naturals, amounts of messages are `Uint128`, rates pay addresses
that are on the token's books (balances of others start at 0), and the limits, swapped
amounts and schedules are naturals. TLC evaluates each `ASSUME` in the runs of its module.

**Sums** proves, from the definition of the library's fold, that the sum over a
finite set splits off an element, changes by a difference, is monotone, splits
along a partition and along the values of a function, and that
truncated shares add up to at most the whole. The fold is shown equal to a table
over subsets, since it cannot be unfolded directly. `LoopExists` and `LoopInvariant`
say when a function defined by recursion over a list exists and what each of its
values satisfies: the induction is over the naturals, for one set of states given in
advance, which the provers can do.

**Only model-checked:** liveness (`RewardsPaid`, `FirstSaleEnds`, `PaidInFull`,
`WinnerGetsToken`, `PaidInTheEnd`), since fairness and `ENABLED` are beyond the
prover. Every safety invariant and action property of a passing run is a theorem;
two of them, as said, under `~MayTopUpOthers`.

No module declares a `RECURSIVE` operator.

## 5. Disagreements with documentation

Five are runs (section 3). Others met while translating, not run:

* **vesting**: `claim_all` measures every batch against the whole balance
  (`contract.rs:456`), so when coins are staked the sum can exceed it and the call
  fails although single claims succeed. Modelled as the guard `ClaimAllSucceeds`.
* **vesting**: a batch with a rate over one is accepted and can never be claimed.
* **auction**: a token sent to the contract by plain `TransferNft` after its
  auction was settled makes the old auction claimable again (`contract.rs:443`).
* **timelock**: `ReleaseFunds` releases one page of a recipient's escrows where
  `timelock.rs:138` says all; and one undeliverable escrow fails its page.
* **cw20-staking**: an unstake of more than the staker's worth is refused only by
  the share count; a claim fails for all tokens if one is short.
* **lockdrop**: deposits and withdrawals are both open in the last second of the
  deposit window, where a user may still withdraw more than once.
* **cw721**: with an agreement the owner's own transfer pays the owner the price
  out of the contract's balance, and an approved spender must pay it as well;
  `SendNft` moves archived tokens and ignores agreements; agreements outlive
  transfers and burns.
* **cw721-bids**: an accepted bid is paid to the *sender* of the transfer, "assumed
  to be the original owner" (`contract.rs:361`), who may be an approved spender; a
  bidder who came to own the token otherwise gets the bid less its fees back by a
  transfer to itself; a bid of zero can neither be cancelled nor replaced; an
  expired bid blocks transfers to its bidder.
* **transfer agreements** outlive `SendNft`: a custodian (marketplace, staking,
  time lock) that holds a token with an agreement must pay its price to give it
  back. Archived tokens can be sent by `SendNft` and are then stuck.
* **marketplace**: `UpdateSale` does not look at the status of a sale, and what is
  paid above the price is kept.
* **cw721-staking**: the query of a staked token computes the reward until now even
  while the token unbonds, when it no longer grows (`contract.rs:351`).
* **gumball**: the sale's recipient is stored and never paid (`contract.rs:319`);
  the maximum per wallet is not enforced; the required coin may change while the
  machine sells.
* **wrapped-cw721**: the check against wrapping twice (`contract.rs:141`) never
  fires.
* **merkle-airdrop**: a stage can be burned repeatedly (`contract.rs:241`), and a
  stage's total is unrelated to its tree.
* **vault**: a deposit to a strategy makes up what the sender lacks from the
  recipient's balance (`contract.rs:134`), so anybody can move another's balance into
  the strategy; what is sent beyond the amount named is credited to nobody; a change
  of strategy leaves positions in the old one, out of the vault's reach.
* **splitters**: "Limit number of coins sent to 5" is `len < 5`; the weighted
  splitter checks neither weights nor duplicates of the list it starts with.
* **rates**: "always round any remainder up" (`rates.rs:163`) also raises exact fees
  whose rate has no finite inverse: 30% of 10 is 4. The model has this: a fee is at
  most one coin above its exact part.
* **ado-base**: module indexes are keyed as strings, so that "10" comes before "2";
  after a migration the reported version is that of the ado-base package
  (`ado-base/src/execute.rs:187`).
* **factory**: `UpdateAddress` and `Create` have no effect (`contract.rs:98`).
* **cw20**: `IncreaseAllowancePurchase` as a message takes any owner; `TransferFrom`
  asks no rates; a price of zero makes purchases panic.
* **app-contract**: addresses are read from the name "1" on (`state.rs:30`), so names
  that sort before it are skipped when all components are claimed; claiming all fails
  once one has been claimed.

## 6. Plan

Written, in this order: Lockdrop, Crowdfund with SaleOutcome, Vesting, RateLimit,
Auction, Timelock, AllocatedRewards and Cw20Staking, Cw721 with Cw721Bids; proofs for
Lockdrop, Vesting and Auction; then the contracts NFTs are sent to, with NftCustody,
and the contracts built on ado-base, composed in Ados; then the proofs for Timelock,
NftVenues, Ados and the Crowdfund. Contracts that hold other
people's coins over time came first.

No safety property of a run is left to prove. What could be proved next is what the
liveness arguments rest on that is not itself liveness: that the actions assumed to
be fair are possible wherever they are needed, which wants `ENABLED`-free statements
of their guards. What is left to model: real rates in the auction and the crowdfund in place of constants.

Runs stay few: one per contract or composition, and a violation run only for a
disagreement worth demonstrating.

## 7. Not modelled

* `andromeda-testing`: mocks. `defunct/`: adapters to Anchor, Astroport and Mirror that
  the repository has retired; they translate messages for contracts that are not here.
* `migrate` is modelled once (`AdoBase!Migrate`): the 26 entry points are the same.
* Queries, except those contracts ask one another and the pages of bids; parsing,
  wording of errors and events; `AndrReceive` wrapping, which hands its data to the
  same handlers.
* Owners change in the run `ados`; in the sales and schedules of the other runs the
  owner is a constant, and address resolution (`Recipient`, component names) is taken
  as fixed.
* lockdrop: delegated incentives, which no handler sets.
* vesting: coins sent to the contract outside a batch, staking rewards (withdrawn to
  the owner by the staking module) and votes.
* auction: expirations by height; whitelists as sets of users.
* cw20-staking: overflow of `Decimal`; cw20 tokens that misbehave.
* cw721: prices read from a primitive contract; fees paid to ADO recipients by
  message, which `get_tax_amount` does not count; batch minting beyond one token.
* rates: a flat fee in another denomination than the funds transferred.
* vault: one coin, one type of strategy; a strategy that earns or loses.
* merkle-airdrop: hashing; a tree is the set of leaves it proves.
* factory: `Create`, which is commented out.

----------------------------- MODULE Crowdfund ------------------------------
(***************************************************************************)
(* The crowdfund contract, contracts/non-fungible-tokens/                  *)
(* andromeda-crowdfund.                                                    *)
(*                                                                         *)
(* The owner mints tokens into the contract and starts a sale.  Buyers pay *)
(* in advance; the contract keeps the coins and the tokens.  When the sale *)
(* is over, repeated calls of EndSale, which anyone may make, work through *)
(* it in batches: if enough was sold the purchased tokens are delivered,   *)
(* the funds are sent and the remaining tokens are burned, and otherwise   *)
(* buyers are refunded and all tokens are burned.                          *)
(*                                                                         *)
(* Buyers and tokens are naturals, ordered as the keys of the storage maps *)
(* are.  A transaction that fails anywhere reverts, so a panic or a failed *)
(* message is a guard.                                                     *)
(***************************************************************************)
EXTENDS Integers, Sequences, FiniteSets, SequencesExt

CONSTANTS
  Buyers, Tokens,     \* naturals, in the order of the map keys
  CanMintAfterSale,   \* config.can_mint_after_sale
  Prices, MinTokens, WalletLimits, Expirations,  \* inputs of StartSale
  Taxes, Royalties,   \* what the rates module may ask per token, on top of
                      \* the price and out of it; it can change during a sale
  Excess,             \* coins a buyer may send above what is asked
  Limits,             \* limits of EndSale, already capped at MAX_LIMIT
  MaxTime, MaxSales   \* bounds, for model checking

ASSUME CrowdfundAssumption ==
  /\ Buyers \subseteq Nat /\ Tokens \subseteq Nat
  /\ IsFiniteSet(Buyers) /\ IsFiniteSet(Tokens)
  /\ CanMintAfterSale \in BOOLEAN
  /\ \A S \in {Prices, MinTokens, WalletLimits, Expirations, Taxes, Royalties, Excess} :
       S \subseteq Nat
  /\ Limits \subseteq Nat \ {0}
  /\ MaxTime \in Nat /\ MaxSales \in Nat

VARIABLES
  now,              \* the block time expirations are compared with
  sale,             \* STATE
  saleConducted,    \* SALE_CONDUCTED
  numberAvailable,  \* NUMBER_OF_TOKENS_AVAILABLE
  available,        \* AVAILABLE_TOKENS
  purchases,        \* PURCHASES, defined on the buyers that have an entry
  owner,            \* the owners kept by the token contract
  held,             \* the contract's balance of the coin
  stuck,            \* history: excess the contract has kept
  refunded,         \* history: what each buyer has been refunded
  sales             \* history: number of sales started

vars == <<now, sale, saleConducted, numberAvailable, available, purchases, owner,
          held, stuck, refunded, sales>>

Contract == -1   \* owner of tokens that are for sale
Outside == -2    \* owner of tokens set aside when they were minted
Nobody == -3     \* not minted, or burned

NoSale == [on |-> FALSE, expiration |-> 0, price |-> 0, min |-> 0, max |-> 0,
           sold |-> 0, toSend |-> 0, transferred |-> 0]
-----------------------------------------------------------------------------
Held == {t \in Tokens : owner[t] = Contract}

\* The n smallest elements, the way storage maps are paged.
FirstOf(S, n) == {x \in S : Cardinality({y \in S : y < x}) < n}

\* The elements of a set in the order of the map keys.
Ascending(S) ==
  CHOOSE f \in [1 .. Cardinality(S) -> S] :
    \A i, j \in 1 .. Cardinality(S) : i < j => f[i] < f[j]

EntryOf(b) == IF b \in DOMAIN purchases THEN purchases[b] ELSE << >>

\* All purchases, by buyer.
AllPurchases ==
  LET order == Ascending(DOMAIN purchases)
  IN  FlattenSeq([i \in DOMAIN order |-> purchases[order[i]]])

SumTax(ps) == SumFunction([i \in DOMAIN ps |-> ps[i].tax])
SumFees(ps) == SumFunction([i \in DOMAIN ps |-> ps[i].fees])

\* process_refund: price and tax of every purchase of one buyer.
RefundOf(ps) == sale.price * Len(ps) + SumTax(ps)

Expired == sale.expiration <= now
SaleOpen == sale.on /\ ~Expired
\* The guard of EndSale.
SaleOver == sale.on /\ (Expired \/ numberAvailable = 0)
Failed == sale.sold < sale.min
-----------------------------------------------------------------------------
Init ==
  /\ now = 0
  /\ sale = NoSale
  /\ saleConducted = FALSE
  /\ numberAvailable = 0
  /\ available = {}
  /\ purchases = [b \in {} |-> << >>]
  /\ owner = [t \in Tokens |-> Nobody]
  /\ held = 0
  /\ stuck = 0
  /\ refunded = [b \in Buyers |-> 0]
  /\ sales = 0

Tick ==
  /\ now < MaxTime
  /\ now' = now + 1
  /\ UNCHANGED <<sale, saleConducted, numberAvailable, available, purchases, owner,
                 held, stuck, refunded, sales>>

\* Mints the tokens T, of which only those in S stay with the contract and are
\* for sale.  The token contract refuses an id that is taken.
Mint(T, S) ==
  /\ T # {}
  /\ ~sale.on
  /\ CanMintAfterSale \/ ~saleConducted
  /\ \A t \in T : owner[t] = Nobody
  /\ owner' = [t \in Tokens |-> IF t \in S THEN Contract
                                ELSE IF t \in T THEN Outside ELSE owner[t]]
  /\ available' = available \cup S
  /\ numberAvailable' = numberAvailable + Cardinality(S)
  /\ UNCHANGED <<now, sale, saleConducted, purchases, held, stuck, refunded, sales>>

StartSale(expiration, price, min, max) ==
  /\ sales < MaxSales
  /\ expiration > now
  /\ ~sale.on
  /\ sale' = [on |-> TRUE, expiration |-> expiration, price |-> price, min |-> min,
              max |-> max, sold |-> 0, toSend |-> 0, transferred |-> 0]
  /\ saleConducted' = TRUE
  /\ sales' = sales + 1
  /\ UNCHANGED <<now, numberAvailable, available, purchases, owner, held, stuck, refunded>>

\* Bug: the number of tokens left is reduced in the loop and again after it.
PurchaseTokensMutant(b, ids, tax, royalty, excess) ==
  /\ ids # << >>
  /\ royalty <= sale.price
  /\ purchases' = [c \in DOMAIN purchases \cup {b} |->
       IF c = b
       THEN EntryOf(b) \o [i \in DOMAIN ids |->
              [token |-> ids[i], tax |-> tax, fees |-> royalty + tax, purchaser |-> b]]
       ELSE purchases[c]]
  /\ sale' = [sale EXCEPT !.toSend = @ + Len(ids) * (sale.price - royalty),
                          !.sold = @ + Len(ids)]
  /\ available' = available \ ToSet(ids)
  /\ numberAvailable' = numberAvailable - 2 * Len(ids)
  /\ held' = held + Len(ids) * (sale.price + tax) + excess

\* purchase_tokens: what the handlers of a purchase share.  The payment is the
\* price and the tax of each token, and of the excess what is not sent back.
PurchaseTokens(b, ids, tax, royalty, excess) ==
  /\ ids # << >>
  /\ royalty <= sale.price
  /\ purchases' = [c \in DOMAIN purchases \cup {b} |->
       IF c = b
       THEN EntryOf(b) \o [i \in DOMAIN ids |->
              [token |-> ids[i], tax |-> tax, fees |-> royalty + tax, purchaser |-> b]]
       ELSE purchases[c]]
  /\ sale' = [sale EXCEPT !.toSend = @ + Len(ids) * (sale.price - royalty),
                          !.sold = @ + Len(ids)]
  /\ available' = available \ ToSet(ids)
  /\ numberAvailable' = numberAvailable - Len(ids)
  /\ held' = held + Len(ids) * (sale.price + tax) + excess

\* Up to n tokens, the first that are available; what was sent above their
\* cost is sent back in the same transaction.
Purchase(b, n, tax, royalty) ==
  LET possible == sale.max - Len(EntryOf(b))
      wanted == IF n < possible THEN n ELSE possible
      ids == Ascending(FirstOf(available, wanted))
  IN  /\ SaleOpen
      /\ possible > 0
      /\ PurchaseTokens(b, ids, tax, royalty, 0)
      /\ UNCHANGED <<now, saleConducted, owner, stuck, refunded, sales>>

\* One chosen token; here an excess is kept.
PurchaseByTokenId(b, t, tax, royalty, excess) ==
  /\ SaleOpen
  /\ t \in available
  /\ sale.max - Len(EntryOf(b)) > 0
  /\ PurchaseTokens(b, <<t>>, tax, royalty, excess)
  /\ stuck' = stuck + excess
  /\ UNCHANGED <<now, saleConducted, owner, refunded, sales>>

\* Bug: a buyer of a sale that may still succeed can ask the money back.
ClaimRefundMutant(b) ==
  /\ sale.on /\ Expired
  /\ EntryOf(b) # << >>
  /\ held >= RefundOf(purchases[b])
  /\ purchases' = Restrict(purchases, DOMAIN purchases \ {b})
  /\ held' = held - RefundOf(purchases[b])
  /\ refunded' = [refunded EXCEPT ![b] = @ + RefundOf(purchases[b])]
  /\ UNCHANGED <<now, sale, saleConducted, numberAvailable, available, owner, stuck, sales>>

\* process_refund reads the first purchase of the entry, and panics if there
\* is none.
ClaimRefund(b) ==
  /\ sale.on /\ Expired
  /\ Failed
  /\ EntryOf(b) # << >>
  /\ held >= RefundOf(purchases[b])
  /\ purchases' = Restrict(purchases, DOMAIN purchases \ {b})
  /\ held' = held - RefundOf(purchases[b])
  /\ refunded' = [refunded EXCEPT ![b] = @ + RefundOf(purchases[b])]
  /\ UNCHANGED <<now, sale, saleConducted, numberAvailable, available, owner, stuck, sales>>

\* get_burn_messages: up to limit tokens that the contract owns.  They leave
\* AVAILABLE_TOKENS, and NUMBER_OF_TOKENS_AVAILABLE stays as it is.
Burn(burned) ==
  /\ owner' = [t \in Tokens |-> IF t \in burned THEN Nobody ELSE owner[t]]
  /\ available' = available \ burned

\* clear_state
ClearState == sale' = NoSale /\ numberAvailable' = 0

\* issue_refunds_and_burn_tokens
RefundBatch(limit) ==
  LET batch == FirstOf(DOMAIN purchases, limit)
      burned == FirstOf(Held, limit)
      back == [b \in Buyers |-> IF b \in batch THEN RefundOf(purchases[b]) ELSE 0]
  IN  /\ \A b \in batch : purchases[b] # << >>
      /\ held >= SumFunction(back)
      /\ held' = held - SumFunction(back)
      /\ refunded' = [b \in Buyers |-> refunded[b] + back[b]]
      /\ purchases' = Restrict(purchases, DOMAIN purchases \ batch)
      /\ Burn(burned)
      /\ IF burned = {} /\ batch = {} THEN ClearState ELSE UNCHANGED <<sale, numberAvailable>>

\* Bug: the funds are sent and remain recorded as still to be sent.
PayAndBurnMutant(limit) ==
  LET burned == FirstOf(Held, limit)
  IN  /\ held >= sale.toSend
      /\ held' = held - sale.toSend
      /\ Burn(burned)
      /\ IF burned = {} THEN ClearState ELSE UNCHANGED <<sale, numberAvailable>>
      /\ UNCHANGED <<purchases, refunded>>

\* transfer_tokens_and_send_funds, once every purchase has been transferred:
\* the funds are sent once and what was not sold is burned.
PayAndBurn(limit) ==
  LET burned == FirstOf(Held, limit)
  IN  /\ held >= sale.toSend
      /\ held' = held - sale.toSend
      /\ Burn(burned)
      /\ IF burned = {} THEN ClearState
         ELSE sale' = [sale EXCEPT !.toSend = 0] /\ UNCHANGED numberAvailable
      /\ UNCHANGED <<purchases, refunded>>

\* Bug: the batch ends at the limit, and the last purchaser's entry is removed
\* whether or not the batch reached its end.
DeliverBatchMutant(limit) ==
  LET all == AllPurchases
      batch == SubSeq(all, 1, IF limit < Len(all) THEN limit ELSE Len(all))
      removed == {batch[i].purchaser : i \in DOMAIN batch}
  IN  /\ all # << >>
      /\ held >= SumFees(batch)
      /\ purchases' = Restrict(purchases, DOMAIN purchases \ removed)
      /\ owner' = [t \in Tokens |->
           IF \E i \in DOMAIN batch : batch[i].token = t
           THEN batch[CHOOSE i \in DOMAIN batch : batch[i].token = t].purchaser
           ELSE owner[t]]
      /\ sale' = [sale EXCEPT !.transferred = @ + Len(batch)]
      /\ held' = held - SumFees(batch)
      /\ UNCHANGED <<numberAvailable, available, refunded>>

\* transfer_tokens_and_send_funds, while purchases remain: transfers the first
\* limit purchases and pays their taxes and royalties.  One purchase more is
\* read, to see whether the last purchaser of the batch has others left; the
\* entry of that purchaser is removed, or cut to what is left.  Nothing to read
\* is an index out of range, and the token contract only moves tokens that the
\* contract owns.
DeliverFirst(all, limit) ==
  LET taken == SubSeq(all, 1, IF limit + 1 < Len(all) THEN limit + 1 ELSE Len(all))
      n == Len(taken)
      last == taken[IF n = 1 THEN 1 ELSE n - 1].purchaser
      removeLast == last # taken[n].purchaser
      batch == IF n = limit + 1 THEN Front(taken) ELSE taken
      removed == {batch[i].purchaser : i \in DOMAIN batch} \ (IF removeLast THEN {} ELSE {last})
      done == Cardinality({i \in DOMAIN batch : batch[i].purchaser = last})
  IN  /\ all # << >>
      /\ \A i \in DOMAIN batch : owner[batch[i].token] = Contract
      /\ held >= SumFees(batch)
      /\ purchases' = [b \in DOMAIN purchases \ removed |->
           IF b = last THEN SubSeq(purchases[b], done + 1, Len(purchases[b]))
           ELSE purchases[b]]
      /\ owner' = [t \in Tokens |->
           IF \E i \in DOMAIN batch : batch[i].token = t
           THEN batch[CHOOSE i \in DOMAIN batch : batch[i].token = t].purchaser
           ELSE owner[t]]
      /\ sale' = [sale EXCEPT !.transferred = @ + Len(batch)]
      /\ held' = held - SumFees(batch)
      /\ UNCHANGED <<numberAvailable, available, refunded>>

DeliverBatch(limit) ==
  \E all \in {AllPurchases} : DeliverFirst(all, limit)   \* evaluated once

\* Bug: a sale that reached its minimum only when the time was up is refunded.
EndSaleMutant(limit) ==
  /\ SaleOver
  /\ \/ sale.sold <= sale.min /\ RefundBatch(limit)
     \/ sale.sold > sale.min /\ sale.transferred = sale.sold /\ PayAndBurn(limit)
     \/ sale.sold > sale.min /\ sale.transferred # sale.sold /\ DeliverBatch(limit)
  /\ UNCHANGED <<now, saleConducted, stuck, sales>>

EndSale(limit) ==
  /\ SaleOver
  /\ \/ Failed /\ RefundBatch(limit)
     \/ ~Failed /\ sale.transferred = sale.sold /\ PayAndBurn(limit)
     \/ ~Failed /\ sale.transferred # sale.sold /\ DeliverBatch(limit)
  /\ UNCHANGED <<now, saleConducted, stuck, sales>>

Next ==
  \/ Tick
  \/ \E T \in SUBSET Tokens : \E S \in SUBSET T : Mint(T, S)
  \/ \E expiration \in Expirations, price \in Prices, min \in MinTokens, max \in WalletLimits :
       StartSale(expiration, price, min, max)
  \/ \E b \in Buyers, tax \in Taxes, royalty \in Royalties :
       \/ \E n \in 1 .. sale.max : Purchase(b, n, tax, royalty)
       \/ \E t \in Tokens, excess \in Excess : PurchaseByTokenId(b, t, tax, royalty, excess)
  \/ \E b \in Buyers : ClaimRefund(b)
  \/ \E limit \in Limits : EndSale(limit)

Spec == Init /\ [][Next]_vars

\* Time passes, and somebody keeps calling EndSale: buyers and the recipient
\* are owed tokens or coins, and anyone may call it.
FairSpec ==
  /\ Spec
  /\ WF_vars(Tick)
  /\ WF_vars(\E limit \in Limits : EndSale(limit))
-----------------------------------------------------------------------------
\* A sale that will be, or is being, refunded.
Refunding == SaleOver /\ Failed

\* A purchased token stays with the contract, unavailable and bought once,
\* until it is delivered or the sale fails; and no purchase outlives its sale.
PurchasedTokensKept ==
  LET all == AllPurchases
  IN  /\ available \subseteq Held
      /\ ~Refunding =>
           \A i \in DOMAIN all :
             /\ all[i].token \in Held \ available
             /\ \A j \in DOMAIN all : all[j].token = all[i].token => i = j
      /\ ~sale.on => all = << >>

\* The counter that lets a sold out sale end early counts AVAILABLE_TOKENS;
\* only the burning of a sale that is over lets it fall behind.
CountMatches ==
  /\ Cardinality(available) <= numberAvailable
  /\ ~SaleOver => numberAvailable = Cardinality(available)

\* The purchases still stored are those sold and not transferred, so that
\* amount_transferred = amount_sold means that everyone has been served.
SoldMatches ==
  sale.on /\ ~Refunding => Len(AllPurchases) = sale.sold - sale.transferred

\* The three places that say what is sold agree through every batch: the tokens
\* the contract holds, those it counts as available, and the purchases.
SalesMatch == PurchasedTokensKept /\ CountMatches /\ SoldMatches

\* The contract holds, to the coin, what it still owes: the refunds of a sale
\* that failed, and otherwise the funds to send and the taxes and royalties of
\* the purchases not yet delivered.  Excess payments it has kept come on top.
Solvent ==
  held = stuck +
    IF Refunding THEN SumFunction([b \in Buyers |-> RefundOf(EntryOf(b))])
                 ELSE sale.toSend + SumFees(AllPurchases)

\* A sale, what each buyer waits for and what it paid, as SaleOutcome sees them.
Fate == IF ~sale.on THEN "none" ELSE IF ~SaleOver THEN "open"
        ELSE IF Failed THEN "refunding" ELSE "delivering"
Bought == [b \in Buyers |-> {EntryOf(b)[i].token : i \in DOMAIN EntryOf(b)}]
Escrow == [b \in Buyers |-> RefundOf(EntryOf(b))]

\* The contract keeps the promise of SaleOutcome: batches deliver or refund
\* each purchase once, everyone in a sale meets the same fate, and a sale is
\* cleared only when nothing is owed.
Promise ==
  INSTANCE SaleOutcome WITH
    fate <- Fate, forSale <- available, bought <- Bought, escrow <- Escrow

KeepsPromise == Promise!Spec

\* The first sale of a contract ends, whatever limits its batches are called
\* with: each call of EndSale that goes through gets somewhere.
FirstSaleEnds == sale.on /\ sales = 1 ~> ~sale.on

\* Every sale that was started ends.
SaleEnds == sale.on ~> ~sale.on
=============================================================================

------------------------------ MODULE Auction -------------------------------
(***************************************************************************)
(* The auction contract, contracts/non-fungible-tokens/andromeda-auction.  *)
(*                                                                         *)
(* An owner sends a token with the terms of an auction.  While it runs,    *)
(* bids are paid in full and the bid they beat is sent back.  When it is   *)
(* over anyone may settle it: the token goes to the highest bidder and the *)
(* bid to the owner.  The contract holds the coins of all its auctions     *)
(* together, and tells a settled auction from an open one by whether it    *)
(* still holds the token.                                                  *)
(***************************************************************************)
EXTENDS Integers, Sequences, FiniteSets, Functions

CONSTANTS
  Users, Tokens, Denoms,
  Contract,         \* the auction contract's own address
  StartTimes, Durations, MinBids, Whitelists,  \* terms an owner may choose
  BidAmounts,
  AdditiveTaxes,    \* what rates modules may add on top of a settled bid
  PlainTransfers,   \* whether users send tokens to the contract without terms
  MaxTime, MaxAuctions   \* bounds, for model checking

ASSUME AuctionAssumption ==
  /\ IsFiniteSet(Users) /\ IsFiniteSet(Tokens) /\ Contract \notin Users
  /\ StartTimes \subseteq Nat /\ Durations \subseteq Nat /\ MinBids \subseteq Nat
  /\ Whitelists \subseteq SUBSET Users
  /\ BidAmounts \subseteq Nat /\ AdditiveTaxes \subseteq Nat
  /\ PlainTransfers \in BOOLEAN
  /\ MaxTime \in Nat /\ MaxAuctions \in Nat

Nobody == "nobody"   \* Addr::unchecked("")
ASSUME NobodyAssumption == Nobody \notin Users

VARIABLES
  now,        \* env.block.time
  nextId,     \* NEXT_AUCTION_ID
  latest,     \* auction_infos(): the last of a token's auction ids, 0 for none
  auction,    \* TOKEN_AUCTION_STATE
  bids,       \* BIDS
  nftOwner,   \* cw721: who holds each token
  held,       \* the contract's balance of each coin
  spent,      \* history: what each user has paid in and not been sent back
  payouts     \* history: how often the bid of an auction was paid out

ledger == <<held, spent, payouts>>
vars == <<now, nextId, latest, auction, bids, nftOwner, held, spent, payouts>>

Terms == [start : Nat, end : Nat, denom : Denoms, minBid : Nat, whitelist : SUBSET Users]
State == [terms : Terms, highBidder : Users \cup {Nobody}, highAmount : Nat,
          owner : Users, token : Tokens, isCancelled : BOOLEAN]

Exists(t) == latest[t] # 0
Current(t) == auction[latest[t]]   \* get_existing_token_auction_state
Started(a) == a.terms.start <= now
Ended(a) == a.terms.end <= now

TermsOf(start, duration, denom, minBid, whitelist) ==
  [start |-> start, end |-> start + duration, denom |-> denom, minBid |-> minBid,
   whitelist |-> whitelist]
-----------------------------------------------------------------------------
Init ==
  /\ now = 0
  /\ nextId = 1
  /\ latest = [t \in Tokens |-> 0]
  /\ auction = [i \in {} |-> 0]
  /\ bids = [i \in {} |-> <<>>]
  /\ nftOwner \in [Tokens -> Users]
  /\ held = [d \in Denoms |-> 0]
  /\ spent = [u \in Users |-> [d \in Denoms |-> 0]]
  /\ payouts = [i \in {} |-> 0]

Tick ==
  /\ now < MaxTime
  /\ now' = now + 1
  /\ UNCHANGED <<nextId, latest, auction, bids, nftOwner, ledger>>

\* The token contract moves the token and calls execute_start_auction.
StartAuction(u, t, terms) ==
  /\ nftOwner[t] = u
  /\ 0 < terms.start /\ terms.start < terms.end
  /\ terms.start > now
  /\ nextId <= MaxAuctions
  /\ nftOwner' = [nftOwner EXCEPT ![t] = Contract]
  /\ latest' = [latest EXCEPT ![t] = nextId]
  /\ nextId' = nextId + 1
  /\ auction' = [i \in 1 .. nextId |->
                   IF i = nextId
                   THEN [terms |-> terms, highBidder |-> Nobody, highAmount |-> 0,
                         owner |-> u, token |-> t, isCancelled |-> FALSE]
                   ELSE auction[i]]
  /\ bids' = [i \in 1 .. nextId |-> IF i = nextId THEN <<>> ELSE bids[i]]
  /\ payouts' = [i \in 1 .. nextId |-> IF i = nextId THEN 0 ELSE payouts[i]]
  /\ UNCHANGED <<now, held, spent>>

\* Bug: the auction may be running already.
UpdateAuctionMutant(u, t, terms) ==
  /\ Exists(t) /\ Current(t).owner = u
  /\ 0 < terms.start /\ terms.start < terms.end
  /\ terms.start > now
  /\ auction' = [auction EXCEPT ![latest[t]].terms = terms]
  /\ UNCHANGED <<now, nextId, latest, bids, nftOwner, ledger>>

\* Also accepted for an auction that was cancelled before its start.
UpdateAuction(u, t, terms) ==
  /\ Exists(t) /\ Current(t).owner = u
  /\ ~Started(Current(t))
  /\ 0 < terms.start /\ terms.start < terms.end
  /\ terms.start > now
  /\ auction' = [auction EXCEPT ![latest[t]].terms = terms]
  /\ UNCHANGED <<now, nextId, latest, bids, nftOwner, ledger>>

\* What sending back the highest bid of a leaves of the ledger.
Refunded(a, l) ==
  IF a.highAmount = 0 THEN l ELSE [l EXCEPT ![a.highBidder][a.terms.denom] = @ - a.highAmount]

\* Bug: the bid that is beaten is not sent back.
PlaceBidMutant(u, t, amount) ==
  LET a == Current(t)  d == a.terms.denom  i == latest[t]
  IN  /\ Exists(t)
      /\ ~a.isCancelled /\ Started(a) /\ ~Ended(a)
      /\ a.owner # u /\ u \in a.terms.whitelist /\ a.highBidder # u
      /\ amount > 0 /\ amount >= a.terms.minBid /\ amount > a.highAmount
      /\ auction' = [auction EXCEPT ![i].highBidder = u, ![i].highAmount = amount]
      /\ bids' = [bids EXCEPT ![i] = Append(@, [bidder |-> u, amount |-> amount])]
      /\ held' = [held EXCEPT ![d] = @ + amount]
      /\ spent' = [spent EXCEPT ![u][d] = @ + amount]
      /\ UNCHANGED <<now, nextId, latest, nftOwner, payouts>>

\* Bug: a bid as high as the highest is accepted too.
PlaceBidTieMutant(u, t, amount) ==
  LET a == Current(t)  d == a.terms.denom  i == latest[t]
  IN  /\ Exists(t)
      /\ ~a.isCancelled /\ Started(a) /\ ~Ended(a)
      /\ a.owner # u /\ u \in a.terms.whitelist /\ a.highBidder # u
      /\ amount > 0 /\ amount >= a.terms.minBid /\ amount >= a.highAmount
      /\ auction' = [auction EXCEPT ![i].highBidder = u, ![i].highAmount = amount]
      /\ bids' = [bids EXCEPT ![i] = Append(@, [bidder |-> u, amount |-> amount])]
      /\ held' = [held EXCEPT ![d] = @ + amount - a.highAmount]
      /\ spent' = [Refunded(a, spent) EXCEPT ![u][d] = @ + amount]
      /\ UNCHANGED <<now, nextId, latest, nftOwner, payouts>>

PlaceBid(u, t, amount) ==
  LET a == Current(t)  d == a.terms.denom  i == latest[t]
  IN  /\ Exists(t)
      /\ ~a.isCancelled /\ Started(a) /\ ~Ended(a)
      /\ a.owner # u /\ u \in a.terms.whitelist /\ a.highBidder # u
      /\ amount > 0 /\ amount >= a.terms.minBid /\ amount > a.highAmount
      /\ held[d] + amount >= a.highAmount
      /\ auction' = [auction EXCEPT ![i].highBidder = u, ![i].highAmount = amount]
      /\ bids' = [bids EXCEPT ![i] = Append(@, [bidder |-> u, amount |-> amount])]
      /\ held' = [held EXCEPT ![d] = @ + amount - a.highAmount]
      /\ spent' = [Refunded(a, spent) EXCEPT ![u][d] = @ + amount]
      /\ UNCHANGED <<now, nextId, latest, nftOwner, payouts>>

\* is_cancelled is not checked: a second call fails on the token transfer.
CancelAuction(u, t) ==
  LET a == Current(t)
  IN  /\ Exists(t) /\ a.owner = u
      /\ ~Ended(a)
      /\ nftOwner[t] = Contract
      /\ held[a.terms.denom] >= a.highAmount
      /\ nftOwner' = [nftOwner EXCEPT ![t] = u]
      /\ held' = [held EXCEPT ![a.terms.denom] = @ - a.highAmount]
      /\ spent' = Refunded(a, spent)
      /\ auction' = [auction EXCEPT ![latest[t]].isCancelled = TRUE]
      /\ UNCHANGED <<now, nextId, latest, bids, payouts>>

\* execute_claim without a bid: the token goes back.
ClaimUnsold(t) ==
  LET a == Current(t)
  IN  /\ Exists(t) /\ Ended(a)
      /\ nftOwner[t] = Contract
      /\ a.highAmount = 0
      /\ nftOwner' = [nftOwner EXCEPT ![t] = a.owner]
      /\ UNCHANGED <<now, nextId, latest, auction, bids, ledger>>

\* Bug: the bid is paid out and the token stays.
ClaimMutant(t, tax) ==
  LET a == Current(t)  due == a.highAmount + tax
  IN  /\ Exists(t) /\ Ended(a)
      /\ nftOwner[t] = Contract
      /\ a.highAmount > 0
      /\ held[a.terms.denom] >= due
      /\ held' = [held EXCEPT ![a.terms.denom] = @ - due]
      /\ payouts' = [payouts EXCEPT ![latest[t]] = @ + 1]
      /\ UNCHANGED <<now, nextId, latest, auction, bids, nftOwner, spent>>

\* execute_claim, by anyone, of an auction with a bid.  Royalties are taken out
\* of the bid, of which something is left for the owner; taxes are paid on top
\* of it.  Neither is_cancelled nor an earlier settlement is looked at, only
\* who holds the token.
Claim(t, tax) ==
  LET a == Current(t)  due == a.highAmount + tax
  IN  /\ Exists(t) /\ Ended(a)
      /\ nftOwner[t] = Contract
      /\ a.highAmount > 0
      /\ held[a.terms.denom] >= due
      /\ nftOwner' = [nftOwner EXCEPT ![t] = a.highBidder]
      /\ held' = [held EXCEPT ![a.terms.denom] = @ - due]
      /\ payouts' = [payouts EXCEPT ![latest[t]] = @ + 1]
      /\ UNCHANGED <<now, nextId, latest, auction, bids, spent>>

\* cw721 TransferNft by the holder, which does not call the contract.
TransferNft(t, to) ==
  /\ nftOwner[t] # Contract
  /\ to = Contract => PlainTransfers
  /\ nftOwner' = [nftOwner EXCEPT ![t] = to]
  /\ UNCHANGED <<now, nextId, latest, auction, bids, ledger>>

Next ==
  \/ Tick
  \/ \E t \in Tokens :
       \/ \E u \in Users :
            \/ \E start \in StartTimes, duration \in Durations, denom \in Denoms,
                  minBid \in MinBids, whitelist \in Whitelists :
                 LET terms == TermsOf(start, duration, denom, minBid, whitelist)
                 IN  StartAuction(u, t, terms) \/ UpdateAuction(u, t, terms)
            \/ \E amount \in BidAmounts : PlaceBid(u, t, amount)
            \/ CancelAuction(u, t)
       \/ ClaimUnsold(t)
       \/ \E tax \in AdditiveTaxes : Claim(t, tax)
       \/ \E to \in Users \cup {Contract} : TransferNft(t, to)

Spec == Init /\ [][Next]_vars

\* Time passes, and somebody, the winner for one, settles what is over.
FairSpec ==
  /\ Spec
  /\ WF_vars(Tick)
  /\ \A t \in Tokens : WF_vars(ClaimUnsold(t) \/ \E tax \in AdditiveTaxes : Claim(t, tax))
-----------------------------------------------------------------------------
TypeOK ==
  /\ now \in Nat /\ nextId \in Nat \ {0}
  /\ latest \in [Tokens -> 0 .. nextId - 1]
  /\ auction \in [1 .. nextId - 1 -> State]
  /\ bids \in [1 .. nextId - 1 -> Seq([bidder : Users, amount : Nat])]
  /\ nftOwner \in [Tokens -> Users \cup {Contract}]
  /\ held \in [Denoms -> Nat]
  /\ spent \in [Users -> [Denoms -> Nat]]
  /\ payouts \in [1 .. nextId - 1 -> Nat]
  /\ \A t \in Tokens : Exists(t) => Current(t).token = t

\* The coins of denom d that the auction of t keeps.
Escrow(t, d) ==
  IF nftOwner[t] = Contract /\ Exists(t) /\ Current(t).terms.denom = d
  THEN Current(t).highAmount ELSE 0

\* The coins held are the highest bids of the auctions that are not settled,
\* in the coin each auction asks for now: every refund and payout finds its
\* coins, although all auctions share one balance.
Escrowed ==
  \A d \in Denoms : held[d] = SumFunctionOnSet([t \in Tokens |-> Escrow(t, d)], Tokens)

\* The price of auction i, if u has it to pay in d.
Price(i, u, d) ==
  IF auction[i].highBidder = u /\ ~auction[i].isCancelled /\ auction[i].terms.denom = d
  THEN auction[i].highAmount ELSE 0

\* What a user is out of pocket is the highest bids that are still theirs, won
\* or leading: a beaten or cancelled bid is refunded, once.
Charged ==
  \A u \in Users, d \in Denoms :
    spent[u][d]
      = SumFunctionOnSet([i \in DOMAIN auction |-> Price(i, u, d)], DOMAIN auction)

\* The history of bids agrees with the state: strictly rising, ending with the
\* highest, each by another bidder than the one before.
BidsAgree ==
  \A i \in DOMAIN auction :
    LET b == bids[i]  n == Len(bids[i])
    IN  /\ \A k \in 1 .. n - 1 : b[k].amount < b[k + 1].amount /\ b[k].bidder # b[k + 1].bidder
        /\ auction[i].highAmount = (IF n = 0 THEN 0 ELSE b[n].amount)
        /\ auction[i].highBidder = (IF n = 0 THEN Nobody ELSE b[n].bidder)

\* "The auction info can be modified before it has started but is immutable
\* after that" (auction.rs:49), and the outcome when it has ended.
Immutable ==
  [][\A i \in DOMAIN auction :
       LET a == auction[i]
       IN  /\ Started(a) => auction'[i].terms = a.terms
           /\ Ended(a) => auction'[i] = a]_vars

\* "Transfers the given token to the auction winner's address once the auction
\* is over" (auction.rs:26).
WinnerGetsToken ==
  \A t \in Tokens, u \in Users :
    (nftOwner[t] = Contract /\ Exists(t) /\ Ended(Current(t)) /\ Current(t).highBidder = u)
      ~> (nftOwner[t] = u)

\* The same, of the coins: a won auction that is over can be settled.
WinnerCanClaim ==
  \A t \in Tokens :
    (nftOwner[t] = Contract /\ Exists(t) /\ Ended(Current(t)))
      => \A tax \in AdditiveTaxes :
           Current(t).highAmount > 0 => held[Current(t).terms.denom] >= Current(t).highAmount + tax

\* "If this is false then the token is no longer held by the contract so the
\* token has been claimed" (contract.rs:441): a bid is paid out at most once,
\* and never after the auction was cancelled.
PaidOutOnce ==
  \A i \in DOMAIN auction : payouts[i] + (IF auction[i].isCancelled THEN 1 ELSE 0) <= 1

\* read_bids: a page of the history of auction i, from the position after start,
\* -1 for none, and from the last bid backwards if desc.
ReadBids(i, start, limit, desc) ==
  LET n == Len(bids[i])
      skip == IF start + 1 < n THEN start + 1 ELSE n
      end == IF start + 1 + limit < n THEN start + 1 + limit ELSE n
      page == IF desc THEN SubSeq(bids[i], n - end + 1, n - skip) ELSE SubSeq(bids[i], skip + 1, end)
  IN  IF desc THEN [k \in 1 .. Len(page) |-> page[Len(page) + 1 - k]] ELSE page

\* Whoever reads on from a position gets the bids that follow it, either way.
PagesAgree ==
  \A i \in DOMAIN auction, limit \in 1 .. 2, desc \in BOOLEAN :
    LET n == Len(bids[i])
        nth(p) == IF desc THEN bids[i][n + 1 - p] ELSE bids[i][p]
    IN  \A p \in 0 .. n + 1 :
          LET page == ReadBids(i, p - 1, limit, desc)
          IN  /\ Len(page) = (IF p >= n THEN 0 ELSE IF n - p < limit THEN n - p ELSE limit)
              /\ \A k \in 1 .. Len(page) : page[k] = nth(p + k)

\* How an auction comes out is told in three places that must not disagree: the
\* state, the history of bids and what was paid.
OutcomesAgree == BidsAgree /\ PagesAgree /\ PaidOutOnce
=============================================================================

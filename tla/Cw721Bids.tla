----------------------------- MODULE Cw721Bids ------------------------------
(***************************************************************************)
(* Bids for tokens, contracts/non-fungible-tokens/andromeda-cw721-bids, in *)
(* composition with the token contract it is a module of.                  *)
(*                                                                         *)
(* A bid is paid in full when it is placed.  It is accepted by a transfer  *)
(* of the token to the bidder: asked by the token contract for messages to *)
(* go with the transfer, the module returns a call of its own AcceptBid,   *)
(* which runs after the token has moved.                                   *)
(***************************************************************************)
EXTENDS Cw721

CONSTANTS
  BidAmounts, Expirations,   \* inputs of PlaceBid
  Excess                     \* coins a bidder may send above what is asked

ASSUME Cw721BidsAssumption ==
  BidAmounts \subseteq Nat /\ Expirations \subseteq Nat /\ Excess \subseteq Nat

VARIABLES
  bids,      \* bids(), by token
  escrow,    \* the module's balance of the coin
  kept       \* history: excess payments in it

bidVars == <<bids, escrow, kept>>
vars == <<now, owner, approvals, operators, agreement, archived, held, wallet, bids, escrow, kept>>

Init ==
  /\ Cw721Init
  /\ bids = [t \in {} |-> 0]
  /\ escrow = 0
  /\ kept = 0

IsExpired(b) == b.expiration <= now
FullAmount(b) == b.amount + b.tax   \* get_full_amount

\* Bug: the bid that is replaced is not sent back.
ReturnedMutant(t) == 0

\* What is sent back of the bid the token has now, if there is one.
Returned(t) == IF t \in DOMAIN bids THEN FullAmount(bids[t]) ELSE 0

\* execute_place_bid.  Royalty and tax are computed now, and stored with the
\* bid.  A bid that has expired can be replaced by a lower one.  Coins above the
\* full amount are kept; sending back nothing fails.
PlaceBid(s, t, amount, expiration, royalty, tax, excess) ==
  LET fees == OnFundsTransfer(amount, royalty, tax)
      b == [purchaser |-> s, amount |-> amount, remaining |-> fees.remaining,
            tax |-> fees.tax, expiration |-> expiration]
  IN  /\ t \in Minted \ archived
      /\ s # owner[t]
      /\ expiration > now
      /\ t \in DOMAIN bids =>
           /\ s # bids[t].purchaser
           /\ IsExpired(bids[t]) \/ bids[t].amount < amount
           /\ FullAmount(bids[t]) > 0
      /\ b.remaining >= 0
      /\ FullAmount(b) + excess \in 1 .. wallet[s]
      /\ escrow >= Returned(t)
      /\ bids' = [r \in DOMAIN bids \cup {t} |-> IF r = t THEN b ELSE bids[r]]
      /\ escrow' = escrow + FullAmount(b) + excess - Returned(t)
      /\ kept' = kept + excess
      /\ wallet' = [u \in DOMAIN wallet |-> wallet[u]
                      - (IF u = s THEN FullAmount(b) + excess ELSE 0)
                      + (IF t \in DOMAIN bids /\ u = bids[t].purchaser THEN Returned(t) ELSE 0)]
      /\ UNCHANGED <<now, owner, permissions, agreement, archived, held>>

CancelBid(s, t) ==
  /\ t \in DOMAIN bids /\ bids[t].purchaser = s
  /\ IsExpired(bids[t])
  /\ 0 < FullAmount(bids[t]) /\ FullAmount(bids[t]) <= escrow
  /\ bids' = Restrict(bids, DOMAIN bids \ {t})
  /\ escrow' = escrow - FullAmount(bids[t])
  /\ wallet' = [wallet EXCEPT ![s] = @ + FullAmount(bids[t])]
  /\ UNCHANGED <<now, owner, permissions, agreement, archived, held, kept>>

\* The OnTransfer hook: the transfer is to the one who bids for the token.
Accepts(t, u) == t \in DOMAIN bids /\ bids[t].purchaser = u

\* Bug: an agreement does not matter.
AcceptBidMutant(t) ==
  /\ ~IsExpired(bids[t])
  /\ bids[t].remaining > 0
  /\ escrow >= FullAmount(bids[t])
  /\ bids' = Restrict(bids, DOMAIN bids \ {t})
  /\ escrow' = escrow - FullAmount(bids[t])

\* execute_accept_bid, by the token contract: pays the stored fees and what
\* remains, in the name of the one who sent the token.
AcceptBid(t) ==
  /\ ~IsExpired(bids[t])
  /\ t \notin DOMAIN agreement
  /\ bids[t].remaining > 0
  /\ escrow >= FullAmount(bids[t])
  /\ bids' = Restrict(bids, DOMAIN bids \ {t})
  /\ escrow' = escrow - FullAmount(bids[t])

\* A transfer, with the message of the hook.
Transfer(s, t, u, funds, royalty, tax) ==
  /\ TransferNft(s, t, u, funds, royalty, tax,
                 [v \in DOMAIN wallet |-> IF v = s /\ Accepts(t, u) THEN bids[t].remaining ELSE 0])
  /\ IF Accepts(t, u) THEN AcceptBid(t) ELSE UNCHANGED <<bids, escrow>>
  /\ UNCHANGED kept

Next ==
  \/ Tick /\ UNCHANGED bidVars
  \/ TokenStep /\ UNCHANGED bidVars
  \/ \E s \in Users, t \in Tokens :
       \/ CancelBid(s, t)
       \/ \E royalty \in Royalties, tax \in Taxes :
            \/ \E u \in Users, funds \in Funds : Transfer(s, t, u, funds, royalty, tax)
            \/ \E amount \in BidAmounts, expiration \in Expirations, excess \in Excess :
                 PlaceBid(s, t, amount, expiration, royalty, tax, excess)

Spec == Init /\ [][Next]_vars
-----------------------------------------------------------------------------
\* The module holds the bids in full, fees included, and excess payments: every
\* bid can be sent back, or paid out with the fees computed when it was placed.
Escrowed ==
  escrow = kept + SumFunction([t \in DOMAIN bids |-> FullAmount(bids[t])])

\* The bid that p made for the token ends with the token and no coin, or with
\* every coin and no token.
Settles(t, p) ==
  \/ t \in DOMAIN owner' /\ owner'[t] = p /\ wallet'[p] = wallet[p]
  \/ owner' = owner /\ wallet'[p] = wallet[p] + FullAmount(bids[t])

\* A bid comes to an end in two ways only: the bidder gets the token and no
\* coin, or every coin of the bid and no token.  Excepted are bidders who came to
\* own the token otherwise, or may send it: they accept their own bid.
BidEnds ==
  \A t \in DOMAIN bids :
    LET p == bids[t].purchaser
    IN  \/ t \in DOMAIN bids' /\ bids'[t].purchaser = p
        \/ t \in Minted /\ (p = owner[t] \/ Approved(p, t))
        \/ Settles(t, p)
BidSettled == [][BidEnds]_vars

\* Who is not the owner and transfers a token that has a price pays it: the
\* owner gets it less the royalty, the contract adds nothing of its own, and a
\* bid for the token is not paid out on top.
TransferPays ==
  \A s \in Users, t \in DOMAIN agreement, u \in Users, funds \in Funds,
     royalty \in Royalties, tax \in Taxes :
    Transfer(s, t, u, funds, royalty, tax) /\ s # owner[t] =>
      /\ wallet'[owner[t]] = wallet[owner[t]] + agreement[t].amount - royalty
      /\ wallet[s] - wallet'[s] >= agreement[t].amount + tax
      /\ held' >= held
      /\ bids' = bids
PriceIsPaid == [][wallet' # wallet => TransferPays]_vars
=============================================================================

---------------------------- MODULE Marketplace -----------------------------
(***************************************************************************)
(* Fixed-price sales of tokens, contracts/non-fungible-tokens/             *)
(* andromeda-marketplace, over the token contract.                         *)
(*                                                                         *)
(* Sending a token to the marketplace puts it up for sale.  The seller may *)
(* change the price at any time; whoever buys gets the token, and the      *)
(* seller the price less what the rates modules take out of it.  A sale    *)
(* is in one denomination here: the check that a payment has the sale's    *)
(* is a check that it is paid in the coin modelled.                        *)
(***************************************************************************)
EXTENDS Cw721, Sequences, SequencesExt

CONSTANTS
  Market,       \* the address of the contract
  SalePrices,   \* inputs of StartSale and UpdateSale
  Payments,     \* coins sent with Buy
  MaxSales      \* bound, for model checking

ASSUME MarketplaceAssumption ==
  /\ Market \in DOMAIN Purse \ Users
  /\ SalePrices \subseteq Nat /\ Payments \subseteq Nat /\ MaxSales \in Nat

VARIABLES
  sales,     \* TOKEN_SALE_STATE, by sale id; NEXT_SALE_ID is the next index
  saleIds    \* sale_infos(): the sales of each token, latest last

marketVars == <<sales, saleIds>>

MarketInit ==
  /\ sales = <<>>
  /\ saleIds = [t \in Tokens |-> <<>>]

HasSale(t) == saleIds[t] # <<>>
LatestSale(t) == Last(saleIds[t])   \* get_existing_token_sale_state
Close(t, status) == sales' = [sales EXCEPT ![LatestSale(t)].status = status]

\* A transfer by the marketplace, whose other messages add pay to the balances.
Deliver(t, u, royalty, tax, pay) == TransferNft(Market, t, u, 0, royalty, tax, pay)
NoPayment == [v \in DOMAIN wallet |-> 0]

\* get_and_increment_next_sale_id
TakeNextSaleId(t) == saleIds' = [saleIds EXCEPT ![t] = Append(@, Len(sales) + 1)]

\* The hook of SendNft: the token is there already, and the seller is whoever
\* sent it.
StartSale(s, t, price) ==
  /\ price > 0
  /\ Len(sales) < MaxSales
  /\ SendNft(s, t, Market)
  /\ sales' = Append(sales, [token |-> t, seller |-> s, price |-> price, status |-> "Open"])
  /\ TakeNextSaleId(t)

\* The status is not looked at: a sale that is over gets a new price, too.
UpdateSale(s, t, price) ==
  /\ HasSale(t) /\ sales[LatestSale(t)].seller = s
  /\ price > 0
  /\ sales' = [sales EXCEPT ![LatestSale(t)].price = price]
  /\ UNCHANGED <<cw721Vars, now, saleIds>>

\* purchase_token: the price of now, with the tax on top; something must be left
\* for the seller.
PaysFor(s, price, paid, royalty, tax) ==
  /\ paid <= wallet[s] /\ paid >= price + tax
  /\ price > royalty

\* Bug: the sale stays open.
BuyMutant(s, t, paid, royalty, tax) ==
  /\ HasSale(t)
  /\ LET sale == sales[LatestSale(t)]
     IN  /\ sale.status = "Open" /\ sale.seller # s
         /\ owner[t] = Market
         /\ PaysFor(s, sale.price, paid, royalty, tax)
         /\ Deliver(t, s, royalty, tax,
                    [v \in DOMAIN wallet |->
                       (IF v = sale.seller THEN sale.price - royalty ELSE 0)
                       + (IF v = Market THEN paid - sale.price - tax ELSE 0)
                       - (IF v = s THEN paid ELSE 0)])
  /\ UNCHANGED marketVars

\* execute_buy.  What is paid above price and tax is kept.
Buy(s, t, paid, royalty, tax) ==
  /\ HasSale(t)
  /\ LET sale == sales[LatestSale(t)]
     IN  /\ sale.status = "Open" /\ sale.seller # s
         /\ owner[t] = Market
         /\ PaysFor(s, sale.price, paid, royalty, tax)
         /\ Deliver(t, s, royalty, tax,
                    [v \in DOMAIN wallet |->
                       (IF v = sale.seller THEN sale.price - royalty ELSE 0)
                       + (IF v = Market THEN paid - sale.price - tax ELSE 0)
                       - (IF v = s THEN paid ELSE 0)])
  /\ Close(t, "Executed")
  /\ UNCHANGED saleIds

CancelSale(s, t, royalty, tax) ==
  /\ HasSale(t)
  /\ sales[LatestSale(t)].seller = s /\ sales[LatestSale(t)].status = "Open"
  /\ Deliver(t, s, royalty, tax, NoPayment)
  /\ Close(t, "Cancelled")
  /\ UNCHANGED saleIds

MarketStep ==
  \E s \in Users, t \in Tokens :
    \/ \E price \in SalePrices : StartSale(s, t, price) \/ UpdateSale(s, t, price)
    \/ \E royalty \in Royalties, tax \in Taxes :
         \/ CancelSale(s, t, royalty, tax)
         \/ \E paid \in Payments : Buy(s, t, paid, royalty, tax)
=============================================================================

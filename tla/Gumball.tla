------------------------------ MODULE Gumball -------------------------------
(***************************************************************************)
(* A gumball machine, contracts/non-fungible-tokens/andromeda-gumball,     *)
(* over the token contract it mints into.                                  *)
(*                                                                         *)
(* While it is being refilled the owner mints tokens and sets the price;   *)
(* while it sells, whoever pays the price gets a random one.  The list of  *)
(* tokens for sale is the machine's own: what the token contract says of   *)
(* them is not asked again.  The prices stay in the machine.               *)
(***************************************************************************)
EXTENDS Cw721, Sequences, SequencesExt

CONSTANTS
  Machine,        \* the address of the contract
  Denoms, Coin,   \* coins a price can be in, and the one the balances are in
  GumPrices,      \* inputs of SetSaleDetails
  MaxMints        \* MAX_MINT_LIMIT

ASSUME GumballAssumption ==
  /\ Machine \in DOMAIN Purse \ Users
  /\ Coin \in Denoms /\ GumPrices \subseteq Nat /\ MaxMints \in Nat

VARIABLES
  list,           \* LIST, the tokens for sale
  status,         \* STATUS: sells, and is not refilled
  requiredCoin,   \* REQUIRED_COIN
  state           \* STATE: price and maximum per wallet, or none

gumSettings == <<status, requiredCoin, state>>
gumVars == <<list, gumSettings>>

NotSet == [price |-> 0, denom |-> "none", max |-> 0]

GumInit ==
  /\ list = <<>>
  /\ status = FALSE
  /\ requiredCoin = Coin   \* may be changed at once
  /\ state = NotSet

\* The owner's, as all settings; allowed while the machine sells.
UpdateRequiredCoin(denom) ==
  /\ requiredCoin' = denom
  /\ UNCHANGED <<status, state>>

SwitchStatus ==
  /\ state # NotSet
  /\ status' = ~status
  /\ UNCHANGED <<requiredCoin, state>>

SetSaleDetails(price, max) ==
  /\ ~status
  /\ price > 0 /\ max > 0
  /\ state' = [price |-> price, denom |-> requiredCoin, max |-> max]
  /\ UNCHANGED <<status, requiredCoin>>

\* Bug: every token is listed, set aside or not.
MintGumballsMutant(ids, to) ==
  /\ ~status
  /\ Len(ids) <= MaxMints
  /\ ToSet(ids) \cap Minted = {} /\ IsInjective(ids)
  /\ owner' = [t \in Minted \cup ToSet(ids) |-> IF t \in Minted THEN owner[t] ELSE to]
  /\ approvals' = [t \in Minted \cup ToSet(ids) |-> IF t \in Minted THEN approvals[t] ELSE {}]
  /\ list' = list \o ids
  /\ UNCHANGED <<now, operators, agreement, archived, coins, gumSettings>>

\* execute_mint, mint: to the machine, for sale, or set aside for somebody.  An
\* id that is taken, by another message of the list perhaps, fails all of them.
MintGumballs(ids, to) ==
  /\ ~status
  /\ Len(ids) <= MaxMints
  /\ ToSet(ids) \cap Minted = {} /\ IsInjective(ids)
  /\ owner' = [t \in Minted \cup ToSet(ids) |-> IF t \in Minted THEN owner[t] ELSE to]
  /\ approvals' = [t \in Minted \cup ToSet(ids) |-> IF t \in Minted THEN approvals[t] ELSE {}]
  /\ list' = IF to = Machine THEN list \o ids ELSE list
  /\ UNCHANGED <<now, operators, agreement, archived, coins, gumSettings>>

\* swap_remove: the last one takes the place of the one that goes.
SwapRemove(s, i) == Front([s EXCEPT ![i] = Last(s)])

\* execute_buy: any token of the list, whatever the randomness says, for the
\* amount of the price in the coin required now.
BuyGumball(s, i, royalty, tax) ==
  LET paid == IF requiredCoin = Coin THEN state.price ELSE 0
  IN  /\ status
      /\ i \in 1 .. Len(list)
      /\ wallet[s] >= paid
      /\ TransferNft(Machine, list[i], s, 0, royalty, tax,
                     [v \in DOMAIN wallet |-> IF v = s THEN -paid ELSE IF v = Machine THEN paid ELSE 0])
      /\ list' = SwapRemove(list, i)
      /\ UNCHANGED gumSettings

GumStep ==
  \/ /\ \/ \E denom \in Denoms : UpdateRequiredCoin(denom)
        \/ SwitchStatus
        \/ \E price \in GumPrices : SetSaleDetails(price, 1)
     /\ UNCHANGED <<cw721Vars, now, list>>
  \/ \E n \in 1 .. MaxMints : \E ids \in [1 .. n -> Tokens], to \in Users \cup {Machine} :
       MintGumballs(ids, to)
  \/ \E s \in Users, i \in 1 .. Len(list), royalty \in Royalties, tax \in Taxes :
       BuyGumball(s, i, royalty, tax)
-----------------------------------------------------------------------------
\* What the machine lists it can deliver: each token once, and the token contract
\* has it in the machine's name, whatever has been minted, set aside, sold and
\* transferred.  So a buyer who pays never gets an error for a token sold before.
StockHeld ==
  /\ IsInjective(list)
  /\ \A i \in 1 .. Len(list) : list[i] \in Minted /\ owner[list[i]] = Machine
=============================================================================

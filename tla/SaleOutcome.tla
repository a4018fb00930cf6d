----------------------------- MODULE SaleOutcome ----------------------------
(***************************************************************************)
(* What a crowdfund promises, without batches, counters or storage maps.   *)
(*                                                                         *)
(* While a sale is open, buyers put coins in escrow for tokens.  When it   *)
(* ends, its fate is decided for all of them at once: either everyone gets *)
(* the tokens they bought, or everyone gets back all the coins they had in *)
(* escrow.  A sale is closed only when nothing is owed and the contract    *)
(* owns no token.                                                          *)
(***************************************************************************)
EXTENDS Integers

CONSTANTS Buyers, Tokens, Contract, Outside, Nobody

VARIABLES
  fate,      \* "none", "open", "delivering" or "refunding"
  forSale,   \* tokens that can be bought
  bought,    \* what each buyer has bought and not been given
  escrow,    \* the coins each buyer has paid for them
  refunded,  \* the coins each buyer has been given back
  owner      \* who owns each token

vars == <<fate, forSale, bought, escrow, refunded, owner>>

ContractTokens == {t \in Tokens : owner[t] = Contract}
Ended == {"delivering", "refunding"}

Init ==
  /\ fate = "none"
  /\ forSale = {}
  /\ bought = [b \in Buyers |-> {}]
  /\ escrow = [b \in Buyers |-> 0]
  /\ refunded = [b \in Buyers |-> 0]
  /\ owner = [t \in Tokens |-> Nobody]

Mint ==
  /\ fate = "none"
  /\ \E S \in SUBSET {t \in Tokens : owner[t] = Nobody} :
       /\ forSale' = forSale \cup S
       /\ \A t \in Tokens : CASE t \in S -> owner'[t] = Contract
                              [] owner[t] = Nobody /\ t \notin S -> owner'[t] \in {Outside, Nobody}
                              [] OTHER -> owner'[t] = owner[t]
  /\ UNCHANGED <<fate, bought, escrow, refunded>>

\* A sale of nothing ends as it opens.
Open ==
  /\ fate = "none"
  /\ fate' \in {"open"} \cup Ended
  /\ fate' # "open" => forSale = {}
  /\ UNCHANGED <<forSale, bought, escrow, refunded, owner>>

\* Buying the last tokens ends the sale.
Buy(b) ==
  /\ fate = "open"
  /\ \E T \in (SUBSET forSale) \ {{}} :
       /\ forSale' = forSale \ T
       /\ bought' = [bought EXCEPT ![b] = @ \cup T]
  /\ fate' \in {"open"} \cup Ended
  /\ fate' # "open" => forSale' = {}
  /\ escrow'[b] >= escrow[b]
  /\ \A c \in Buyers \ {b} : escrow'[c] = escrow[c]
  /\ UNCHANGED <<refunded, owner>>

End ==
  /\ fate = "open"
  /\ fate' \in Ended
  /\ UNCHANGED <<forSale, bought, escrow, refunded, owner>>

\* Some bought tokens go to those who bought them.
Deliver ==
  /\ fate = "delivering"
  /\ \E D \in (SUBSET UNION {bought[b] : b \in Buyers}) \ {{}} :
       /\ bought' = [b \in Buyers |-> bought[b] \ D]
       /\ \A t \in Tokens :
            IF t \in D THEN \E b \in Buyers : t \in bought[b] /\ owner'[t] = b
                       ELSE owner'[t] = owner[t]
       /\ \A b \in Buyers :
            /\ escrow'[b] <= escrow[b]
            /\ bought[b] \cap D = {} => escrow'[b] = escrow[b]
            /\ bought'[b] = {} => escrow'[b] = 0
  /\ UNCHANGED <<fate, forSale, refunded>>

\* Some buyers get all their coins back, and some tokens are burned.
Refund ==
  /\ fate = "refunding"
  /\ \E B \in SUBSET Buyers, Z \in SUBSET ContractTokens :
       /\ bought' = [b \in Buyers |-> IF b \in B THEN {} ELSE bought[b]]
       /\ escrow' = [b \in Buyers |-> IF b \in B THEN 0 ELSE escrow[b]]
       /\ refunded' = [b \in Buyers |-> IF b \in B THEN refunded[b] + escrow[b] ELSE refunded[b]]
       /\ owner' = [t \in Tokens |-> IF t \in Z THEN Nobody ELSE owner[t]]
       /\ forSale' = forSale \ Z
  /\ UNCHANGED fate

\* Tokens nobody bought are burned once the others are delivered.
BurnRest ==
  /\ fate = "delivering"
  /\ \A b \in Buyers : bought[b] = {}
  /\ \E Z \in (SUBSET ContractTokens) \ {{}} :
       /\ owner' = [t \in Tokens |-> IF t \in Z THEN Nobody ELSE owner[t]]
       /\ forSale' = forSale \ Z
  /\ UNCHANGED <<fate, bought, escrow, refunded>>

Close ==
  /\ fate \in Ended
  /\ \A b \in Buyers : bought[b] = {} /\ escrow[b] = 0
  /\ ContractTokens = {} /\ forSale = {}
  /\ fate' = "none"
  /\ UNCHANGED <<forSale, bought, escrow, refunded, owner>>

Next ==
  \/ Mint \/ Open \/ (\E b \in Buyers : Buy(b)) \/ End
  \/ Deliver \/ Refund \/ BurnRest \/ Close

Spec == Init /\ [][Next]_vars
=============================================================================

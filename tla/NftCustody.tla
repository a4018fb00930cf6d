----------------------------- MODULE NftCustody -----------------------------
(***************************************************************************)
(* What a contract that keeps other people's tokens promises: a token in   *)
(* its custody is owed to one address.  It stays until it is returned to   *)
(* that address, or sold to another for coins the address gets in the same *)
(* transaction.                                                            *)
(***************************************************************************)
EXTENDS Integers, Functions

CONSTANT Custodians   \* addresses of the contracts
VARIABLES
  owner,    \* of each token
  owed,     \* the tokens in custody, and to whom each is owed
  wallet    \* the coins of each address

vars == <<owner, owed, wallet>>

Init == owed = [t \in {} |-> 0] /\ \A t \in DOMAIN owner : owner[t] \notin Custodians

Stays(t) == t \in DOMAIN owner' /\ owner'[t] = owner[t]
OthersStay(t) ==
  \A r \in DOMAIN owed \ {t} :
    r \in DOMAIN owed' /\ owed'[r] = owed[r] /\ Stays(r)

TakeIn(t) ==
  /\ t \notin DOMAIN owed
  /\ DOMAIN owed' = DOMAIN owed \cup {t}
  /\ t \in DOMAIN owner' /\ owner'[t] \in Custodians
  /\ OthersStay(t)

Released(t) ==
  /\ t \in DOMAIN owed
  /\ DOMAIN owed' = DOMAIN owed \ {t}
  /\ t \in DOMAIN owner' /\ owner'[t] \notin Custodians
  /\ OthersStay(t)

Return(t) == Released(t) /\ owner'[t] = owed[t]
Sell(t) == Released(t) /\ wallet'[owed[t]] > wallet[owed[t]]

\* Anything that leaves what is in custody where it is, and owed as it was.
Elsewhere ==
  /\ owed' = owed
  /\ \A t \in DOMAIN owed : Stays(t)

Next ==
  \/ \E t \in DOMAIN owner : TakeIn(t) \/ Return(t) \/ Sell(t)
  \/ Elsewhere

Spec == Init /\ [][Next]_vars
=============================================================================

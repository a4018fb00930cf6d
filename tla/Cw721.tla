------------------------------- MODULE Cw721 --------------------------------
(***************************************************************************)
(* The token contract, contracts/non-fungible-tokens/andromeda-cw721.      *)
(*                                                                         *)
(* A cw721 token whose transfers may be sold: an owner sets a price for a  *)
(* purchaser, or for anybody, and a transfer of the token pays it.  Tokens *)
(* can be archived.  Before a transfer the modules of the contract are     *)
(* asked for messages to send with it, and for the fees of the price.      *)
(* What the contract leaves to cw721-base (SendNft, approvals, minting) is *)
(* modelled from what that library does.                                   *)
(***************************************************************************)
EXTENDS Integers, FiniteSets, Functions

CONSTANTS
  Users,        \* addresses that act by themselves
  Contracts,    \* the addresses SendNft can send to, with no more said about them
  Tokens,
  Prices,       \* amounts of transfer agreements
  Royalties,    \* what the rates modules may take out of a price
  Taxes,        \* what they may ask for on top of it
  Funds,        \* coins a transfer may carry
  Purse,        \* the coins of every address at first
  MaxGrants,    \* bound on approvals and operators, for model checking
  MaxTime       \* bound on time, for model checking

ASSUME Cw721Assumption ==
  /\ IsFiniteSet(Users)
  /\ \A S \in {Prices, Royalties, Taxes, Funds} : S \subseteq Nat
  /\ Users \cup Contracts \subseteq DOMAIN Purse /\ Purse \in [DOMAIN Purse -> Nat]
  /\ MaxGrants \in Nat /\ MaxTime \in Nat

VARIABLES
  now,        \* env.block
  owner,      \* tokens, defined on the ids that are minted
  approvals,  \* the spenders approved for each of them
  operators,  \* <<owner, operator>>
  agreement,  \* TRANSFER_AGREEMENTS
  archived,   \* ARCHIVED
  held,       \* the contract's balance of the coin
  wallet      \* everybody else's balance of it

permissions == <<approvals, operators>>
coins == <<held, wallet>>
cw721Vars == <<owner, approvals, operators, agreement, archived, held, wallet>>

Anybody == "*"
ASSUME AnybodyAssumption == Anybody \notin Users

Minted == DOMAIN owner
Grants == SumFunction([t \in Minted |-> Cardinality(approvals[t])]) + Cardinality(operators)

Cw721Init ==
  /\ owner = [t \in {} |-> 0]
  /\ approvals = [t \in {} |-> 0]
  /\ operators = {}
  /\ agreement = [t \in {} |-> 0]
  /\ archived = {}
  /\ held = 0
  /\ wallet = Purse
  /\ now = 0

Tick ==
  /\ now < MaxTime
  /\ now' = now + 1
  /\ UNCHANGED cw721Vars
-----------------------------------------------------------------------------
\* The minter mints an id that is not taken; what Burn left of it applies again.
Mint(t, u) ==
  /\ t \notin Minted
  /\ owner' = [s \in Minted \cup {t} |-> IF s = t THEN u ELSE owner[s]]
  /\ approvals' = [s \in Minted \cup {t} |-> IF s = t THEN {} ELSE approvals[s]]
  /\ UNCHANGED <<now, operators, agreement, archived, coins>>

Approved(s, t) == s \in approvals[t] \/ <<owner[t], s>> \in operators

\* Bug: approvals are looked at before the price.
MaySendMutant(s, t, funds, tax) ==
  \/ s = owner[t]
  \/ Approved(s, t)
  \/ /\ t \in DOMAIN agreement /\ agreement[t].purchaser \in {s, Anybody}
     /\ funds >= agreement[t].amount + tax

\* check_can_send: whoever is not the owner pays the price and its tax, with an
\* approval too.
MaySend(s, t, funds, tax) ==
  \/ s = owner[t]
  \/ /\ t \in DOMAIN agreement => funds >= agreement[t].amount + tax
     /\ \/ t \in DOMAIN agreement /\ agreement[t].purchaser \in {s, Anybody}
        \/ Approved(s, t)

\* The token moves, and its approvals are cleared.
GiveTo(t, u) ==
  /\ owner' = [owner EXCEPT ![t] = u]
  /\ approvals' = [approvals EXCEPT ![t] = {}]

\* The OnFundsTransfer hook, for other contracts: what the token's modules leave
\* of an amount, and the tax they want on top of it.
OnFundsTransfer(amount, royalty, tax) == [remaining |-> amount - royalty, tax |-> tax]

\* execute_transfer.  With an agreement the contract pays the price to the
\* owner, less the royalty, and royalty and tax to others, whoever sends; it
\* keeps the funds, which without one are not looked at.  received is what the
\* messages of the modules send to users in the same transaction.
TransferNft(s, t, u, funds, royalty, tax, received) ==
  LET price == IF t \in DOMAIN agreement THEN agreement[t].amount ELSE 0
      due == IF t \in DOMAIN agreement THEN price + tax ELSE 0
      proceeds == IF t \in DOMAIN agreement THEN price - royalty ELSE 0
  IN  /\ t \in Minted \ archived
      /\ funds <= wallet[s]
      /\ t \in DOMAIN agreement => proceeds > 0
      /\ MaySend(s, t, funds, tax)
      /\ held + funds >= due
      /\ GiveTo(t, u)
      /\ held' = held + funds - due
      /\ wallet' = [v \in DOMAIN wallet |-> wallet[v] + received[v]
                                    - (IF v = s THEN funds ELSE 0)
                                    + (IF v = owner[t] THEN proceeds ELSE 0)]
      /\ UNCHANGED <<now, operators, agreement, archived>>

\* cw721-base: neither the archive nor the agreement is looked at, and no
\* module is asked.
SendNft(s, t, contract) ==
  /\ t \in Minted
  /\ s = owner[t] \/ Approved(s, t)
  /\ GiveTo(t, contract)
  /\ UNCHANGED <<now, operators, agreement, archived, coins>>

UpdateTransferAgreement(s, t, a) ==
  /\ t \in Minted \ archived /\ owner[t] = s
  /\ agreement' = [r \in DOMAIN agreement \cup {t} |-> IF r = t THEN a ELSE agreement[r]]
  /\ UNCHANGED <<now, owner, permissions, archived, coins>>

\* The same handler, called without an agreement.
RemoveTransferAgreement(s, t) ==
  /\ t \in Minted \ archived /\ owner[t] = s
  /\ agreement' = Restrict(agreement, DOMAIN agreement \ {t})
  /\ UNCHANGED <<now, owner, permissions, archived, coins>>

Archive(s, t) ==
  /\ t \in Minted \ archived /\ owner[t] = s
  /\ archived' = archived \cup {t}
  /\ UNCHANGED <<now, owner, permissions, agreement, coins>>

\* The agreement stays.
Burn(s, t) ==
  /\ t \in Minted \ archived /\ owner[t] = s
  /\ owner' = Restrict(owner, Minted \ {t})
  /\ approvals' = Restrict(approvals, Minted \ {t})
  /\ UNCHANGED <<now, operators, agreement, archived, coins>>

\* cw721-base, after the check of the archive.
Approve(s, t, spender) ==
  /\ t \in Minted \ archived
  /\ s = owner[t] \/ <<owner[t], s>> \in operators
  /\ Grants < MaxGrants
  /\ approvals' = [approvals EXCEPT ![t] = @ \cup {spender}]
  /\ UNCHANGED <<now, owner, operators, agreement, archived, coins>>

ApproveAll(s, operator) ==
  /\ Grants < MaxGrants
  /\ operators' = operators \cup {<<s, operator>>}
  /\ UNCHANGED <<now, owner, approvals, agreement, archived, coins>>

\* Revoke and RevokeAll, and approvals that expire.
RevokeApproval(t, spender) ==
  /\ t \in Minted /\ spender \in approvals[t]
  /\ approvals' = [approvals EXCEPT ![t] = @ \ {spender}]
  /\ UNCHANGED <<now, owner, operators, agreement, archived, coins>>

RevokeAll(grant) ==
  /\ operators' = operators \ {grant}
  /\ UNCHANGED <<now, owner, approvals, agreement, archived, coins>>

\* Everything but transfers, which the modules take part in.
TokenStep ==
  \/ \E t \in Tokens, u \in Users :
       \/ Mint(t, u) \/ Archive(u, t) \/ Burn(u, t)
       \/ RemoveTransferAgreement(u, t)
       \/ \E price \in Prices, purchaser \in Users \cup {Anybody} :
            UpdateTransferAgreement(u, t, [amount |-> price, purchaser |-> purchaser])
       \/ \E contract \in Contracts : SendNft(u, t, contract)
       \/ \E spender \in Users : Approve(u, t, spender)
       \/ RevokeApproval(t, u)
  \/ \E u, v \in Users : ApproveAll(u, v)
  \/ \E grant \in operators : RevokeAll(grant)
=============================================================================

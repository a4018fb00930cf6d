------------------------------ MODULE NftProofs ------------------------------
(***************************************************************************)
(* Proofs about NftVenues: the token contract with the contracts tokens    *)
(* are sent to, for any users, tokens, prices, fees and balances.          *)
(***************************************************************************)
EXTENDS NftVenues, Sums, TLAPS

\* The token contract's state is well formed; no balance is overdrawn; and no
\* approval speaks for an address that does not act by itself, which is what
\* keeps the tokens of custodians where they are.
LedgerOK ==
  /\ now \in Nat
  /\ Minted \subseteq Tokens
  /\ owner \in [Minted -> DOMAIN Purse]
  /\ approvals \in [Minted -> SUBSET Users]
  /\ operators \subseteq Users \X Users
  /\ \A t \in DOMAIN agreement : agreement[t].amount \in Nat
  /\ held \in Nat
  /\ wallet \in [DOMAIN Purse -> Nat]
  /\ \A t \in Minted : owner[t] \notin Users => approvals[t] = {}

\* Beside a venue other than the bids nobody sets a price in the token contract.
NoAgreement == venue # "bids" => DOMAIN agreement = {}

LEMMA InitLedger == Cw721Init => LedgerOK
BY Cw721Assumption DEF Cw721Init, LedgerOK, Minted

\* A token that goes to an address with its approvals cleared.
LEMMA GivenLedger ==
  ASSUME LedgerOK, NEW t \in Minted, NEW u \in DOMAIN Purse, GiveTo(t, u),
         now' \in Nat, UNCHANGED <<operators, agreement>>,
         held' \in Nat, wallet' \in [DOMAIN Purse -> Nat]
  PROVE  /\ LedgerOK'
         /\ Minted' = Minted /\ owner'[t] = u
         /\ \A r \in Minted \ {t} : owner'[r] = owner[r] /\ approvals'[r] = approvals[r]
BY DEF LedgerOK, GiveTo, Minted

\* Nobody else moves the token of an address that does not act by itself.
LEMMA NotApproved ==
  ASSUME LedgerOK, NEW t \in Minted, NEW s, Approved(s, t)
  PROVE  owner[t] \in Users /\ s \in Users
BY DEF LedgerOK, Approved

LEMMA SendLedger ==
  ASSUME LedgerOK, NEW s, NEW t, NEW contract \in DOMAIN Purse, SendNft(s, t, contract)
  PROVE  /\ LedgerOK' /\ t \in Minted
         /\ Minted' = Minted /\ owner'[t] = contract
         /\ \A r \in Minted \ {t} : owner'[r] = owner[r]
         /\ UNCHANGED <<now, agreement, archived, held, wallet>>
         /\ s \in Users => owner[t] \in Users
<1>1. /\ t \in Minted /\ GiveTo(t, contract)
      /\ s = owner[t] \/ Approved(s, t)
      /\ UNCHANGED <<now, operators, agreement, archived, held, wallet>>
  BY DEF SendNft, coins
<1>2. now' \in Nat /\ held' \in Nat /\ wallet' \in [DOMAIN Purse -> Nat]
  BY <1>1 DEF LedgerOK
<1> QED BY <1>1, <1>2, GivenLedger, NotApproved

\* Messages that only add to balances.
Gives(received) == \A v \in DOMAIN Purse : received[v] \in Nat

\* The token is sent to u; by its owner or by a user for a user, unless for a price.
Moved(s, t, u) ==
  /\ LedgerOK' /\ t \in Minted
  /\ Minted' = Minted /\ owner'[t] = u
  /\ \A r \in Minted \ {t} : owner'[r] = owner[r]
  /\ UNCHANGED <<now, operators, agreement, archived>>
  /\ t \notin DOMAIN agreement => owner[t] = s \/ (owner[t] \in Users /\ s \in Users)

\* A transfer for which the messages of the modules take nothing.
LEMMA TransferLedger ==
  ASSUME LedgerOK, NEW s, NEW t, NEW u \in DOMAIN Purse,
         NEW funds, funds \in Nat, NEW royalty, royalty \in Nat, NEW tax, tax \in Nat,
         NEW received, Gives(received),
         TransferNft(s, t, u, funds, royalty, tax, received)
  PROVE  Moved(s, t, u)
<1> DEFINE price == IF t \in DOMAIN agreement THEN agreement[t].amount ELSE 0
           due == IF t \in DOMAIN agreement THEN price + tax ELSE 0
           proceeds == IF t \in DOMAIN agreement THEN price - royalty ELSE 0
<1>1. /\ t \in Minted
      /\ funds <= wallet[s]
      /\ t \in DOMAIN agreement => proceeds > 0
      /\ MaySend(s, t, funds, tax)
      /\ held + funds >= due
      /\ GiveTo(t, u)
      /\ held' = held + funds - due
      /\ wallet' = [v \in DOMAIN wallet |-> wallet[v] + received[v]
                                    - (IF v = s THEN funds ELSE 0)
                                    + (IF v = owner[t] THEN proceeds ELSE 0)]
      /\ UNCHANGED <<now, operators, agreement, archived>>
  BY DEF TransferNft
<1>2. DOMAIN wallet = DOMAIN Purse /\ \A v \in DOMAIN Purse : wallet[v] \in Nat
  BY DEF LedgerOK
<1>3. due \in Nat /\ proceeds \in Nat
  BY <1>1 DEF LedgerOK
<1>4. held' \in Nat
  BY <1>1, <1>3 DEF LedgerOK
<1>5. t \notin DOMAIN agreement => owner[t] = s \/ (owner[t] \in Users /\ s \in Users)
  BY <1>1, NotApproved DEF MaySend
<1> HIDE DEF due, proceeds
<1>6. \A v \in DOMAIN Purse : received[v] \in Nat
  BY DEF Gives
<1>7. ASSUME NEW v \in DOMAIN Purse PROVE wallet'[v] \in Nat
  BY <1>1, <1>2, <1>3, <1>6
<1>8. wallet' \in [DOMAIN Purse -> Nat]
  BY <1>1, <1>2, <1>7
<1>9. now' \in Nat
  BY <1>1 DEF LedgerOK
<1>10. /\ LedgerOK' /\ Minted' = Minted /\ owner'[t] = u
       /\ \A r \in Minted \ {t} : owner'[r] = owner[r]
  BY <1>1, <1>4, <1>8, <1>9, GivenLedger
<1> QED BY <1>1, <1>5, <1>10 DEF Moved

\* What the messages of the modules send does not overdraw anybody.
Covers(received) ==
  \A v \in DOMAIN Purse : received[v] \in Int /\ wallet[v] + received[v] >= 0

\* The token moves from s, or from a user who let s move it, and the coins of a
\* transfer without a price with it.
MovedFree(s, t, u, received) ==
  /\ LedgerOK' /\ t \in Minted
  /\ Minted' = Minted /\ owner'[t] = u
  /\ \A r \in Minted \ {t} : owner'[r] = owner[r]
  /\ UNCHANGED <<now, agreement, archived>>
  /\ owner[t] = s \/ (owner[t] \in Users /\ s \in Users)
  /\ \A v \in DOMAIN Purse : wallet'[v] = wallet[v] + received[v]

\* Beside a venue other than the bids: no price, and no coins with the transfer.
LEMMA FreeTransfer ==
  ASSUME LedgerOK, DOMAIN agreement = {},
         NEW s, NEW t, NEW u \in DOMAIN Purse, NEW royalty, NEW tax,
         NEW received, Covers(received),
         TransferNft(s, t, u, 0, royalty, tax, received)
  PROVE  MovedFree(s, t, u, received)
<1>1. /\ t \in Minted
      /\ s = owner[t] \/ Approved(s, t)
      /\ GiveTo(t, u)
      /\ held' = held + 0 - 0
      /\ wallet' = [v \in DOMAIN wallet |-> wallet[v] + received[v]
                                    - (IF v = s THEN 0 ELSE 0)
                                    + (IF v = owner[t] THEN 0 ELSE 0)]
      /\ UNCHANGED <<now, operators, agreement, archived>>
  BY DEF TransferNft, MaySend
<1>2. DOMAIN wallet = DOMAIN Purse /\ \A v \in DOMAIN Purse : wallet[v] \in Nat
  BY DEF LedgerOK
<1>3. held' \in Nat /\ now' \in Nat
  BY <1>1 DEF LedgerOK
<1>4. \A v \in DOMAIN Purse : received[v] \in Int /\ wallet[v] + received[v] >= 0
  BY DEF Covers
<1>5. ASSUME NEW v \in DOMAIN Purse PROVE wallet'[v] = wallet[v] + received[v]
  BY <1>1, <1>2, <1>4
<1>6. wallet' \in [DOMAIN Purse -> Nat]
  <2>1. DOMAIN wallet' = DOMAIN Purse /\ wallet' = [v \in DOMAIN wallet' |-> wallet'[v]]
    BY <1>1, <1>2
  <2>2. \A v \in DOMAIN Purse : wallet'[v] \in Nat
    BY <1>2, <1>4, <1>5
  <2> QED BY <2>1, <2>2
<1>7. /\ LedgerOK' /\ Minted' = Minted /\ owner'[t] = u
      /\ \A r \in Minted \ {t} : owner'[r] = owner[r]
  BY <1>1, <1>3, <1>6, GivenLedger
<1>8. owner[t] = s \/ (owner[t] \in Users /\ s \in Users)
  BY <1>1, NotApproved
<1> QED BY <1>1, <1>5, <1>7, <1>8 DEF MovedFree

-----------------------------------------------------------------------------
(* What users do in the token contract.                                     *)

\* Every step of the token contract leaves its state well formed, and the tokens
\* of addresses that do not act by themselves where they are.
TokensKept ==
  \A t \in Minted : owner[t] \notin Users => t \in Minted' /\ owner'[t] = owner[t]

LEMMA MintStep ==
  ASSUME LedgerOK, NEW t \in Tokens, NEW u \in Users, Mint(t, u)
  PROVE  LedgerOK' /\ TokensKept /\ UNCHANGED <<now, held, wallet>>
<1>1. /\ t \notin Minted
      /\ owner' = [s \in Minted \cup {t} |-> IF s = t THEN u ELSE owner[s]]
      /\ approvals' = [s \in Minted \cup {t} |-> IF s = t THEN {} ELSE approvals[s]]
      /\ UNCHANGED <<now, operators, agreement, held, wallet>>
  BY DEF Mint, coins
<1>2. Minted' = Minted \cup {t} /\ DOMAIN approvals' = Minted \cup {t}
  BY <1>1 DEF Minted
<1>3. u \in DOMAIN Purse
  BY Cw721Assumption
<1>4. \A s \in Minted' : owner'[s] \in DOMAIN Purse /\ approvals'[s] \in SUBSET Users
  BY <1>1, <1>2, <1>3 DEF LedgerOK
<1> QED BY <1>1, <1>2, <1>4 DEF LedgerOK, TokensKept

LEMMA BurnStep ==
  ASSUME LedgerOK, NEW t \in Tokens, NEW u \in Users, Burn(u, t)
  PROVE  LedgerOK' /\ TokensKept /\ UNCHANGED <<now, held, wallet>>
<1>1. /\ owner[t] = u
      /\ owner' = [s \in Minted \ {t} |-> owner[s]]
      /\ approvals' = [s \in Minted \ {t} |-> approvals[s]]
      /\ UNCHANGED <<now, operators, agreement, held, wallet>>
  BY DEF Burn, coins, Restrict
<1>2. Minted' = Minted \ {t}
  BY <1>1 DEF Minted
<1> QED BY <1>1, <1>2 DEF LedgerOK, TokensKept

LEMMA ApproveStep ==
  ASSUME LedgerOK, NEW t \in Tokens, NEW u \in Users, NEW spender \in Users,
         Approve(u, t, spender)
  PROVE  LedgerOK' /\ TokensKept /\ UNCHANGED <<now, held, wallet>>
<1>1. /\ t \in Minted
      /\ u = owner[t] \/ <<owner[t], u>> \in operators
      /\ approvals' = [approvals EXCEPT ![t] = @ \cup {spender}]
      /\ UNCHANGED <<now, owner, operators, agreement, held, wallet>>
  BY DEF Approve, coins
<1>2. owner[t] \in Users
  BY <1>1 DEF LedgerOK
<1> QED BY <1>1, <1>2 DEF LedgerOK, TokensKept, Minted

LEMMA RevokeStep ==
  ASSUME LedgerOK, NEW t \in Tokens, NEW spender \in Users, RevokeApproval(t, spender)
  PROVE  LedgerOK' /\ TokensKept /\ UNCHANGED <<now, held, wallet>>
<1>1. /\ t \in Minted
      /\ approvals' = [approvals EXCEPT ![t] = @ \ {spender}]
      /\ UNCHANGED <<now, owner, operators, agreement, held, wallet>>
  BY DEF RevokeApproval, coins
<1> QED BY <1>1 DEF LedgerOK, TokensKept, Minted

LEMMA TokenStepLedger ==
  ASSUME LedgerOK, TokenStep
  PROVE  LedgerOK' /\ TokensKept /\ UNCHANGED <<now, held, wallet>>
<1> DEFINE Good == LedgerOK' /\ TokensKept /\ UNCHANGED <<now, held, wallet>>
<1>1. ASSUME NEW t \in Tokens, NEW u \in Users,
             Mint(t, u) \/ Burn(u, t) \/ RevokeApproval(t, u)
      PROVE  Good
  BY <1>1, MintStep, BurnStep, RevokeStep
<1>2. ASSUME NEW t \in Tokens, NEW u \in Users, Archive(u, t)
      PROVE  Good
  BY <1>2 DEF Archive, coins, permissions, LedgerOK, TokensKept, Minted
<1>3. ASSUME NEW t \in Tokens, NEW u \in Users, RemoveTransferAgreement(u, t)
      PROVE  Good
  BY <1>3 DEF RemoveTransferAgreement, Restrict, coins, permissions, LedgerOK, TokensKept, Minted
<1>4. ASSUME NEW t \in Tokens, NEW u \in Users,
             NEW price \in Prices, NEW purchaser \in Users \cup {Anybody},
             UpdateTransferAgreement(u, t, [amount |-> price, purchaser |-> purchaser])
      PROVE  Good
  <2>1. /\ agreement' = [r \in DOMAIN agreement \cup {t} |->
                           IF r = t THEN [amount |-> price, purchaser |-> purchaser] ELSE agreement[r]]
        /\ UNCHANGED <<now, owner, approvals, operators, held, wallet>>
    BY <1>4 DEF UpdateTransferAgreement, coins, permissions
  <2>2. price \in Nat
    BY Cw721Assumption
  <2>3. \A r \in DOMAIN agreement' : agreement'[r].amount \in Nat
    BY <2>1, <2>2 DEF LedgerOK
  <2> QED BY <2>1, <2>3 DEF LedgerOK, TokensKept, Minted
<1>5. ASSUME NEW t \in Tokens, NEW u \in Users, NEW contract \in Contracts,
             SendNft(u, t, contract)
      PROVE  Good
  <2>1. contract \in DOMAIN Purse
    BY Cw721Assumption
  <2> QED BY <1>5, <2>1, SendLedger DEF TokensKept
<1>6. ASSUME NEW t \in Tokens, NEW u \in Users, NEW spender \in Users, Approve(u, t, spender)
      PROVE  Good
  BY <1>6, ApproveStep
<1>7. ASSUME NEW u \in Users, NEW v \in Users, ApproveAll(u, v)
      PROVE  Good
  BY <1>7 DEF ApproveAll, coins, LedgerOK, TokensKept, Minted
<1>8. ASSUME NEW grant \in operators, RevokeAll(grant)
      PROVE  Good
  BY <1>8 DEF RevokeAll, coins, LedgerOK, TokensKept, Minted
<1> HIDE DEF Good
<1>9. Good
  BY <1>1, <1>2, <1>3, <1>4, <1>5, <1>6, <1>7, <1>8 DEF TokenStep
<1> QED BY <1>9 DEF Good

\* Transfers by users too, when no price is set.
LEMMA TokenOnlyLedger ==
  ASSUME LedgerOK, DOMAIN agreement = {}, TokenOnly
  PROVE  /\ LedgerOK' /\ TokensKept /\ DOMAIN agreement' = {}
         /\ UNCHANGED <<now, wallet>>
<1>1. agreement' = agreement
  BY DEF TokenOnly
<1>2. CASE TokenStep
  BY <1>1, <1>2, TokenStepLedger
<1>3. CASE PlainTransfer
  <2> DEFINE none == [v \in DOMAIN wallet |-> 0]
  <2>1. PICK s \in Users, t \in Tokens, u \in DOMAIN wallet : TransferNft(s, t, u, 0, 0, 0, none)
    BY <1>3 DEF PlainTransfer
  <2>2. s \in DOMAIN Purse /\ DOMAIN wallet = DOMAIN Purse
    BY Cw721Assumption DEF LedgerOK
  <2>3. \A v \in DOMAIN Purse : none[v] = 0 /\ wallet[v] \in Nat
    BY <2>2 DEF LedgerOK
  <2> HIDE DEF none
  <2>6. Covers(none)
    BY <2>3 DEF Covers
  <2>7. MovedFree(s, t, u, none)
    BY <2>1, <2>2, <2>6, FreeTransfer
  <2>4. /\ LedgerOK' /\ t \in Minted
        /\ Minted' = Minted /\ owner'[t] = u
        /\ \A r \in Minted \ {t} : owner'[r] = owner[r]
        /\ UNCHANGED <<now, agreement>>
        /\ owner[t] \in Users
        /\ \A v \in DOMAIN Purse : wallet'[v] = wallet[v] + none[v]
    BY <2>7 DEF MovedFree
  <2>5. wallet' = wallet
    <3>1. \A v \in DOMAIN Purse : wallet'[v] = wallet[v]
      BY <2>3, <2>4
    <3> QED BY <2>4, <3>1 DEF LedgerOK
  <2> QED BY <1>1, <2>4, <2>5 DEF TokensKept
<1> QED BY <1>2, <1>3 DEF TokenOnly
-----------------------------------------------------------------------------
(* Bids.                                                                    *)

FullOf(B) == [t \in DOMAIN B |-> FullAmount(B[t])]

IsBid(b) ==
  /\ b.purchaser \in Users
  /\ b.amount \in Nat /\ b.remaining \in Nat /\ b.tax \in Nat

\* The bids are well formed, and paid for in full.
BidsInv ==
  /\ IsFiniteSet(DOMAIN bids)
  /\ \A t \in DOMAIN bids : IsBid(bids[t])
  /\ escrow \in Nat /\ kept \in Nat
  /\ Escrowed

WithBid(B, t, b) == [r \in DOMAIN B \cup {t} |-> IF r = t THEN b ELSE B[r]]

\* A bid more, or in the place of another one.
LEMMA BidSet ==
  ASSUME NEW B, IsFiniteSet(DOMAIN B), \A t \in DOMAIN B : IsBid(B[t]),
         NEW t, NEW b, IsBid(b),
         NEW C, C = WithBid(B, t, b)
  PROVE  /\ IsFiniteSet(DOMAIN C) /\ \A r \in DOMAIN C : IsBid(C[r])
         /\ SumFunction(FullOf(C)) = SumFunction(FullOf(B)) + FullAmount(b)
                                      - (IF t \in DOMAIN B THEN FullAmount(B[t]) ELSE 0)
         /\ SumFunction(FullOf(B)) \in Int
<1>1. /\ DOMAIN C = DOMAIN B \cup {t} /\ IsFiniteSet(DOMAIN C)
      /\ \A r \in DOMAIN C : C[r] = IF r = t THEN b ELSE B[r]
  BY FS_AddElement DEF WithBid
<1>2. /\ DOMAIN FullOf(B) = DOMAIN B /\ DOMAIN FullOf(C) = DOMAIN C
      /\ \A r \in DOMAIN B : FullOf(B)[r] \in Int
      /\ \A r \in DOMAIN C : FullOf(C)[r] \in Int
      /\ \A r \in DOMAIN B \ {t} : FullOf(C)[r] = FullOf(B)[r]
      /\ FullOf(C)[t] = FullAmount(b)
      /\ t \in DOMAIN B => FullOf(B)[t] = FullAmount(B[t])
  BY <1>1 DEF FullOf, IsBid, FullAmount
<1>3. CASE t \in DOMAIN B
  <2>1. DOMAIN C = DOMAIN B
    BY <1>1, <1>3
  <2>2. SumFunctionOnSet(FullOf(C), DOMAIN B)
          = SumFunctionOnSet(FullOf(B), DOMAIN B) - FullOf(B)[t] + FullOf(C)[t]
    <3> DEFINE f == FullOf(B)  g == FullOf(C)  S == DOMAIN B
    <3>1. /\ \A x \in S : f[x] \in Int /\ g[x] \in Int
          /\ \A x \in S \ {t} : g[x] = f[x]
          /\ IsFiniteSet(S) /\ t \in S
      BY <1>2, <1>3, <2>1
    <3> HIDE DEF f, g, S
    <3>2. SumFunctionOnSet(g, S) = SumFunctionOnSet(f, S) - f[t] + g[t]
      BY <3>1, SumChange
    <3> QED BY <3>2 DEF f, g, S
  <2>3. SumFunctionOnSet(FullOf(B), DOMAIN B) \in Int
    BY <1>2, SumSplit
  <2>4. FullOf(B)[t] \in Int /\ FullOf(C)[t] \in Int
    BY <1>2, <1>3, <1>1
  <2> QED BY <1>1, <1>2, <1>3, <2>1, <2>2, <2>3, <2>4 DEF SumFunction, IsBid
<1>4. CASE t \notin DOMAIN B
  <2>1. SumFunctionOnSet(FullOf(C), DOMAIN B \cup {t})
          = SumFunctionOnSet(FullOf(B), DOMAIN B) + FullOf(C)[t]
    <3> DEFINE f == FullOf(B)  g == FullOf(C)  S == DOMAIN B
    <3>1. /\ \A x \in S : f[x] \in Int /\ g[x] = f[x]
          /\ IsFiniteSet(S) /\ t \notin S /\ g[t] \in Int
      BY <1>1, <1>2, <1>4
    <3> HIDE DEF f, g, S
    <3>2. SumFunctionOnSet(g, S \cup {t}) = SumFunctionOnSet(f, S) + g[t]
      BY <3>1, SumAdd
    <3> QED BY <3>2 DEF f, g, S
  <2>2. SumFunctionOnSet(FullOf(B), DOMAIN B) \in Int
    BY <1>2, SumSplit
  <2>3. FullOf(C)[t] \in Int
    BY <1>1, <1>2
  <2> QED BY <1>1, <1>2, <1>4, <2>1, <2>2, <2>3 DEF SumFunction, IsBid
<1> QED BY <1>3, <1>4

\* A bid that is over.
LEMMA BidGone ==
  ASSUME NEW B, IsFiniteSet(DOMAIN B), \A t \in DOMAIN B : IsBid(B[t]),
         NEW t \in DOMAIN B,
         NEW C, C = Restrict(B, DOMAIN B \ {t})
  PROVE  /\ IsFiniteSet(DOMAIN C) /\ \A r \in DOMAIN C : IsBid(C[r])
         /\ SumFunction(FullOf(C)) = SumFunction(FullOf(B)) - FullAmount(B[t])
         /\ SumFunction(FullOf(B)) \in Int
<1>1. DOMAIN C = DOMAIN B \ {t} /\ IsFiniteSet(DOMAIN C) /\ \A r \in DOMAIN C : C[r] = B[r]
  BY FS_RemoveElement DEF Restrict
<1> DEFINE f == FullOf(B)  g == FullOf(C)  S == DOMAIN B
<1>2. /\ DOMAIN f = S /\ DOMAIN g = S \ {t}
      /\ \A r \in S : f[r] = FullAmount(B[r]) /\ f[r] \in Int
  BY <1>1 DEF FullOf, IsBid, FullAmount
<1>3. \A r \in S \ {t} : g[r] \in Int /\ g[r] = f[r]
  BY <1>1, <1>2 DEF FullOf
<1>4. IsFiniteSet(S) /\ IsFiniteSet(S \ {t}) /\ t \in S
  BY <1>1
<1> HIDE DEF f, g, S
<1>5. SumFunctionOnSet(f, S) \in Int /\ SumFunctionOnSet(f, S) = f[t] + SumFunctionOnSet(f, S \ {t})
  BY <1>2, <1>4, SumSplit
<1>6. SumFunctionOnSet(g, S \ {t}) = SumFunctionOnSet(f, S \ {t})
  BY <1>3, <1>4, SumCongruence
<1>7. SumFunctionOnSet(g, S \ {t}) \in Int
  BY <1>3, <1>4, SumSplit
<1>8. SumFunctionOnSet(g, S \ {t}) = SumFunctionOnSet(f, S) - f[t]
  BY <1>2, <1>4, <1>5, <1>6, <1>7
<1>9. SumFunction(g) = SumFunction(f) - FullAmount(B[t]) /\ SumFunction(f) \in Int
  BY <1>2, <1>4, <1>5, <1>8 DEF SumFunction
<1>10. \A r \in DOMAIN C : IsBid(C[r])
  BY <1>1
<1> QED BY <1>1, <1>9, <1>10 DEF f, g
\* The steps of the bids: what a bid becomes, and where its coins go.
LEMMA PlaceBidStep ==
  ASSUME LedgerOK, BidsInv, NEW s \in Users, NEW t \in Tokens,
         NEW amount \in BidAmounts, NEW expiration \in Expirations, NEW royalty \in Royalties,
         NEW tax \in Taxes, NEW excess \in Excess,
         PlaceBid(s, t, amount, expiration, royalty, tax, excess)
  PROVE  LedgerOK' /\ BidsInv' /\ BidEnds
<1> DEFINE b == [purchaser |-> s, amount |-> amount, remaining |-> amount - royalty,
                 tax |-> tax, expiration |-> expiration]
           full == FullAmount(b)
           back == Returned(t)
<1>1. /\ b.remaining >= 0
      /\ t \in DOMAIN bids => s # bids[t].purchaser
      /\ full + excess \in 1 .. wallet[s] /\ escrow >= back
      /\ bids' = [r \in DOMAIN bids \cup {t} |-> IF r = t THEN b ELSE bids[r]]
      /\ escrow' = escrow + full + excess - back
      /\ kept' = kept + excess
      /\ wallet' = [u \in DOMAIN wallet |-> wallet[u]
                      - (IF u = s THEN full + excess ELSE 0)
                      + (IF t \in DOMAIN bids /\ u = bids[t].purchaser THEN back ELSE 0)]
      /\ UNCHANGED <<now, owner, approvals, operators, agreement, archived, held>>
  BY DEF PlaceBid, OnFundsTransfer, permissions
<1>2. /\ amount \in Nat /\ royalty \in Nat /\ tax \in Nat /\ excess \in Nat
  BY Cw721Assumption, Cw721BidsAssumption
<1>3. IsBid(b) /\ full \in Nat
  BY <1>1, <1>2 DEF IsBid, FullAmount
<1>4. back \in Nat
  BY DEF Returned, BidsInv, IsBid, FullAmount
<1>5. /\ DOMAIN wallet = DOMAIN Purse /\ \A v \in DOMAIN Purse : wallet[v] \in Nat
      /\ s \in DOMAIN Purse
  BY Cw721Assumption DEF LedgerOK
<1>6. back = IF t \in DOMAIN bids THEN FullAmount(bids[t]) ELSE 0
  BY DEF Returned
<1> HIDE DEF b, full, back
<1>7. wallet' \in [DOMAIN Purse -> Nat]
  <2>1. ASSUME NEW v \in DOMAIN Purse PROVE wallet'[v] \in Nat
    BY <1>1, <1>2, <1>3, <1>4, <1>5
  <2> QED BY <1>1, <1>5, <2>1
<1>8. LedgerOK'
  BY <1>1, <1>7 DEF LedgerOK, Minted
<1>9. /\ IsFiniteSet(DOMAIN bids') /\ \A r \in DOMAIN bids' : IsBid(bids'[r])
      /\ SumFunction(FullOf(bids')) = SumFunction(FullOf(bids)) + FullAmount(b)
                                   - (IF t \in DOMAIN bids THEN FullAmount(bids[t]) ELSE 0)
      /\ SumFunction(FullOf(bids)) \in Int
  <2>1. IsFiniteSet(DOMAIN bids) /\ (\A r \in DOMAIN bids : IsBid(bids[r])) /\ IsBid(b)
    BY <1>3 DEF BidsInv
  <2>2. bids' = WithBid(bids, t, b)
    BY <1>1 DEF WithBid
  <2> QED BY <2>1, <2>2, BidSet
<1>10. escrow = kept + SumFunction(FullOf(bids)) /\ escrow \in Nat /\ kept \in Nat
  BY DEF BidsInv, Escrowed, FullOf
<1>11. SumFunction(FullOf(bids')) = SumFunction(FullOf(bids)) + full - back
  BY <1>6, <1>9 DEF full
<1>12. escrow' \in Nat /\ kept' \in Nat /\ escrow' = kept' + SumFunction(FullOf(bids'))
  BY <1>1, <1>2, <1>3, <1>4, <1>9, <1>10, <1>11
<1>13. BidsInv'
  BY <1>9, <1>12 DEF BidsInv, Escrowed, FullOf, IsBid, FullAmount
<1>14. BidEnds
  <2> SUFFICES ASSUME NEW r \in DOMAIN bids
               PROVE  \/ r \in DOMAIN bids' /\ bids'[r].purchaser = bids[r].purchaser
                      \/ Settles(r, bids[r].purchaser)
    BY DEF BidEnds
  <2>1. CASE r # t
    BY <1>1, <2>1
  <2>2. CASE r = t
    <3> DEFINE p == bids[r].purchaser
    <3>1. p \in DOMAIN Purse
      BY Cw721Assumption DEF BidsInv, IsBid
    <3>2. p # s /\ t \in DOMAIN bids /\ p = bids[t].purchaser
      BY <1>1, <2>2
    <3> HIDE DEF p
    <3>3. wallet'[p] = wallet[p] - 0 + back
      BY <1>1, <1>5, <3>1, <3>2
    <3>4. wallet'[p] = wallet[p] + FullAmount(bids[r])
      BY <1>4, <1>5, <1>6, <2>2, <3>1, <3>2, <3>3
    <3> QED BY <1>1, <3>4 DEF Settles, p
  <2> QED BY <2>1, <2>2
<1> QED BY <1>8, <1>13, <1>14

LEMMA CancelBidStep ==
  ASSUME LedgerOK, BidsInv, NEW s \in Users, NEW t \in Tokens, CancelBid(s, t)
  PROVE  LedgerOK' /\ BidsInv' /\ BidEnds
<1> DEFINE full == FullAmount(bids[t])
<1>1. /\ t \in DOMAIN bids /\ bids[t].purchaser = s
      /\ 0 < full /\ full <= escrow
      /\ bids' = Restrict(bids, DOMAIN bids \ {t})
      /\ escrow' = escrow - full /\ kept' = kept
      /\ wallet' = [wallet EXCEPT ![s] = @ + full]
      /\ UNCHANGED <<now, owner, approvals, operators, agreement, archived, held>>
  BY DEF CancelBid, permissions
<1>2. full \in Nat
  BY <1>1 DEF BidsInv, IsBid, FullAmount
<1>3. s \in DOMAIN Purse /\ wallet \in [DOMAIN Purse -> Nat]
  BY Cw721Assumption DEF LedgerOK
<1>4. /\ IsFiniteSet(DOMAIN bids') /\ \A r \in DOMAIN bids' : IsBid(bids'[r])
      /\ SumFunction(FullOf(bids')) = SumFunction(FullOf(bids)) - full
      /\ SumFunction(FullOf(bids)) \in Int
  BY <1>1, BidGone DEF BidsInv
<1>5. escrow = kept + SumFunction(FullOf(bids)) /\ escrow \in Nat /\ kept \in Nat
  BY DEF BidsInv, Escrowed, FullOf
<1>6. Settles(t, s)
  BY <1>1, <1>3 DEF Settles
<1> HIDE DEF full
<1>7. escrow' \in Nat /\ kept' \in Nat /\ escrow' = kept' + SumFunction(FullOf(bids'))
  BY <1>1, <1>2, <1>4, <1>5
<1>8. wallet' \in [DOMAIN Purse -> Nat]
  BY <1>1, <1>2, <1>3
<1>9. LedgerOK'
  BY <1>1, <1>8 DEF LedgerOK, Minted
<1>10. BidsInv'
  BY <1>4, <1>7 DEF BidsInv, Escrowed, FullOf, IsBid, FullAmount
<1>11. BidEnds
  BY <1>1, <1>6 DEF BidEnds, Restrict
<1> QED BY <1>9, <1>10, <1>11
\* A transfer, and with it the bid that is accepted.
LEMMA BidTransferStep ==
  ASSUME LedgerOK, BidsInv, NEW s \in Users, NEW t, NEW u \in Users, NEW funds \in Funds,
         NEW royalty \in Royalties, NEW tax \in Taxes, Transfer(s, t, u, funds, royalty, tax)
  PROVE  LedgerOK' /\ BidsInv' /\ BidEnds
<1> DEFINE received == [v \in DOMAIN wallet |->
                          IF v = s /\ Accepts(t, u) THEN bids[t].remaining ELSE 0]
<1>1. /\ TransferNft(s, t, u, funds, royalty, tax, received)
      /\ IF Accepts(t, u) THEN AcceptBid(t) ELSE UNCHANGED <<bids, escrow>>
      /\ kept' = kept
  BY DEF Transfer
<1>2. funds \in Nat /\ royalty \in Nat /\ tax \in Nat /\ u \in DOMAIN Purse /\ s \in DOMAIN Purse
  BY Cw721Assumption
<1>3. /\ \A v \in DOMAIN Purse : received[v] \in Nat
      /\ \A v \in DOMAIN Purse : v # s => received[v] = 0
  BY DEF LedgerOK, BidsInv, IsBid, Accepts
<1> HIDE DEF received
<1>4. Gives(received)
  BY <1>3 DEF Gives
<1>5. Moved(s, t, u)
  BY <1>1, <1>2, <1>4, TransferLedger
<1>6. LedgerOK' /\ owner'[t] = u /\ t \in Minted /\ Minted' = Minted
  BY <1>5 DEF Moved
<1>7. CASE ~Accepts(t, u)
  BY <1>1, <1>6, <1>7 DEF BidsInv, Escrowed, IsBid, FullAmount, BidEnds
<1>8. CASE Accepts(t, u)
  <2> DEFINE full == FullAmount(bids[t])
  <2>1. /\ t \in DOMAIN bids /\ bids[t].purchaser = u
        /\ t \notin DOMAIN agreement
        /\ escrow >= full
        /\ bids' = Restrict(bids, DOMAIN bids \ {t})
        /\ escrow' = escrow - full
    BY <1>1, <1>8 DEF Accepts, AcceptBid
  <2>2. full \in Nat
    BY <2>1 DEF BidsInv, IsBid, FullAmount
  <2> HIDE DEF full
  <2>3. /\ IsFiniteSet(DOMAIN bids') /\ \A r \in DOMAIN bids' : IsBid(bids'[r])
        /\ SumFunction(FullOf(bids')) = SumFunction(FullOf(bids)) - full
        /\ SumFunction(FullOf(bids)) \in Int
    BY <2>1, BidGone DEF BidsInv, full
  <2>4. escrow = kept + SumFunction(FullOf(bids)) /\ escrow \in Nat /\ kept \in Nat
    BY DEF BidsInv, Escrowed, FullOf
  <2>5. escrow' \in Nat /\ kept' \in Nat /\ escrow' = kept' + SumFunction(FullOf(bids'))
    BY <1>1, <2>1, <2>2, <2>3, <2>4
  <2>6. BidsInv'
    BY <2>3, <2>5 DEF BidsInv, Escrowed, FullOf, IsBid, FullAmount
  <2>7. CASE u = s
    <3>1. s = owner[t] \/ Approved(s, t)
      BY <1>1, <2>1 DEF TransferNft, MaySend
    <3> QED BY <1>6, <2>1, <2>6, <2>7, <3>1 DEF BidEnds, Restrict
  <2>8. CASE u # s
    <3>1. wallet' = [v \in DOMAIN wallet |-> wallet[v] + received[v]
                                    - (IF v = s THEN funds ELSE 0)
                                    + (IF v = owner[t] THEN 0 ELSE 0)]
      BY <1>1, <2>1 DEF TransferNft
    <3>2. received[u] = 0 /\ wallet[u] \in Nat /\ u \in DOMAIN wallet
      BY <1>2, <1>3, <2>8 DEF LedgerOK
    <3>3. wallet'[u] = wallet[u]
      BY <2>8, <3>1, <3>2
    <3>4. Settles(t, u)
      BY <1>6, <3>3 DEF Settles, Minted
    <3> QED BY <1>6, <2>1, <2>6, <3>4 DEF BidEnds, Restrict
  <2> QED BY <2>7, <2>8
<1> QED BY <1>7, <1>8

LEMMA BidsStep ==
  ASSUME LedgerOK, BidsInv, Next
  PROVE  LedgerOK' /\ BidsInv' /\ BidEnds
<1>1. ASSUME UNCHANGED bidVars
      PROVE  BidsInv' /\ BidEnds
  BY <1>1 DEF BidsInv, Escrowed, IsBid, FullAmount, BidEnds, bidVars
<1>2. CASE Tick /\ UNCHANGED bidVars
  <2>1. LedgerOK'
    BY <1>2 DEF Tick, cw721Vars, LedgerOK, Minted
  <2> QED BY <1>1, <1>2, <2>1
<1>3. CASE TokenStep /\ UNCHANGED bidVars
  BY <1>1, <1>3, TokenStepLedger
<1>4. ASSUME NEW s \in Users, NEW t \in Tokens, CancelBid(s, t)
      PROVE  LedgerOK' /\ BidsInv' /\ BidEnds
  BY <1>4, CancelBidStep
<1>5. ASSUME NEW s \in Users, NEW t \in Tokens, NEW royalty \in Royalties, NEW tax \in Taxes,
             NEW u \in Users, NEW funds \in Funds, Transfer(s, t, u, funds, royalty, tax)
      PROVE  LedgerOK' /\ BidsInv' /\ BidEnds
  BY <1>5, BidTransferStep
<1>6. ASSUME NEW s \in Users, NEW t \in Tokens, NEW royalty \in Royalties, NEW tax \in Taxes,
             NEW amount \in BidAmounts, NEW expiration \in Expirations, NEW excess \in Excess,
             PlaceBid(s, t, amount, expiration, royalty, tax, excess)
      PROVE  LedgerOK' /\ BidsInv' /\ BidEnds
  BY <1>6, PlaceBidStep
<1> QED BY <1>2, <1>3, <1>4, <1>5, <1>6 DEF Next

\* A transfer for a price, from one who is not the owner.
LEMMA PricePaid ==
  ASSUME LedgerOK PROVE TransferPays
<1> SUFFICES ASSUME NEW s \in Users, NEW t \in DOMAIN agreement, NEW u \in Users,
                    NEW funds \in Funds, NEW royalty \in Royalties, NEW tax \in Taxes,
                    Transfer(s, t, u, funds, royalty, tax), s # owner[t]
             PROVE  /\ wallet'[owner[t]] = wallet[owner[t]] + agreement[t].amount - royalty
                    /\ wallet[s] - wallet'[s] >= agreement[t].amount + tax
                    /\ held' >= held
                    /\ bids' = bids
  BY DEF TransferPays
<1> DEFINE price == agreement[t].amount
           received == [v \in DOMAIN wallet |->
                          IF v = s /\ Accepts(t, u) THEN bids[t].remaining ELSE 0]
<1>1. /\ TransferNft(s, t, u, funds, royalty, tax, received)
      /\ ~Accepts(t, u) /\ bids' = bids
  BY DEF Transfer, AcceptBid
<1>2. \A v \in DOMAIN wallet : received[v] = 0
  BY <1>1
<1> HIDE DEF received
<1>3. /\ t \in Minted
      /\ funds >= price + tax
      /\ held' = held + funds - (price + tax)
      /\ wallet' = [v \in DOMAIN wallet |-> wallet[v] + received[v]
                                    - (IF v = s THEN funds ELSE 0)
                                    + (IF v = owner[t] THEN price - royalty ELSE 0)]
  BY <1>1 DEF TransferNft, MaySend
<1>4. /\ funds \in Nat /\ royalty \in Nat /\ tax \in Nat /\ price \in Nat /\ held \in Nat
      /\ s \in DOMAIN Purse /\ owner[t] \in DOMAIN Purse
      /\ DOMAIN wallet = DOMAIN Purse /\ \A v \in DOMAIN Purse : wallet[v] \in Nat
  BY <1>3, Cw721Assumption DEF LedgerOK
<1> HIDE DEF price
<1>5. wallet'[owner[t]] = wallet[owner[t]] + price - royalty
  BY <1>2, <1>3, <1>4
<1>6. wallet'[s] = wallet[s] - funds
  BY <1>2, <1>3, <1>4
<1> QED BY <1>1, <1>3, <1>4, <1>5, <1>6 DEF price
-----------------------------------------------------------------------------
(* Deposits: the venues other than the bids.                                *)

\* What every step does to a token: it gets to its new owner.
Given(t, u) ==
  /\ t \in Minted /\ Minted' = Minted /\ owner'[t] = u
  /\ \A r \in Minted \ {t} : owner'[r] = owner[r]

\* A token that a user sends to a contract comes from a user.
LEMMA Deposited ==
  ASSUME LedgerOK, NEW s \in Users, NEW t, NEW c \in DOMAIN Purse, SendNft(s, t, c)
  PROVE  LedgerOK' /\ Given(t, c) /\ owner[t] \in Users /\ UNCHANGED <<now, agreement, wallet>>
BY SendLedger DEF Given

\* A token that a contract transfers is its own.
LEMMA Delivered ==
  ASSUME LedgerOK, DOMAIN agreement = {},
         NEW c, c \notin Users, NEW t, NEW u \in DOMAIN Purse, NEW royalty, NEW tax,
         NEW received, Covers(received),
         TransferNft(c, t, u, 0, royalty, tax, received)
  PROVE  /\ LedgerOK' /\ Given(t, u) /\ owner[t] = c /\ UNCHANGED <<now, agreement>>
         /\ \A v \in DOMAIN Purse : wallet'[v] = wallet[v] + received[v]
<1>1. MovedFree(c, t, u, received)
  BY FreeTransfer
<1> QED BY <1>1 DEF MovedFree, Given

\* What a step does to the deposits of a venue c; f says to whom each is owed,
\* and g afterwards: a token comes, goes to u, or neither.
Begun(f, g, t, c) ==
  /\ t \notin DOMAIN f /\ DOMAIN g = DOMAIN f \cup {t}
  /\ \A r \in DOMAIN f : g[r] = f[r]
  /\ Given(t, c)

Ended(f, g, t, u) ==
  /\ t \in DOMAIN f /\ DOMAIN g = DOMAIN f \ {t}
  /\ \A r \in DOMAIN g : g[r] = f[r]
  /\ Given(t, u)

Stay(f, g) ==
  /\ g = f
  /\ \A r \in DOMAIN f : r \in Minted' /\ owner'[r] = owner[r]

\* A deposit ends in the hands of the one it is owed to, or with coins for it.
Faithful(f, g, c) ==
  \/ Stay(f, g)
  \/ \E t \in Minted :
       \/ Begun(f, g, t, c)
       \/ \E u \in Users : Ended(f, g, t, u) /\ (u = f[t] \/ wallet'[f[t]] > wallet[f[t]])

LEMMA CoversNothing ==
  ASSUME LedgerOK PROVE Covers([v \in DOMAIN wallet |-> 0])
BY DEF LedgerOK, Covers

\* Tokens under a lock are in the time lock, for a user.
LockInv ==
  \A t \in DOMAIN lockedItems :
    /\ t \in Minted /\ owner[t] = TokenLock
    /\ lockedItems[t].recipient \in Users
    /\ lockedItems[t].expiration \in Nat

Recipients == [t \in DOMAIN lockedItems |-> lockedItems[t].recipient]

LEMMA LockVenueStep ==
  ASSUME LedgerOK, DOMAIN agreement = {}, LockInv, LockNext
  PROVE  /\ LedgerOK' /\ DOMAIN agreement' = {} /\ LockInv' /\ StaysLocked
         /\ Faithful(Recipients, Recipients', TokenLock)
<1> DEFINE Good == /\ LedgerOK' /\ DOMAIN agreement' = {} /\ LockInv' /\ StaysLocked
                   /\ Faithful(Recipients, Recipients', TokenLock)
<1>0. TokenLock \in DOMAIN Purse /\ TokenLock \notin Users /\ Users \subseteq DOMAIN Purse
  BY Cw721Assumption, Cw721TimelockAssumption
<1>1. CASE TokenOnly /\ UNCHANGED lockedItems
  <2>1. Stay(Recipients, Recipients')
    BY <1>0, <1>1, TokenOnlyLedger DEF TokensKept, LockInv, Stay, Recipients
  <2> QED BY <1>0, <1>1, <2>1, TokenOnlyLedger DEF TokensKept, LockInv, StaysLocked, Faithful
<1>2. CASE Tick /\ UNCHANGED lockedItems
  <2>1. LedgerOK'
    BY <1>2 DEF Tick, cw721Vars, LedgerOK, Minted
  <2>2. Stay(Recipients, Recipients')
    BY <1>2 DEF Tick, cw721Vars, LockInv, Stay, Recipients, Minted
  <2> QED BY <1>2, <2>1, <2>2 DEF Tick, cw721Vars, LockInv, StaysLocked, Minted, Faithful
<1>3. ASSUME NEW t \in Tokens, NEW s \in Users, NEW recipient \in Users, NEW lockTime \in LockTimes,
             LockToken(s, t, recipient, lockTime)
      PROVE  Good
  <2>1. /\ t \notin DOMAIN lockedItems
        /\ SendNft(s, t, TokenLock)
        /\ lockedItems' = [r \in DOMAIN lockedItems \cup {t} |->
             IF r = t THEN [recipient |-> recipient, expiration |-> now + lockTime]
                      ELSE lockedItems[r]]
    BY <1>3 DEF LockToken
  <2>2. LedgerOK' /\ Given(t, TokenLock) /\ agreement' = agreement
    BY <1>0, <2>1, Deposited
  <2>3. now + lockTime \in Nat
    BY Cw721TimelockAssumption DEF LedgerOK
  <2>4. /\ \A r \in DOMAIN lockedItems : r # t /\ r \in DOMAIN lockedItems' /\ lockedItems'[r] = lockedItems[r]
        /\ DOMAIN lockedItems' = DOMAIN lockedItems \cup {t}
        /\ lockedItems'[t].recipient \in Users /\ lockedItems'[t].expiration \in Nat
    BY <2>1, <2>3
  <2>5. Begun(Recipients, Recipients', t, TokenLock)
    BY <2>1, <2>2, <2>4 DEF Begun, Recipients
  <2>6. LockInv' /\ StaysLocked
    BY <2>2, <2>4 DEF Given, LockInv, StaysLocked
  <2> QED BY <2>2, <2>5, <2>6 DEF Faithful, Given
<1>4. ASSUME NEW t \in Tokens, NEW royalty \in Royalties, NEW tax \in Taxes,
             ClaimLocked(t, royalty, tax)
      PROVE  Good
  <2> DEFINE u == lockedItems[t].recipient
             none == [v \in DOMAIN wallet |-> 0]
  <2>1. /\ t \in DOMAIN lockedItems /\ now >= lockedItems[t].expiration
        /\ TransferNft(TokenLock, t, u, 0, royalty, tax, none)
        /\ DOMAIN lockedItems' = DOMAIN lockedItems \ {t}
        /\ \A r \in DOMAIN lockedItems' : lockedItems'[r] = lockedItems[r]
    BY <1>4 DEF ClaimLocked, Restrict
  <2>2. u \in DOMAIN Purse /\ Covers(none)
    BY <1>0, <2>1, CoversNothing DEF LockInv
  <2>3. now \in Nat /\ lockedItems[t].expiration \in Nat
    BY <2>1 DEF LedgerOK, LockInv
  <2> HIDE DEF u, none
  <2>4. LedgerOK' /\ Given(t, u) /\ agreement' = agreement
    BY <1>0, <2>1, <2>2, Delivered
  <2>5. Ended(Recipients, Recipients', t, Recipients[t]) /\ Recipients[t] \in Users
    BY <2>1, <2>4 DEF Ended, Recipients, u, LockInv
  <2>6. LockInv' /\ StaysLocked
    BY <2>1, <2>3, <2>4 DEF Given, LockInv, StaysLocked
  <2> QED BY <2>4, <2>5, <2>6 DEF Faithful, Given
<1> HIDE DEF Good
<1>5. Good
  <2>1. CASE LockStep
    BY <1>3, <1>4, <2>1 DEF LockStep
  <2> QED BY <1>1, <1>2, <2>1 DEF LockNext, Good
<1> QED BY <1>5 DEF Good
-----------------------------------------------------------------------------
(* Wrapped tokens.                                                          *)

WrapInv ==
  /\ DOMAIN original = DOMAIN wrappedOwner
  /\ DOMAIN wrappedOwner \subseteq WrappedIds
  /\ WrappedBacked

\* The wrapper's state: it has what every wrapped token stands for.
LEMMA WrapVenueStep ==
  ASSUME LedgerOK, DOMAIN agreement = {}, WrapInv, WrapNext
  PROVE  LedgerOK' /\ DOMAIN agreement' = {} /\ WrapInv'
<1> DEFINE Good == LedgerOK' /\ DOMAIN agreement' = {} /\ WrapInv'
<1>0. /\ Wrapper \in DOMAIN Purse /\ Wrapper \notin Users /\ Users \subseteq DOMAIN Purse
      /\ WrapOwners \subseteq Users
      /\ \A t \in Minted : t \notin WrappedIds
  BY Cw721Assumption, WrappedAssumption DEF LedgerOK
<1>1. CASE TokenOnly /\ UNCHANGED wrapVars
  BY <1>0, <1>1, TokenOnlyLedger DEF TokensKept, WrapInv, WrappedBacked, wrapVars
<1>u. ASSUME UNCHANGED <<cw721Vars, now>>
      PROVE  LedgerOK' /\ DOMAIN agreement' = DOMAIN agreement /\ UNCHANGED owner /\ Minted' = Minted
  BY <1>u DEF cw721Vars, LedgerOK, Minted
<1>2. ASSUME NEW s \in Users, NEW w \in WrappedIds, NEW t \in Tokens, Wrap(s, t, w)
      PROVE  Good
  <2>1. /\ SendNft(s, t, Wrapper)
        /\ w \notin DOMAIN wrappedOwner
        /\ wrappedOwner' = [x \in DOMAIN wrappedOwner \cup {w} |-> IF x = w THEN s ELSE wrappedOwner[x]]
        /\ original' = [x \in DOMAIN original \cup {w} |-> IF x = w THEN t ELSE original[x]]
    BY <1>2 DEF Wrap, MintWrapped
  <2>2. LedgerOK' /\ Given(t, Wrapper) /\ owner[t] \in Users /\ agreement' = agreement
    BY <1>0, <2>1, Deposited
  <2>3. \A x \in DOMAIN wrappedOwner : original[x] # t
    BY <1>0, <2>2 DEF WrapInv, WrappedBacked, Given
  <2>4. /\ DOMAIN original' = DOMAIN wrappedOwner'
        /\ DOMAIN wrappedOwner' = DOMAIN wrappedOwner \cup {w}
        /\ original'[w] = t
        /\ \A x \in DOMAIN wrappedOwner :
             x # w /\ original'[x] = original[x] /\ wrappedOwner'[x] = wrappedOwner[x]
    BY <2>1 DEF WrapInv
  <2>5. WrappedBacked'
    BY <2>2, <2>3, <2>4 DEF WrapInv, WrappedBacked, Given
  <2> QED BY <2>2, <2>4, <2>5 DEF WrapInv
<1>3. ASSUME NEW s \in Users, NEW w \in WrappedIds, NEW v \in WrappedIds, WrapAgain(s, v, w)
      PROVE  Good
  <2>1. /\ v \in DOMAIN wrappedOwner /\ wrappedOwner[v] = s
        /\ w \notin DOMAIN wrappedOwner
        /\ DOMAIN wrappedOwner' = DOMAIN wrappedOwner \cup {w}
        /\ DOMAIN original' = DOMAIN original \cup {w}
        /\ wrappedOwner'[v] = Wrapper /\ original'[w] = v
        /\ \A x \in DOMAIN wrappedOwner \ {v} : x # w /\ wrappedOwner'[x] = wrappedOwner[x]
        /\ \A x \in DOMAIN original \ {w} : original'[x] = original[x]
        /\ UNCHANGED <<cw721Vars, now>>
    BY <1>3 DEF WrapAgain, MintWrapped
  <2>2. \A x \in DOMAIN wrappedOwner : original[x] # v
    BY <1>0, <2>1 DEF WrapInv, WrappedBacked
  <2>3. WrappedBacked'
    BY <1>0, <1>u, <2>1, <2>2 DEF WrapInv, WrappedBacked
  <2> QED BY <1>u, <2>1, <2>3 DEF WrapInv
<1>4. ASSUME NEW s \in Users, NEW w \in WrappedIds, NEW royalty \in Royalties, NEW tax \in Taxes,
             Unwrap(s, w, royalty, tax)
      PROVE  Good
  <2> DEFINE o == original[w]
  <2>1. /\ w \in DOMAIN wrappedOwner /\ wrappedOwner[w] = s
        /\ DOMAIN original' = DOMAIN original \ {w}
        /\ \A x \in DOMAIN original' : original'[x] = original[x]
    BY <1>4 DEF Unwrap, Burned, Restrict
  <2>2. \A x \in DOMAIN wrappedOwner \ {w} : original[x] # o /\ original[x] # w
    BY <1>0, <2>1 DEF WrapInv, WrappedBacked
  <2>3. CASE /\ TransferNft(Wrapper, o, s, 0, royalty, tax, [v \in DOMAIN wallet |-> 0])
             /\ wrappedOwner' = Burned(wrappedOwner, w)
    <3> DEFINE none == [v \in DOMAIN wallet |-> 0]
    <3>1. s \in DOMAIN Purse /\ Covers(none) /\ TransferNft(Wrapper, o, s, 0, royalty, tax, none)
      BY <1>0, <2>3, CoversNothing
    <3> HIDE DEF none, o
    <3>2. LedgerOK' /\ Given(o, s) /\ agreement' = agreement
      BY <1>0, <3>1, Delivered
    <3>3. /\ DOMAIN wrappedOwner' = DOMAIN wrappedOwner \ {w}
          /\ \A x \in DOMAIN wrappedOwner' : wrappedOwner'[x] = wrappedOwner[x]
      BY <2>3 DEF Burned, Restrict
    <3>4. WrappedBacked'
      BY <2>1, <2>2, <3>2, <3>3 DEF WrapInv, WrappedBacked, Given
    <3> QED BY <2>1, <3>2, <3>3, <3>4 DEF WrapInv
  <2>4. CASE /\ o \in DOMAIN wrappedOwner /\ wrappedOwner[o] = Wrapper
             /\ wrappedOwner' = [Burned(wrappedOwner, w) EXCEPT ![o] = s]
             /\ UNCHANGED <<cw721Vars, now>>
    <3>1. o # w
      BY <1>0, <2>1, <2>4
    <3> HIDE DEF o
    <3>2. /\ DOMAIN wrappedOwner' = DOMAIN wrappedOwner \ {w}
          /\ \A x \in DOMAIN wrappedOwner' \ {o} : wrappedOwner'[x] = wrappedOwner[x]
      BY <2>4 DEF Burned, Restrict
    <3>3. WrappedBacked'
      BY <1>u, <2>1, <2>2, <2>4, <3>2 DEF WrapInv, WrappedBacked
    <3> QED BY <1>u, <2>1, <2>4, <3>2, <3>3 DEF WrapInv
  <2> QED BY <1>4, <2>3, <2>4 DEF Unwrap
<1>5. ASSUME NEW s \in Users, NEW w \in WrappedIds, NEW u \in Users, TransferWrapped(s, w, u)
      PROVE  Good
  <2>1. /\ w \in DOMAIN wrappedOwner /\ wrappedOwner[w] = s
        /\ DOMAIN wrappedOwner' = DOMAIN wrappedOwner
        /\ \A x \in DOMAIN wrappedOwner \ {w} : wrappedOwner'[x] = wrappedOwner[x]
        /\ UNCHANGED <<cw721Vars, now>> /\ original' = original
    BY <1>5 DEF TransferWrapped
  <2>2. WrappedBacked'
    BY <1>0, <1>u, <2>1 DEF WrapInv, WrappedBacked
  <2> QED BY <1>u, <2>1, <2>2 DEF WrapInv
<1>6. ASSUME NEW s \in Users, NEW w \in WrappedIds, BurnWrapped(s, w)
      PROVE  Good
  <2>1. /\ w \in DOMAIN wrappedOwner /\ wrappedOwner[w] = s
        /\ DOMAIN wrappedOwner' = DOMAIN wrappedOwner \ {w}
        /\ DOMAIN original' = DOMAIN original \ {w}
        /\ \A x \in DOMAIN wrappedOwner' : wrappedOwner'[x] = wrappedOwner[x]
        /\ \A x \in DOMAIN original' : original'[x] = original[x]
        /\ UNCHANGED <<cw721Vars, now>>
    BY <1>6 DEF BurnWrapped, Burned, Restrict
  <2>2. WrappedBacked'
    BY <1>0, <1>u, <2>1 DEF WrapInv, WrappedBacked
  <2> QED BY <1>u, <2>1, <2>2 DEF WrapInv
<1> HIDE DEF Good
<1>7. Good
  <2>1. CASE WrapStep
    BY <1>2, <1>3, <1>4, <1>5, <1>6, <2>1 DEF WrapStep
  <2> QED BY <1>1, <2>1 DEF WrapNext, Good
<1> QED BY <1>7 DEF Good
-----------------------------------------------------------------------------
(* The gumball machine.                                                     *)

GumInv ==
  /\ list \in Seq(Tokens)
  /\ state.price \in Nat
  /\ StockHeld

\* Taking one out of a list leaves the others, each once.
LEMMA SwapRemoveFacts ==
  ASSUME NEW S, NEW s \in Seq(S), IsInjective(s), NEW i \in 1 .. Len(s)
  PROVE  /\ SwapRemove(s, i) \in Seq(S) /\ IsInjective(SwapRemove(s, i))
         /\ \A j \in 1 .. Len(SwapRemove(s, i)) :
              \E k \in 1 .. Len(s) : k # i /\ SwapRemove(s, i)[j] = s[k]
<1> DEFINE r == SwapRemove(s, i)
           n == Len(s)
           w == [s EXCEPT ![i] = s[n]]
<1>1. n \in Nat /\ n >= 1 /\ n - 1 \in Nat
  OBVIOUS
<1>2. w \in Seq(S) /\ Len(w) = n /\ \A j \in 1 .. n : w[j] = IF j = i THEN s[n] ELSE s[j]
  OBVIOUS
<1>3. r = SubSeq(w, 1, n - 1)
  BY <1>2 DEF SwapRemove, Front, Last
<1> HIDE DEF w, r
<1>4. r \in Seq(S) /\ Len(r) = n - 1 /\ \A j \in 1 .. (n - 1) : r[j] = w[j]
  BY <1>1, <1>2, <1>3
<1>5. ASSUME NEW j \in 1 .. (n - 1)
      PROVE  \E k \in 1 .. n : k # i /\ r[j] = s[k] /\ k = IF j = i THEN n ELSE j
  <2>1. r[j] = (IF j = i THEN s[n] ELSE s[j]) /\ j \in 1 .. n /\ j # n /\ n \in 1 .. n
    BY <1>1, <1>2, <1>4
  <2>2. CASE j = i
    BY <2>1, <2>2
  <2>3. CASE j # i
    BY <2>1, <2>3
  <2> QED BY <2>2, <2>3
<1>6. DOMAIN r = 1 .. (n - 1) /\ DOMAIN s = 1 .. n
  BY <1>4
<1>7. IsInjective(r)
  <2> SUFFICES ASSUME NEW a \in 1 .. (n - 1), NEW b \in 1 .. (n - 1), r[a] = r[b]
               PROVE  a = b
    BY <1>6 DEF IsInjective
  <2>1. PICK k \in 1 .. n : r[a] = s[k] /\ k = IF a = i THEN n ELSE a
    BY <1>5
  <2>2. PICK m \in 1 .. n : r[b] = s[m] /\ m = IF b = i THEN n ELSE b
    BY <1>5
  <2>3. k = m
    BY <1>6, <2>1, <2>2 DEF IsInjective
  <2> QED BY <1>1, <2>1, <2>2, <2>3
<1> QED BY <1>4, <1>5, <1>7 DEF r

\* A list goes on with others.
LEMMA StockAdded ==
  ASSUME NEW S, NEW s \in Seq(S), IsInjective(s), NEW m \in Seq(S), IsInjective(m),
         \A i \in 1 .. Len(s), j \in 1 .. Len(m) : s[i] # m[j]
  PROVE  s \o m \in Seq(S) /\ IsInjective(s \o m)
<1> DEFINE c == s \o m
<1>1. /\ c \in Seq(S) /\ DOMAIN c = 1 .. (Len(s) + Len(m))
      /\ DOMAIN s = 1 .. Len(s) /\ DOMAIN m = 1 .. Len(m)
      /\ Len(s) \in Nat /\ Len(m) \in Nat
      /\ \A i \in 1 .. (Len(s) + Len(m)) :
           c[i] = IF i <= Len(s) THEN s[i] ELSE m[i - Len(s)]
  OBVIOUS
<1> HIDE DEF c
<1>2. ASSUME NEW a \in 1 .. (Len(s) + Len(m)), NEW b \in 1 .. (Len(s) + Len(m)), c[a] = c[b]
      PROVE  a = b
  <2>1. CASE a <= Len(s) /\ b <= Len(s)
    <3>1. a \in DOMAIN s /\ b \in DOMAIN s
      BY <1>1, <2>1
    <3>2. s[a] = s[b]
      BY <1>1, <1>2, <2>1
    <3> QED BY <3>1, <3>2 DEF IsInjective
  <2>2. CASE a > Len(s) /\ b > Len(s)
    <3>1. a - Len(s) \in DOMAIN m /\ b - Len(s) \in DOMAIN m
      BY <1>1, <2>2
    <3>2. m[a - Len(s)] = m[b - Len(s)]
      BY <1>1, <1>2, <2>2
    <3>3. a - Len(s) = b - Len(s)
      BY <3>1, <3>2 DEF IsInjective
    <3> QED BY <1>1, <3>3
  <2>3. CASE a <= Len(s) /\ b > Len(s)
    <3>1. b - Len(s) \in 1 .. Len(m) /\ a \in 1 .. Len(s)
      BY <1>1, <2>3
    <3>2. s[a] = m[b - Len(s)]
      BY <1>1, <1>2, <2>3
    <3> QED BY <3>1, <3>2
  <2>4. CASE a > Len(s) /\ b <= Len(s)
    <3>1. a - Len(s) \in 1 .. Len(m) /\ b \in 1 .. Len(s)
      BY <1>1, <2>4
    <3>2. m[a - Len(s)] = s[b]
      BY <1>1, <1>2, <2>4
    <3> QED BY <3>1, <3>2
  <2> QED BY <1>1, <2>1, <2>2, <2>3, <2>4
<1>3. IsInjective(c)
  BY <1>1, <1>2 DEF IsInjective
<1> QED BY <1>1, <1>3 DEF c
LEMMA MintGumballsStep ==
  ASSUME LedgerOK, GumInv, NEW n \in 1 .. MaxMints, NEW ids \in [1 .. n -> Tokens],
         NEW to \in Users \cup {Machine}, MintGumballs(ids, to)
  PROVE  LedgerOK' /\ agreement' = agreement /\ GumInv'
<1>0. Machine \in DOMAIN Purse /\ Machine \notin Users /\ Users \subseteq DOMAIN Purse /\ n \in Nat
  BY Cw721Assumption, GumballAssumption
<1>1. ids \in Seq(Tokens) /\ DOMAIN ids = 1 .. n /\ Len(ids) = n
  BY <1>0
<1> DEFINE T == ToSet(ids)
<1>2. /\ T \cap Minted = {} /\ IsInjective(ids)
      /\ owner' = [t \in Minted \cup T |-> IF t \in Minted THEN owner[t] ELSE to]
      /\ approvals' = [t \in Minted \cup T |-> IF t \in Minted THEN approvals[t] ELSE {}]
      /\ list' = IF to = Machine THEN list \o ids ELSE list
      /\ UNCHANGED <<now, operators, agreement, archived, held, wallet, state>>
  BY DEF MintGumballs, coins, gumSettings
<1>3. T \subseteq Tokens /\ \A i \in 1 .. n : ids[i] \in T
  BY <1>1 DEF ToSet
<1> HIDE DEF T
<1>4. Minted' = Minted \cup T /\ \A t \in Minted : owner'[t] = owner[t]
  BY <1>2 DEF Minted
<1>5. LedgerOK'
  <2>1. \A t \in Minted' : owner'[t] \in DOMAIN Purse /\ approvals'[t] \in SUBSET Users
    BY <1>0, <1>2, <1>4 DEF LedgerOK
  <2>2. \A t \in Minted' : owner'[t] \notin Users => approvals'[t] = {}
    BY <1>2, <1>4 DEF LedgerOK
  <2>3. owner' \in [Minted' -> DOMAIN Purse] /\ approvals' \in [Minted' -> SUBSET Users]
    BY <1>2, <1>4, <2>1
  <2> QED BY <1>2, <1>3, <1>4, <2>2, <2>3 DEF LedgerOK
<1>6. CASE to # Machine
  BY <1>2, <1>4, <1>5, <1>6 DEF GumInv, StockHeld
<1>7. CASE to = Machine
  <2>1. \A i \in 1 .. Len(list), j \in 1 .. Len(ids) : list[i] # ids[j]
    BY <1>1, <1>2, <1>3 DEF GumInv, StockHeld
  <2>2. list \in Seq(Tokens) /\ IsInjective(list) /\ list' = list \o ids
    BY <1>2, <1>7 DEF GumInv, StockHeld
  <2>3. list' \in Seq(Tokens) /\ IsInjective(list')
    BY <1>1, <1>2, <2>1, <2>2, StockAdded
  <2>4. \A i \in 1 .. Len(list') :
          (\E j \in 1 .. Len(list) : list'[i] = list[j]) \/ (\E j \in 1 .. n : list'[i] = ids[j])
    BY <1>1, <2>2
  <2>5. \A j \in 1 .. Len(list) : list[j] \in Minted' /\ owner'[list[j]] = Machine
    BY <1>4 DEF GumInv, StockHeld
  <2>6. \A j \in 1 .. n : ids[j] \in Minted' /\ owner'[ids[j]] = Machine
    BY <1>2, <1>3, <1>4, <1>7
  <2>7. StockHeld'
    BY <2>3, <2>4, <2>5, <2>6 DEF StockHeld
  <2> QED BY <1>2, <1>5, <2>3, <2>7 DEF GumInv
<1> QED BY <1>6, <1>7

LEMMA BuyGumballStep ==
  ASSUME LedgerOK, DOMAIN agreement = {}, GumInv, NEW s \in Users, NEW i \in 1 .. Len(list),
         NEW royalty \in Royalties, NEW tax \in Taxes, BuyGumball(s, i, royalty, tax)
  PROVE  LedgerOK' /\ agreement' = agreement /\ GumInv'
<1> DEFINE paid == IF requiredCoin = Coin THEN state.price ELSE 0
           pay == [v \in DOMAIN wallet |-> IF v = s THEN -paid ELSE IF v = Machine THEN paid ELSE 0]
           t == list[i]
<1>0. Machine \in DOMAIN Purse /\ Machine \notin Users /\ Users \subseteq DOMAIN Purse
  BY Cw721Assumption, GumballAssumption
<1>1. /\ wallet[s] >= paid
      /\ TransferNft(Machine, t, s, 0, royalty, tax, pay)
      /\ list' = SwapRemove(list, i)
      /\ state' = state
  BY DEF BuyGumball, gumSettings
<1>2. paid \in Nat
  BY DEF GumInv
<1>3. \A v \in DOMAIN Purse : wallet[v] \in Nat /\ v \in DOMAIN wallet
  BY DEF LedgerOK
<1> HIDE DEF paid
<1>4. \A v \in DOMAIN Purse : pay[v] = IF v = s THEN -paid ELSE IF v = Machine THEN paid ELSE 0
  BY <1>3
<1> HIDE DEF pay, t
<1>5. Covers(pay)
  BY <1>1, <1>2, <1>3, <1>4 DEF Covers
<1>6. LedgerOK' /\ Given(t, s) /\ agreement' = agreement
  BY <1>0, <1>1, <1>5, Delivered
<1>7. list \in Seq(Tokens) /\ IsInjective(list) /\ DOMAIN list = 1 .. Len(list)
  BY DEF GumInv, StockHeld
<1>8. /\ list' \in Seq(Tokens) /\ IsInjective(list')
      /\ \A j \in 1 .. Len(list') : \E k \in 1 .. Len(list) : k # i /\ list'[j] = list[k]
  BY <1>1, <1>7, SwapRemoveFacts
<1>9. \A k \in 1 .. Len(list) : k # i => list[k] # t /\ list[k] \in Minted' /\ owner'[list[k]] = Machine
  BY <1>6, <1>7 DEF GumInv, StockHeld, Given, IsInjective, t
<1>10. StockHeld'
  BY <1>8, <1>9 DEF StockHeld
<1> QED BY <1>1, <1>6, <1>8, <1>10 DEF GumInv

LEMMA GumVenueStep ==
  ASSUME LedgerOK, DOMAIN agreement = {}, GumInv, venue = "gumball", GumNext
  PROVE  LedgerOK' /\ DOMAIN agreement' = {} /\ GumInv'
<1>1. CASE TokenOnly /\ UNCHANGED gumVars
  <2>1. Machine \notin Users
    BY GumballAssumption
  <2>2. LedgerOK' /\ TokensKept /\ DOMAIN agreement' = {}
    BY <1>1, TokenOnlyLedger
  <2> QED BY <1>1, <2>1, <2>2 DEF TokensKept, GumInv, StockHeld, gumVars, gumSettings
<1>2. ASSUME UNCHANGED <<cw721Vars, now, list>>, state'.price \in Nat
      PROVE  LedgerOK' /\ agreement' = agreement /\ GumInv'
  BY <1>2 DEF cw721Vars, LedgerOK, Minted, GumInv, StockHeld
<1>3. CASE /\ \/ \E denom \in Denoms : UpdateRequiredCoin(denom)
              \/ SwitchStatus
              \/ \E price \in GumPrices : SetSaleDetails(price, 1)
           /\ UNCHANGED <<cw721Vars, now, list>>
  <2>1. state'.price \in Nat
    BY <1>3, GumballAssumption DEF UpdateRequiredCoin, SwitchStatus, SetSaleDetails, GumInv
  <2> QED BY <1>2, <1>3, <2>1
<1>4. CASE \E n \in 1 .. MaxMints : \E ids \in [1 .. n -> Tokens], to \in Users \cup {Machine} :
             MintGumballs(ids, to)
  BY <1>4, MintGumballsStep
<1>5. CASE \E s \in Users, i \in 1 .. Len(list), royalty \in Royalties, tax \in Taxes :
             BuyGumball(s, i, royalty, tax)
  BY <1>5, BuyGumballStep
<1> QED BY <1>1, <1>3, <1>4, <1>5 DEF GumNext, GumStep
-----------------------------------------------------------------------------
(* Staked tokens.                                                           *)

Earned(t) == IF t \in Bonded THEN Reward * (now - stakedNfts[t].since) ELSE stakedNfts[t].accrued
EarnedNow == [t \in DOMAIN stakedNfts |-> Earned(t)]

IsStake(x) == x \in [staker : Users, since : Nat, unbonded : Nat \cup {NotUnbonded}, accrued : Nat]

StakingInv ==
  /\ IsFiniteSet(DOMAIN stakedNfts)
  /\ \A t \in DOMAIN stakedNfts :
       /\ t \in Minted /\ owner[t] = Staking
       /\ IsStake(stakedNfts[t]) /\ stakedNfts[t].since <= now
  /\ bondedTime \in Nat /\ rewardsPaid \in Nat
  /\ RewardsEarned

Stakers == [t \in DOMAIN stakedNfts |-> stakedNfts[t].staker]

LEMMA EarnedNat ==
  ASSUME LedgerOK, StakingInv
  PROVE  /\ \A t \in DOMAIN stakedNfts : Earned(t) \in Nat
         /\ DOMAIN EarnedNow = DOMAIN stakedNfts
         /\ \A t \in DOMAIN stakedNfts : EarnedNow[t] = Earned(t)
<1>1. ASSUME NEW t \in DOMAIN stakedNfts PROVE Earned(t) \in Nat
  <2>1. stakedNfts[t].accrued \in Nat
    BY DEF StakingInv, IsStake
  <2>2. now - stakedNfts[t].since \in Nat
    BY DEF LedgerOK, StakingInv, IsStake
  <2> DEFINE d == now - stakedNfts[t].since
  <2>3. d \in Nat /\ Reward \in Nat
    BY <2>2, Cw721StakingAssumption
  <2> HIDE DEF d
  <2>4. Reward * d \in Nat
    BY <2>3, SMTT(30)
  <2> QED BY <2>1, <2>4 DEF Earned, d
<1> QED BY <1>1 DEF EarnedNow

\* Steps that neither move a staked token nor change its entry.
LEMMA StakesKept ==
  ASSUME LedgerOK, StakingInv, LedgerOK', now' = now,
         \A t \in DOMAIN stakedNfts : t \in Minted' /\ owner'[t] = owner[t],
         UNCHANGED <<stakedNfts, bondedTime, rewardsPaid>>
  PROVE  StakingInv' /\ Faithful(Stakers, Stakers', Staking)
<1>1. StakingInv'
  BY DEF StakingInv, IsStake, RewardsEarned, Bonded
<1>2. Stay(Stakers, Stakers')
  BY DEF Stay, Stakers
<1> QED BY <1>1, <1>2 DEF Faithful

LEMMA StakeStep ==
  ASSUME LedgerOK, DOMAIN agreement = {}, StakingInv, NEW s \in Users, NEW t \in Tokens, Stake(s, t)
  PROVE  LedgerOK' /\ agreement' = agreement /\ StakingInv' /\ Faithful(Stakers, Stakers', Staking)
<1>0. Staking \in DOMAIN Purse /\ Staking \notin Users /\ Reward \in Nat
  BY Cw721StakingAssumption
<1>1. /\ SendNft(s, t, Staking)
      /\ stakedNfts' = [r \in DOMAIN stakedNfts \cup {t} |->
           IF r = t THEN [staker |-> s, since |-> now, unbonded |-> NotUnbonded, accrued |-> 0]
                    ELSE stakedNfts[r]]
      /\ UNCHANGED <<bondedTime, rewardsPaid>>
  BY DEF Stake, stakingHistory
<1>2. /\ LedgerOK' /\ Given(t, Staking) /\ owner[t] \in Users
      /\ UNCHANGED <<now, agreement>>
  BY <1>0, <1>1, Deposited
<1>3. t \notin DOMAIN stakedNfts
  BY <1>0, <1>2 DEF StakingInv
<1>4. /\ DOMAIN stakedNfts' = DOMAIN stakedNfts \cup {t}
      /\ \A r \in DOMAIN stakedNfts : r # t /\ stakedNfts'[r] = stakedNfts[r]
      /\ stakedNfts'[t] = [staker |-> s, since |-> now, unbonded |-> NotUnbonded, accrued |-> 0]
  BY <1>1, <1>3
<1>5. Bonded' = Bonded \cup {t}
  BY <1>4 DEF Bonded
<1> DEFINE D == DOMAIN stakedNfts
           f == EarnedNow
           g == EarnedNow'
<1>6. /\ IsFiniteSet(D) /\ t \notin D /\ DOMAIN f = D /\ DOMAIN g = D \cup {t}
      /\ \A r \in D : f[r] \in Int /\ g[r] = f[r]
  BY <1>2, <1>3, <1>4, <1>5, EarnedNat DEF StakingInv, EarnedNow, Earned
<1>7. g[t] = 0
  <2>1. g[t] = Reward * (now - now) /\ now \in Nat
    BY <1>2, <1>4, <1>5 DEF EarnedNow, Earned, LedgerOK
  <2>2. now - now = 0
    BY <2>1
  <2>3. Reward * 0 = 0
    BY <1>0
  <2> QED BY <2>1, <2>2, <2>3
<1> HIDE DEF D, f, g
<1>8. SumFunctionOnSet(g, D \cup {t}) = SumFunctionOnSet(f, D) + g[t]
  BY <1>6, <1>7, SumAdd
<1>9. SumFunctionOnSet(f, D) \in Int
  BY <1>6, SumSplit
<1>10. SumFunction(g) = SumFunction(f)
  BY <1>6, <1>7, <1>8, <1>9 DEF SumFunction
<1>11. RewardsEarned'
  <2>1. rewardsPaid + SumFunction(f) = Reward * bondedTime
    BY DEF StakingInv, RewardsEarned, EarnedNow, Earned, f
  <2>2. rewardsPaid' + SumFunction(g) = Reward * bondedTime'
    BY <1>1, <1>10, <2>1
  <2> QED BY <2>2 DEF RewardsEarned, EarnedNow, Earned, g
<1>12. \A r \in DOMAIN stakedNfts' :
         /\ r \in Minted' /\ owner'[r] = Staking
         /\ IsStake(stakedNfts'[r]) /\ stakedNfts'[r].since <= now'
  BY <1>2, <1>4 DEF Given, StakingInv, IsStake, LedgerOK
<1>13. IsFiniteSet(DOMAIN stakedNfts')
  BY <1>4, FS_AddElement DEF StakingInv
<1>14. Begun(Stakers, Stakers', t, Staking)
  BY <1>2, <1>3, <1>4 DEF Begun, Stakers
<1>15. Faithful(Stakers, Stakers', Staking)
  BY <1>2, <1>14 DEF Faithful, Given
<1> QED BY <1>1, <1>2, <1>11, <1>12, <1>13, <1>15 DEF StakingInv, IsStake

LEMMA UnstakeStep ==
  ASSUME LedgerOK, DOMAIN agreement = {}, StakingInv, NEW s \in Users, NEW t \in Tokens, Unstake(s, t)
  PROVE  LedgerOK' /\ agreement' = agreement /\ StakingInv' /\ Faithful(Stakers, Stakers', Staking)
<1>1. /\ t \in Bonded
      /\ stakedNfts' = [stakedNfts EXCEPT ![t].unbonded = now,
                                          ![t].accrued = Reward * (now - stakedNfts[t].since)]
      /\ UNCHANGED <<cw721Vars, now, bondedTime, rewardsPaid>>
  BY DEF Unstake, stakingHistory
<1>2. LedgerOK' /\ agreement' = agreement /\ Minted' = Minted /\ owner' = owner
  BY <1>1 DEF LedgerOK, cw721Vars, Minted
<1>3. t \in DOMAIN stakedNfts /\ IsStake(stakedNfts[t]) /\ now \in Nat
  BY <1>1 DEF Bonded, StakingInv, LedgerOK
<1> DEFINE due == Reward * (now - stakedNfts[t].since)
<1>4. due = Earned(t) /\ due \in Nat
  BY <1>1, <1>3, EarnedNat DEF Earned
<1> HIDE DEF due
<1>5. /\ DOMAIN stakedNfts' = DOMAIN stakedNfts
      /\ \A r \in DOMAIN stakedNfts \ {t} : stakedNfts'[r] = stakedNfts[r]
      /\ IsStake(stakedNfts'[t])
      /\ stakedNfts'[t].unbonded = now /\ stakedNfts'[t].accrued = due
      /\ stakedNfts'[t].since = stakedNfts[t].since /\ stakedNfts'[t].staker = stakedNfts[t].staker
  BY <1>1, <1>3, <1>4 DEF IsStake, due
<1>6. Bonded' = Bonded \ {t}
  BY <1>3, <1>5 DEF Bonded, NotUnbonded
<1>7. EarnedNow' = EarnedNow
  <2>1. ASSUME NEW r \in DOMAIN stakedNfts PROVE Earned(r)' = Earned(r)
    <3>1. CASE r = t
      BY <1>4, <1>5, <1>6, <3>1 DEF Earned
    <3>2. CASE r # t
      BY <1>1, <1>5, <1>6, <3>2 DEF Earned
    <3> QED BY <3>1, <3>2
  <2> QED BY <1>5, <2>1 DEF EarnedNow
<1>8. RewardsEarned'
  <2>1. rewardsPaid + SumFunction(EarnedNow) = Reward * bondedTime
    BY DEF StakingInv, RewardsEarned, EarnedNow, Earned
  <2>2. rewardsPaid' + SumFunction(EarnedNow') = Reward * bondedTime'
    BY <1>1, <1>7, <2>1
  <2> QED BY <2>2 DEF RewardsEarned, EarnedNow, Earned
<1>9. \A r \in DOMAIN stakedNfts' :
         /\ r \in Minted' /\ owner'[r] = Staking
         /\ IsStake(stakedNfts'[r]) /\ stakedNfts'[r].since <= now'
  <2> SUFFICES ASSUME NEW r \in DOMAIN stakedNfts
               PROVE  /\ r \in Minted' /\ owner'[r] = Staking
                      /\ IsStake(stakedNfts'[r]) /\ stakedNfts'[r].since <= now'
    BY <1>5
  <2>1. r \in Minted' /\ owner'[r] = Staking /\ now' = now
    BY <1>1, <1>2 DEF StakingInv
  <2>2. IsStake(stakedNfts[r]) /\ stakedNfts[r].since <= now
    BY DEF StakingInv
  <2>3. CASE r = t
    BY <1>5, <2>1, <2>2, <2>3
  <2>4. CASE r # t
    BY <1>5, <2>1, <2>2, <2>4
  <2> QED BY <2>3, <2>4
<1>10. Stay(Stakers, Stakers')
  BY <1>2, <1>5 DEF Stay, Stakers, StakingInv
<1> QED BY <1>1, <1>2, <1>5, <1>8, <1>9, <1>10 DEF StakingInv, IsStake, Faithful

LEMMA ClaimStakedStep ==
  ASSUME LedgerOK, DOMAIN agreement = {}, StakingInv, NEW s \in Users, NEW t \in Tokens,
         NEW royalty \in Royalties, NEW tax \in Taxes, ClaimStaked(s, t, royalty, tax)
  PROVE  LedgerOK' /\ agreement' = agreement /\ StakingInv' /\ Faithful(Stakers, Stakers', Staking)
<1>0. Staking \in DOMAIN Purse /\ Staking \notin Users /\ Users \subseteq DOMAIN Purse /\ Reward \in Nat
  BY Cw721Assumption, Cw721StakingAssumption
<1> DEFINE due == stakedNfts[t].accrued
           pay == [v \in DOMAIN wallet |-> IF v = s THEN due ELSE IF v = Staking THEN -due ELSE 0]
           D == DOMAIN stakedNfts
<1>1. /\ t \in D /\ t \notin Bonded
      /\ due \in 1 .. wallet[Staking]
      /\ TransferNft(Staking, t, s, 0, royalty, tax, pay)
      /\ rewardsPaid' = rewardsPaid + due
      /\ DOMAIN stakedNfts' = D \ {t}
      /\ \A r \in D \ {t} : stakedNfts'[r] = stakedNfts[r]
      /\ bondedTime' = bondedTime
  BY DEF ClaimStaked, Restrict, stakingHistory
<1>s. stakedNfts[t].staker = s
  BY DEF ClaimStaked
<1>2. due \in Nat
  BY <1>1 DEF StakingInv, IsStake
<1>3. \A v \in DOMAIN Purse : wallet[v] \in Nat /\ v \in DOMAIN wallet
  BY DEF LedgerOK
<1>d. due = Earned(t)
  BY <1>1 DEF Earned
<1> HIDE DEF due
<1>4. \A v \in DOMAIN Purse : pay[v] = IF v = s THEN due ELSE IF v = Staking THEN -due ELSE 0
  BY <1>3
<1> HIDE DEF pay
<1>5. Covers(pay)
  BY <1>0, <1>1, <1>2, <1>3, <1>4 DEF Covers
<1>6. LedgerOK' /\ Given(t, s) /\ agreement' = agreement /\ now' = now
  BY <1>0, <1>1, <1>5, Delivered
<1>7. Bonded' = Bonded
  BY <1>1 DEF Bonded
<1> DEFINE f == EarnedNow
           g == EarnedNow'
<1>8. /\ IsFiniteSet(D) /\ IsFiniteSet(D \ {t}) /\ DOMAIN f = D /\ DOMAIN g = D \ {t}
      /\ \A r \in D : f[r] \in Int
      /\ f[t] = due
  BY <1>1, <1>d, EarnedNat, FS_RemoveElement DEF StakingInv, EarnedNow
<1>9. \A r \in D \ {t} : g[r] \in Int /\ g[r] = f[r]
  BY <1>1, <1>6, <1>7, <1>8 DEF EarnedNow, Earned
<1> HIDE DEF D, f, g
<1>10. SumFunctionOnSet(f, D) = f[t] + SumFunctionOnSet(f, D \ {t}) /\ SumFunctionOnSet(f, D) \in Int
  BY <1>1, <1>8, SumSplit
<1>11. SumFunctionOnSet(g, D \ {t}) = SumFunctionOnSet(f, D \ {t})
  BY <1>8, <1>9, SumCongruence
<1>12. SumFunctionOnSet(g, D \ {t}) \in Int
  BY <1>8, <1>9, SumSplit
<1>13. SumFunction(f) = due + SumFunction(g) /\ SumFunction(f) \in Int /\ SumFunction(g) \in Int
  BY <1>8, <1>10, <1>11, <1>12 DEF SumFunction
<1>14. RewardsEarned'
  <2>1. rewardsPaid + SumFunction(f) = Reward * bondedTime /\ rewardsPaid \in Nat
    BY DEF StakingInv, RewardsEarned, EarnedNow, Earned, f
  <2>2. rewardsPaid' + SumFunction(g) = Reward * bondedTime'
    BY <1>1, <1>2, <1>13, <2>1
  <2> QED BY <2>2 DEF RewardsEarned, EarnedNow, Earned, g
<1>15. \A r \in DOMAIN stakedNfts' :
         /\ r \in Minted' /\ owner'[r] = Staking
         /\ IsStake(stakedNfts'[r]) /\ stakedNfts'[r].since <= now'
  BY <1>1, <1>6 DEF Given, StakingInv, IsStake, D
<1>16. rewardsPaid' \in Nat /\ bondedTime' \in Nat
  BY <1>1, <1>2 DEF StakingInv
<1>17. Ended(Stakers, Stakers', t, s) /\ Stakers[t] = s
  BY <1>1, <1>6, <1>s DEF Ended, Stakers, D
<1>18. Faithful(Stakers, Stakers', Staking)
  BY <1>6, <1>17 DEF Faithful, Given
<1> QED BY <1>1, <1>6, <1>8, <1>14, <1>15, <1>16, <1>18 DEF StakingInv, IsStake
\* Time passes for every token that is staked.
LEMMA StakingTickStep ==
  ASSUME LedgerOK, StakingInv, StakingTick
  PROVE  LedgerOK' /\ agreement' = agreement /\ StakingInv' /\ Faithful(Stakers, Stakers', Staking)
<1>1. /\ now' = now + 1
      /\ UNCHANGED <<owner, approvals, operators, agreement, archived, held, wallet>>
      /\ bondedTime' = bondedTime + Cardinality(Bonded)
      /\ UNCHANGED <<stakedNfts, rewardsPaid>>
  BY DEF StakingTick, Tick, cw721Vars
<1>2. LedgerOK' /\ Minted' = Minted /\ now \in Nat
  BY <1>1 DEF LedgerOK, Minted
<1> DEFINE D == DOMAIN stakedNfts
           f == EarnedNow
           g == EarnedNow'
           h == [t \in D |-> IF t \in Bonded THEN Reward ELSE 0]
<1>3. Reward \in Nat /\ IsFiniteSet(D) /\ Bonded \subseteq D /\ Bonded' = Bonded
  BY <1>1, Cw721StakingAssumption DEF StakingInv, Bonded
<1>4. ASSUME NEW t \in D
      PROVE  f[t] \in Int /\ g[t] = f[t] + h[t] /\ h[t] \in Int
  <2>1. f[t] = Earned(t) /\ Earned(t) \in Nat /\ g[t] = Earned(t)'
    BY <1>1, EarnedNat DEF EarnedNow
  <2>2. CASE t \in Bonded
    <3> DEFINE d == now - stakedNfts[t].since
    <3>1. d \in Int /\ now' - stakedNfts'[t].since = d + 1
      BY <1>1, <1>2 DEF StakingInv, IsStake
    <3>2. Earned(t) = Reward * d /\ Earned(t)' = Reward * (d + 1)
      BY <1>3, <2>2, <3>1 DEF Earned
    <3> HIDE DEF d
    <3>3. Reward * (d + 1) = Reward * d + Reward
      BY <1>3, <3>1, SMTT(30)
    <3> QED BY <1>3, <2>1, <2>2, <3>2, <3>3
  <2>3. CASE t \notin Bonded
    BY <1>1, <1>3, <2>1, <2>3 DEF Earned
  <2> QED BY <2>2, <2>3
<1>5. /\ DOMAIN f = D /\ DOMAIN g = D
      /\ \A t \in D : h[t] = IF t \in Bonded THEN Reward ELSE 0
  BY <1>1 DEF EarnedNow
<1> HIDE DEF D, f, g, h
<1>6. SumFunctionOnSet(h, D) = Reward * Cardinality(Bonded) /\ Cardinality(Bonded) \in Nat
  BY <1>3, <1>5, SumIndicator
<1>7. \A t \in D : g[t] \in Int /\ f[t] \in Int /\ h[t] = g[t] - f[t]
  BY <1>4
<1>8. SumFunctionOnSet(h, D) = SumFunctionOnSet(g, D) - SumFunctionOnSet(f, D)
  BY <1>3, <1>7, SumDifference
<1>9. SumFunctionOnSet(g, D) \in Int /\ SumFunctionOnSet(f, D) \in Int
  BY <1>3, <1>7, SumSplit
<1>10. rewardsPaid + SumFunction(f) = Reward * bondedTime /\ rewardsPaid \in Nat /\ bondedTime \in Nat
  BY DEF StakingInv, RewardsEarned, EarnedNow, Earned, f
<1> DEFINE n == Cardinality(Bonded)
<1>11. n \in Nat /\ SumFunctionOnSet(h, D) = Reward * n /\ bondedTime' = bondedTime + n
  BY <1>1, <1>6
<1> HIDE DEF n
<1>12. Reward * (bondedTime + n) = Reward * bondedTime + Reward * n
  BY <1>3, <1>10, <1>11, SMTT(30)
<1>13. rewardsPaid' + SumFunction(g) = Reward * bondedTime'
  <2>1. SumFunction(f) = SumFunctionOnSet(f, D) /\ SumFunction(g) = SumFunctionOnSet(g, D)
    BY <1>5 DEF SumFunction
  <2>2. Reward * bondedTime \in Int /\ Reward * n \in Int
    BY <1>3, <1>10, <1>11, SMTT(30)
  <2> DEFINE a == Reward * bondedTime  b == Reward * n  F == SumFunctionOnSet(f, D)
             G == SumFunctionOnSet(g, D)
  <2>3. /\ a \in Int /\ b \in Int /\ F \in Int /\ G \in Int /\ rewardsPaid \in Int
        /\ rewardsPaid + F = a /\ b = G - F
    BY <1>8, <1>9, <1>10, <1>11, <2>1, <2>2
  <2>4. rewardsPaid' = rewardsPaid /\ Reward * bondedTime' = a + b /\ SumFunction(g) = G
    BY <1>1, <1>11, <1>12, <2>1
  <2> HIDE DEF a, b, F, G
  <2> QED BY <2>3, <2>4
<1>14. RewardsEarned'
  BY <1>13 DEF RewardsEarned, EarnedNow, Earned, g
<1>15. \A t \in DOMAIN stakedNfts' :
         /\ t \in Minted' /\ owner'[t] = Staking
         /\ IsStake(stakedNfts'[t]) /\ stakedNfts'[t].since <= now'
  BY <1>1, <1>2 DEF StakingInv, IsStake
<1>16. bondedTime' \in Nat /\ rewardsPaid' \in Nat
  BY <1>1, <1>10, <1>11
<1>17. Stay(Stakers, Stakers')
  BY <1>1, <1>2 DEF Stay, Stakers, StakingInv
<1> QED BY <1>1, <1>2, <1>3, <1>14, <1>15, <1>16, <1>17 DEF StakingInv, IsStake, D, Faithful

LEMMA StakingVenueStep ==
  ASSUME LedgerOK, DOMAIN agreement = {}, StakingInv, StakingNext
  PROVE  LedgerOK' /\ DOMAIN agreement' = {} /\ StakingInv' /\ Faithful(Stakers, Stakers', Staking)
<1>1. CASE TokenOnly /\ UNCHANGED stakingVars
  <2>1. LedgerOK' /\ TokensKept /\ DOMAIN agreement' = {} /\ now' = now
    BY <1>1, TokenOnlyLedger
  <2>2. UNCHANGED <<stakedNfts, bondedTime, rewardsPaid>>
    BY <1>1 DEF stakingVars, stakingHistory
  <2>3. \A t \in DOMAIN stakedNfts : t \in Minted' /\ owner'[t] = owner[t]
    BY <2>1, Cw721StakingAssumption DEF TokensKept, StakingInv
  <2> QED BY <2>1, <2>2, <2>3, StakesKept
<1>2. CASE StakingTick
  BY <1>2, StakingTickStep
<1>3. CASE StakingSettings
  <2>1. UNCHANGED <<cw721Vars, now, stakedNfts, bondedTime, rewardsPaid>>
    BY <1>3 DEF StakingSettings, stakingHistory
  <2>2. LedgerOK' /\ agreement' = agreement /\ Minted' = Minted /\ UNCHANGED <<owner, now>>
    BY <2>1 DEF LedgerOK, cw721Vars, Minted
  <2>3. \A t \in DOMAIN stakedNfts : t \in Minted' /\ owner'[t] = owner[t]
    BY <2>2 DEF StakingInv
  <2> QED BY <2>1, <2>2, <2>3, StakesKept
<1>4. CASE \E s \in Users, t \in Tokens :
             \/ Stake(s, t) \/ Unstake(s, t)
             \/ \E royalty \in Royalties, tax \in Taxes : ClaimStaked(s, t, royalty, tax)
  BY <1>4, StakeStep, UnstakeStep, ClaimStakedStep
<1> QED BY <1>1, <1>2, <1>3, <1>4 DEF StakingNext, StakingStep
-----------------------------------------------------------------------------
(* Sales.                                                                   *)

IsSale(x) ==
  x \in [token : Tokens, seller : Users, price : Nat, status : {"Open", "Executed", "Cancelled"}]

\* The latest sale of a token is one of this token, and open only while the
\* marketplace has the token.
MarketInv ==
  /\ sales \in Seq([token : Tokens, seller : Users, price : Nat,
                    status : {"Open", "Executed", "Cancelled"}])
  /\ saleIds \in [Tokens -> Seq(Nat)]
  /\ \A t \in Tokens :
       HasSale(t) => LatestSale(t) \in 1 .. Len(sales) /\ sales[LatestSale(t)].token = t
  /\ \A t \in OnSale : t \in Minted /\ owner[t] = Market

Sellers == [t \in OnSale |-> sales[LatestSale(t)].seller]

LEMMA StartSaleStep ==
  ASSUME LedgerOK, MarketInv, NEW s \in Users, NEW t \in Tokens, NEW price \in SalePrices,
         StartSale(s, t, price)
  PROVE  LedgerOK' /\ agreement' = agreement /\ MarketInv' /\ Faithful(Sellers, Sellers', Market)
<1> DEFINE n == Len(sales) + 1
           x == [token |-> t, seller |-> s, price |-> price, status |-> "Open"]
<1>1. /\ SendNft(s, t, Market)
      /\ sales' = Append(sales, x)
      /\ saleIds' = [saleIds EXCEPT ![t] = Append(@, n)]
  BY DEF StartSale, TakeNextSaleId
<1>2. Market \in DOMAIN Purse /\ Market \notin Users /\ price \in Nat
  BY MarketplaceAssumption
<1>3. LedgerOK' /\ Given(t, Market) /\ owner[t] \in Users /\ agreement' = agreement
  BY <1>1, <1>2, Deposited
<1>4. t \notin OnSale
  BY <1>2, <1>3 DEF MarketInv
<1>5. IsSale(x)
  BY <1>2 DEF IsSale
<1>6. /\ sales' \in Seq([token : Tokens, seller : Users, price : Nat,
                         status : {"Open", "Executed", "Cancelled"}])
      /\ Len(sales') = n /\ n \in Nat /\ sales'[n] = x
      /\ \A i \in 1 .. Len(sales) : i \in 1 .. Len(sales') /\ sales'[i] = sales[i]
  BY <1>1, <1>5 DEF IsSale, MarketInv
<1>7. /\ saleIds' \in [Tokens -> Seq(Nat)]
      /\ saleIds'[t] # <<>> /\ saleIds'[t][Len(saleIds'[t])] = n
      /\ \A r \in Tokens \ {t} : saleIds'[r] = saleIds[r]
  <2>1. saleIds[t] \in Seq(Nat) /\ n \in Nat
    BY <1>6 DEF MarketInv
  <2>2. /\ Append(saleIds[t], n) \in Seq(Nat) /\ Append(saleIds[t], n) # <<>>
        /\ Append(saleIds[t], n)[Len(Append(saleIds[t], n))] = n
    BY <2>1
  <2> QED BY <1>1, <2>2 DEF MarketInv
<1> HIDE DEF n
<1>8. HasSale(t)' /\ LatestSale(t)' = n
  BY <1>7 DEF HasSale, LatestSale, Last
<1>9. \A r \in Tokens \ {t} : HasSale(r)' = HasSale(r) /\ LatestSale(r)' = LatestSale(r)
  BY <1>7 DEF HasSale, LatestSale, Last
<1>10. \A r \in Tokens :
         HasSale(r)' => LatestSale(r)' \in 1 .. Len(sales') /\ sales'[LatestSale(r)'].token = r
  <2>1. n \in 1 .. Len(sales') /\ sales'[n].token = t
    BY <1>6 DEF n, MarketInv
  <2>2. ASSUME NEW r \in Tokens \ {t}, HasSale(r)
        PROVE  /\ LatestSale(r)' \in 1 .. Len(sales')
               /\ sales'[LatestSale(r)'] = sales[LatestSale(r)] /\ sales[LatestSale(r)].token = r
    BY <1>6, <1>9, <2>2 DEF MarketInv
  <2> QED BY <1>8, <1>9, <2>1, <2>2
<1>11. \A r \in Tokens \ {t} :
         HasSale(r) => LatestSale(r) \in 1 .. Len(sales) /\ sales'[LatestSale(r)'] = sales[LatestSale(r)]
  BY <1>6, <1>9 DEF MarketInv
<1>12. OnSale' = OnSale \cup {t}
  BY <1>6, <1>8, <1>9, <1>11 DEF OnSale
<1>13. \A r \in OnSale : r # t /\ sales'[LatestSale(r)'].seller = sales[LatestSale(r)].seller
  BY <1>4, <1>11 DEF OnSale
<1>14. \A r \in OnSale' : r \in Minted' /\ owner'[r] = Market
  BY <1>3, <1>12 DEF Given, MarketInv
<1>15. Begun(Sellers, Sellers', t, Market)
  BY <1>3, <1>4, <1>12, <1>13 DEF Begun, Sellers
<1>16. Faithful(Sellers, Sellers', Market)
  BY <1>3, <1>15 DEF Faithful, Given
<1> QED BY <1>3, <1>6, <1>7, <1>10, <1>14, <1>16
        DEF MarketInv, HasSale, LatestSale, OnSale

LEMMA LatestIsSale ==
  ASSUME MarketInv, NEW t \in Tokens, HasSale(t)
  PROVE  /\ LatestSale(t) \in 1 .. Len(sales) /\ IsSale(sales[LatestSale(t)])
         /\ sales[LatestSale(t)].token = t
<1> DEFINE X == [token : Tokens, seller : Users, price : Nat,
                 status : {"Open", "Executed", "Cancelled"}]
           i == LatestSale(t)
<1>1. sales \in Seq(X) /\ i \in 1 .. Len(sales) /\ sales[i].token = t
  BY DEF MarketInv
<1> HIDE DEF X, i
<1>2. sales[i] \in X
  BY <1>1
<1> QED BY <1>1, <1>2 DEF IsSale, X, i

\* Two tokens do not have the same latest sale.
LEMMA SalesApart ==
  ASSUME MarketInv, NEW t \in Tokens, HasSale(t), NEW r \in Tokens \ {t}, HasSale(r)
  PROVE  LatestSale(r) # LatestSale(t)
BY DEF MarketInv

\* A change of a sale's price or status.
LEMMA SaleChanged ==
  ASSUME MarketInv, NEW t \in Tokens, HasSale(t), NEW x, IsSale(x), x.token = t,
         x.seller = sales[LatestSale(t)].seller,
         sales' = [sales EXCEPT ![LatestSale(t)] = x], saleIds' = saleIds
  PROVE  /\ sales' \in Seq([token : Tokens, seller : Users, price : Nat,
                            status : {"Open", "Executed", "Cancelled"}])
         /\ saleIds' \in [Tokens -> Seq(Nat)]
         /\ \A r \in Tokens :
              HasSale(r)' => LatestSale(r)' \in 1 .. Len(sales') /\ sales'[LatestSale(r)'].token = r
         /\ OnSale' = IF x.status = "Open" THEN OnSale \cup {t} ELSE OnSale \ {t}
         /\ \A r \in OnSale : sales'[LatestSale(r)'].seller = sales[LatestSale(r)].seller
<1>1. LatestSale(t) \in 1 .. Len(sales) /\ Len(sales) \in Nat
  BY DEF MarketInv
<1>2. /\ sales' \in Seq([token : Tokens, seller : Users, price : Nat,
                         status : {"Open", "Executed", "Cancelled"}])
      /\ Len(sales') = Len(sales) /\ sales'[LatestSale(t)] = x
      /\ \A i \in 1 .. Len(sales) : i # LatestSale(t) => sales'[i] = sales[i]
  BY <1>1 DEF MarketInv, IsSale
<1>3. \A r \in Tokens : HasSale(r)' = HasSale(r) /\ LatestSale(r)' = LatestSale(r)
  BY DEF HasSale, LatestSale
<1>4. ASSUME NEW r \in Tokens \ {t}, HasSale(r)
      PROVE  LatestSale(r) \in 1 .. Len(sales) /\ sales'[LatestSale(r)'] = sales[LatestSale(r)]
  BY <1>2, <1>3, <1>4, SalesApart DEF MarketInv
<1>5. OnSale' = IF x.status = "Open" THEN OnSale \cup {t} ELSE OnSale \ {t}
  BY <1>2, <1>3, <1>4 DEF OnSale
<1>6. \A r \in OnSale : sales'[LatestSale(r)'].seller = sales[LatestSale(r)].seller
  BY <1>2, <1>3, <1>4 DEF OnSale
<1>7. \A r \in Tokens :
        HasSale(r)' => LatestSale(r)' \in 1 .. Len(sales') /\ sales'[LatestSale(r)'].token = r
  BY <1>1, <1>2, <1>3, <1>4 DEF MarketInv
<1> QED BY <1>2, <1>5, <1>6, <1>7 DEF MarketInv
LEMMA CloseSale ==
  ASSUME MarketInv, NEW t \in Tokens, HasSale(t), sales[LatestSale(t)].status = "Open",
         NEW outcome \in {"Executed", "Cancelled"}, Close(t, outcome), saleIds' = saleIds,
         NEW u, Given(t, u)
  PROVE  MarketInv' /\ Ended(Sellers, Sellers', t, u)
<1> DEFINE i == LatestSale(t)
           x == [sales[i] EXCEPT !.status = outcome]
<1>1. i \in 1 .. Len(sales) /\ IsSale(sales[i]) /\ sales[i].token = t
  BY LatestIsSale
<1>2. IsSale(x) /\ x.token = t /\ x.seller = sales[i].seller /\ x.status # "Open"
  BY <1>1 DEF IsSale
<1>3. sales' = [sales EXCEPT ![i] = x]
  BY DEF Close
<1> HIDE DEF x
<1>4. /\ sales' \in Seq([token : Tokens, seller : Users, price : Nat,
                         status : {"Open", "Executed", "Cancelled"}])
      /\ saleIds' \in [Tokens -> Seq(Nat)]
      /\ \A r \in Tokens :
           HasSale(r)' => LatestSale(r)' \in 1 .. Len(sales') /\ sales'[LatestSale(r)'].token = r
      /\ OnSale' = IF x.status = "Open" THEN OnSale \cup {t} ELSE OnSale \ {t}
      /\ \A r \in OnSale : sales'[LatestSale(r)'].seller = sales[LatestSale(r)].seller
  BY <1>2, <1>3, SaleChanged
<1>5. t \in OnSale /\ OnSale' = OnSale \ {t}
  BY <1>2, <1>4 DEF OnSale
<1>6. \A r \in OnSale' : r \in Minted' /\ owner'[r] = Market
  BY <1>5 DEF MarketInv, Given
<1>7. Ended(Sellers, Sellers', t, u)
  BY <1>4, <1>5 DEF Ended, Sellers
<1> QED BY <1>4, <1>6, <1>7 DEF MarketInv, HasSale, LatestSale, OnSale

LEMMA UpdateSaleStep ==
  ASSUME LedgerOK, MarketInv, NEW s \in Users, NEW t \in Tokens, NEW price \in SalePrices,
         UpdateSale(s, t, price)
  PROVE  LedgerOK' /\ agreement' = agreement /\ MarketInv' /\ Faithful(Sellers, Sellers', Market)
<1> DEFINE i == LatestSale(t)
           x == [sales[i] EXCEPT !.price = price]
<1>1. /\ HasSale(t)
      /\ sales' = [sales EXCEPT ![i].price = price]
      /\ UNCHANGED <<cw721Vars, now, saleIds>>
  BY DEF UpdateSale
<1>2. i \in 1 .. Len(sales) /\ IsSale(sales[i]) /\ sales[i].token = t
  BY <1>1, LatestIsSale
<1>3. price \in Nat
  BY MarketplaceAssumption
<1>4. /\ IsSale(x) /\ x.token = t /\ x.seller = sales[i].seller
      /\ x.status = sales[i].status
  BY <1>2, <1>3 DEF IsSale
<1>5. sales' = [sales EXCEPT ![i] = x]
  BY <1>1
<1> HIDE DEF x
<1>6. /\ sales' \in Seq([token : Tokens, seller : Users, price : Nat,
                         status : {"Open", "Executed", "Cancelled"}])
      /\ saleIds' \in [Tokens -> Seq(Nat)]
      /\ \A r \in Tokens :
           HasSale(r)' => LatestSale(r)' \in 1 .. Len(sales') /\ sales'[LatestSale(r)'].token = r
      /\ OnSale' = IF x.status = "Open" THEN OnSale \cup {t} ELSE OnSale \ {t}
      /\ \A r \in OnSale : sales'[LatestSale(r)'].seller = sales[LatestSale(r)].seller
  BY <1>1, <1>4, <1>5, SaleChanged
<1>7. OnSale' = OnSale
  BY <1>1, <1>4, <1>6 DEF OnSale
<1>8. LedgerOK' /\ agreement' = agreement /\ Minted' = Minted /\ owner' = owner
  BY <1>1 DEF LedgerOK, cw721Vars, Minted
<1>9. Stay(Sellers, Sellers')
  BY <1>6, <1>7, <1>8 DEF Stay, Sellers, MarketInv
<1> QED BY <1>6, <1>7, <1>8, <1>9 DEF MarketInv, Faithful, HasSale, LatestSale, OnSale

LEMMA CancelSaleStep ==
  ASSUME LedgerOK, DOMAIN agreement = {}, MarketInv, NEW s \in Users, NEW t \in Tokens,
         NEW royalty \in Royalties, NEW tax \in Taxes, CancelSale(s, t, royalty, tax)
  PROVE  /\ LedgerOK' /\ agreement' = agreement /\ MarketInv'
         /\ Faithful(Sellers, Sellers', Market)
<1> DEFINE none == [v \in DOMAIN wallet |-> 0]
<1>1. /\ HasSale(t) /\ sales[LatestSale(t)].seller = s /\ sales[LatestSale(t)].status = "Open"
      /\ TransferNft(Market, t, s, 0, royalty, tax, none)
      /\ Close(t, "Cancelled") /\ saleIds' = saleIds
  BY DEF CancelSale, Deliver, NoPayment
<1>2. Market \notin Users /\ s \in DOMAIN Purse /\ Covers(none)
  BY Cw721Assumption, MarketplaceAssumption, CoversNothing
<1> HIDE DEF none
<1>3. LedgerOK' /\ Given(t, s) /\ agreement' = agreement
  BY <1>1, <1>2, Delivered
<1>4. MarketInv' /\ Ended(Sellers, Sellers', t, s)
  BY <1>1, <1>3, CloseSale
<1>5. Sellers[t] = s
  BY <1>1 DEF Sellers, OnSale
<1> QED BY <1>3, <1>4, <1>5 DEF Faithful, Given

\* The seller gets more than nothing.
LEMMA BuyStep ==
  ASSUME LedgerOK, DOMAIN agreement = {}, MarketInv, NEW s \in Users, NEW t \in Tokens,
         NEW paid \in Payments, NEW royalty \in Royalties, NEW tax \in Taxes,
         Buy(s, t, paid, royalty, tax)
  PROVE  /\ LedgerOK' /\ agreement' = agreement /\ MarketInv'
         /\ Faithful(Sellers, Sellers', Market)
<1> DEFINE sale == sales[LatestSale(t)]
           seller == sale.seller
           price == sale.price
           pay == [v \in DOMAIN wallet |->
                     (IF v = seller THEN price - royalty ELSE 0)
                     + (IF v = Market THEN paid - price - tax ELSE 0)
                     - (IF v = s THEN paid ELSE 0)]
<1>1. /\ HasSale(t) /\ sale.status = "Open" /\ seller # s
      /\ paid <= wallet[s] /\ paid >= price + tax /\ price > royalty
      /\ TransferNft(Market, t, s, 0, royalty, tax, pay)
      /\ Close(t, "Executed") /\ saleIds' = saleIds
  BY DEF Buy, Deliver, PaysFor
<1>2. seller \in Users /\ price \in Nat
  BY <1>1, LatestIsSale DEF IsSale
<1>3. /\ paid \in Nat /\ royalty \in Nat /\ tax \in Nat
      /\ Market \in DOMAIN Purse /\ Market \notin Users /\ Users \subseteq DOMAIN Purse
  BY Cw721Assumption, MarketplaceAssumption
<1>4. \A v \in DOMAIN Purse : wallet[v] \in Nat /\ v \in DOMAIN wallet
  BY DEF LedgerOK
<1>5. /\ \A v \in DOMAIN Purse \ {s} : pay[v] \in Nat
      /\ pay[s] = -paid
      /\ pay[seller] > 0
  <2>1. \A v \in DOMAIN Purse :
          pay[v] = (IF v = seller THEN price - royalty ELSE 0)
                   + (IF v = Market THEN paid - price - tax ELSE 0)
                   - (IF v = s THEN paid ELSE 0)
    BY <1>4
  <2> HIDE DEF pay, seller, price
  <2> QED BY <1>1, <1>2, <1>3, <2>1
<1> HIDE DEF pay
<1>6. Covers(pay)
  BY <1>1, <1>3, <1>4, <1>5 DEF Covers
<1>7. /\ LedgerOK' /\ Given(t, s) /\ agreement' = agreement
      /\ \A v \in DOMAIN Purse : wallet'[v] = wallet[v] + pay[v]
  BY <1>1, <1>3, <1>6, Delivered
<1>8. MarketInv' /\ Ended(Sellers, Sellers', t, s)
  BY <1>1, <1>7, CloseSale
<1>9. wallet'[seller] > wallet[seller]
  <2>1. seller \in DOMAIN Purse /\ pay[seller] \in Int
    BY <1>1, <1>2, <1>3, <1>5
  <2> HIDE DEF seller
  <2> QED BY <1>4, <1>5, <1>7, <2>1
<1>10. Sellers[t] = seller
  BY <1>1 DEF Sellers, OnSale
<1> QED BY <1>7, <1>8, <1>9, <1>10 DEF Faithful, Given
LEMMA MarketVenueStep ==
  ASSUME LedgerOK, DOMAIN agreement = {}, MarketInv, MarketNext
  PROVE  /\ LedgerOK' /\ DOMAIN agreement' = {} /\ MarketInv'
         /\ Faithful(Sellers, Sellers', Market)
<1>1. CASE TokenOnly /\ UNCHANGED marketVars
  <2>1. LedgerOK' /\ TokensKept /\ DOMAIN agreement' = {}
    BY <1>1, TokenOnlyLedger
  <2>2. UNCHANGED <<sales, saleIds>>
    BY <1>1 DEF marketVars
  <2>3. OnSale' = OnSale /\ Sellers' = Sellers
    BY <2>2 DEF OnSale, Sellers, HasSale, LatestSale
  <2>4. \A t \in OnSale : t \in Minted' /\ owner'[t] = owner[t] /\ owner[t] = Market
    BY <2>1, MarketplaceAssumption DEF TokensKept, MarketInv
  <2>5. MarketInv'
    BY <2>2, <2>3, <2>4 DEF MarketInv, HasSale, LatestSale
  <2>6. Stay(Sellers, Sellers')
    BY <2>3, <2>4 DEF Stay, Sellers
  <2> QED BY <2>1, <2>5, <2>6 DEF Faithful
<1>2. ASSUME NEW s \in Users, NEW t \in Tokens, NEW price \in SalePrices,
             StartSale(s, t, price) \/ UpdateSale(s, t, price)
      PROVE  LedgerOK' /\ agreement' = agreement /\ MarketInv' /\ Faithful(Sellers, Sellers', Market)
  BY <1>2, StartSaleStep, UpdateSaleStep
<1>3. ASSUME NEW s \in Users, NEW t \in Tokens, NEW royalty \in Royalties, NEW tax \in Taxes,
             CancelSale(s, t, royalty, tax) \/ \E paid \in Payments : Buy(s, t, paid, royalty, tax)
      PROVE  LedgerOK' /\ agreement' = agreement /\ MarketInv' /\ Faithful(Sellers, Sellers', Market)
  BY <1>3, CancelSaleStep, BuyStep
<1>4. CASE MarketStep
  BY <1>2, <1>3, <1>4 DEF MarketStep
<1> QED BY <1>1, <1>4 DEF MarketNext
-----------------------------------------------------------------------------
(* All venues.                                                              *)

\* A venue that a behaviour is not about has nothing.
Idle ==
  /\ venue # "bids" => DOMAIN bids = {}
  /\ venue # "market" => \A t \in Tokens : ~HasSale(t)
  /\ venue # "staking" => DOMAIN stakedNfts = {}
  /\ venue # "lock" => DOMAIN lockedItems = {}
  /\ venue # "wrap" => DOMAIN wrappedOwner = {}
  /\ venue # "gumball" => list = <<>>

\* The inductive invariant.
NftInv ==
  /\ LedgerOK /\ NoAgreement /\ Idle
  /\ BidsInv /\ MarketInv /\ StakingInv /\ LockInv /\ WrapInv /\ GumInv

LEMMA InitInv == VenuesInit => NftInv
<1> SUFFICES ASSUME VenuesInit PROVE NftInv
  OBVIOUS
<1>0. Cw721Init /\ bids = [t \in {} |-> 0] /\ escrow = 0 /\ kept = 0
  BY DEF VenuesInit, Init
<1>1. LedgerOK /\ DOMAIN agreement = {}
  BY <1>0, InitLedger DEF Cw721Init
<1>2. BidsInv
  <2>1. DOMAIN bids = {} /\ IsFiniteSet(DOMAIN bids)
    BY <1>0, FS_EmptySet
  <2>2. DOMAIN FullOf(bids) = {}
    BY <2>1 DEF FullOf
  <2>3. SumFunction(FullOf(bids)) = 0
    BY <2>2, SumEmpty DEF SumFunction
  <2> QED BY <1>0, <2>1, <2>3 DEF BidsInv, Escrowed, FullOf
<1>3. sales = <<>> /\ saleIds = [t \in Tokens |-> <<>>]
  BY DEF VenuesInit, MarketInit
<1>4. \A t \in Tokens : ~HasSale(t)
  BY <1>3 DEF HasSale
<1>5. MarketInv
  BY <1>3, <1>4 DEF MarketInv, OnSale
<1>6. DOMAIN stakedNfts = {} /\ bondedTime = 0 /\ rewardsPaid = 0
  BY DEF VenuesInit, StakingInit
<1>7. StakingInv
  <2>1. IsFiniteSet(DOMAIN stakedNfts)
    BY <1>6, FS_EmptySet
  <2>2. DOMAIN EarnedNow = {}
    BY <1>6 DEF EarnedNow
  <2>3. SumFunction(EarnedNow) = 0
    BY <2>2, SumEmpty DEF SumFunction
  <2>4. Reward * 0 = 0
    BY Cw721StakingAssumption
  <2> QED BY <1>6, <2>1, <2>3, <2>4 DEF StakingInv, RewardsEarned, EarnedNow, Earned
<1>8. DOMAIN lockedItems = {}
  BY DEF VenuesInit, LockInit
<1>9. DOMAIN wrappedOwner = {} /\ DOMAIN original = {}
  BY DEF VenuesInit, WrapInit
<1>10. list = <<>> /\ state.price = 0
  BY DEF VenuesInit, GumInit, NotSet
<1>11. GumInv
  BY <1>10 DEF GumInv, StockHeld, IsInjective
<1> QED BY <1>0, <1>1, <1>2, <1>4, <1>5, <1>6, <1>7, <1>8, <1>9, <1>10, <1>11
        DEF NftInv, NoAgreement, Idle, LockInv, WrapInv, WrappedBacked

\* Venues without anything stay as they are, whatever happens elsewhere.
LEMMA MarketIdle ==
  ASSUME MarketInv, \A t \in Tokens : ~HasSale(t), UNCHANGED marketVars
  PROVE  MarketInv' /\ \A t \in Tokens : ~HasSale(t)'
BY DEF MarketInv, HasSale, OnSale, LatestSale, marketVars

LEMMA StakingIdle ==
  ASSUME StakingInv, DOMAIN stakedNfts = {}, UNCHANGED stakingVars
  PROVE  StakingInv' /\ DOMAIN stakedNfts' = {}
<1>1. UNCHANGED <<stakedNfts, bondedTime, rewardsPaid>>
  BY DEF stakingVars, stakingHistory
<1>2. DOMAIN EarnedNow = {} /\ DOMAIN EarnedNow' = {}
  BY <1>1 DEF EarnedNow
<1>3. SumFunction(EarnedNow) = 0 /\ SumFunction(EarnedNow') = 0
  BY <1>2, SumEmpty DEF SumFunction
<1>4. rewardsPaid + SumFunction(EarnedNow) = Reward * bondedTime
  BY DEF StakingInv, RewardsEarned, EarnedNow, Earned
<1>5. rewardsPaid' + SumFunction(EarnedNow') = Reward * bondedTime'
  BY <1>1, <1>3, <1>4
<1>6. RewardsEarned'
  BY <1>5 DEF RewardsEarned, EarnedNow, Earned
<1> QED BY <1>1, <1>6 DEF StakingInv

LEMMA LockIdle ==
  ASSUME DOMAIN lockedItems = {}, UNCHANGED lockedItems
  PROVE  LockInv' /\ DOMAIN lockedItems' = {} /\ StaysLocked
BY DEF LockInv, StaysLocked

LEMMA WrapIdle ==
  ASSUME WrapInv, DOMAIN wrappedOwner = {}, UNCHANGED wrapVars
  PROVE  WrapInv' /\ DOMAIN wrappedOwner' = {}
BY DEF WrapInv, WrappedBacked, wrapVars

LEMMA GumIdle ==
  ASSUME GumInv, list = <<>>, UNCHANGED gumVars
  PROVE  GumInv' /\ list' = <<>>
BY DEF GumInv, StockHeld, gumVars, gumSettings

LEMMA BidsIdle ==
  ASSUME BidsInv, UNCHANGED bidVars
  PROVE  BidsInv' /\ BidEnds /\ DOMAIN bids' = DOMAIN bids
BY DEF BidsInv, Escrowed, IsBid, FullAmount, BidEnds, bidVars
\* What every step of a behaviour does.
StepFacts ==
  /\ NftInv' /\ venue' = venue
  /\ BidEnds /\ StaysLocked
  /\ venue = "market" => Faithful(Sellers, Sellers', Market)
  /\ venue = "staking" => Faithful(Stakers, Stakers', Staking)
  /\ venue = "lock" => Faithful(Recipients, Recipients', TokenLock)

LEMMA Steps ==
  ASSUME NftInv, VenuesNext
  PROVE  StepFacts
<1>1. venue' = venue
  BY DEF VenuesNext
<1>2. CASE /\ venue = "bids" /\ Next
           /\ UNCHANGED <<marketVars, stakingVars, lockedItems, wrapVars, gumVars>>
  <2>1. LedgerOK' /\ BidsInv' /\ BidEnds
    BY <1>2, BidsStep DEF NftInv
  <2>2. MarketInv' /\ (\A t \in Tokens : ~HasSale(t)')
    BY <1>2, MarketIdle DEF NftInv, Idle
  <2>3. StakingInv' /\ DOMAIN stakedNfts' = {}
    BY <1>2, StakingIdle DEF NftInv, Idle
  <2>4. LockInv' /\ DOMAIN lockedItems' = {} /\ StaysLocked
    BY <1>2, LockIdle DEF NftInv, Idle
  <2>5. WrapInv' /\ DOMAIN wrappedOwner' = {}
    BY <1>2, WrapIdle DEF NftInv, Idle
  <2>6. GumInv' /\ list' = <<>>
    BY <1>2, GumIdle DEF NftInv, Idle
  <2> QED BY <1>1, <1>2, <2>1, <2>2, <2>3, <2>4, <2>5, <2>6 DEF NftInv, StepFacts, NoAgreement, Idle
<1>3. ASSUME venue # "bids", UNCHANGED bidVars
      PROVE  DOMAIN agreement = {} /\ BidsInv' /\ BidEnds /\ DOMAIN bids' = {}
  BY <1>3, BidsIdle DEF NftInv, NoAgreement, Idle
<1>4. CASE /\ venue = "market" /\ UNCHANGED bidVars /\ MarketNext
           /\ UNCHANGED <<stakingVars, lockedItems, wrapVars, gumVars>>
  <2>1. LedgerOK' /\ DOMAIN agreement' = {} /\ MarketInv' /\ Faithful(Sellers, Sellers', Market)
    BY <1>3, <1>4, MarketVenueStep DEF NftInv
  <2>3. StakingInv' /\ DOMAIN stakedNfts' = {}
    BY <1>4, StakingIdle DEF NftInv, Idle
  <2>4. LockInv' /\ DOMAIN lockedItems' = {} /\ StaysLocked
    BY <1>4, LockIdle DEF NftInv, Idle
  <2>5. WrapInv' /\ DOMAIN wrappedOwner' = {}
    BY <1>4, WrapIdle DEF NftInv, Idle
  <2>6. GumInv' /\ list' = <<>>
    BY <1>4, GumIdle DEF NftInv, Idle
  <2> QED BY <1>1, <1>3, <1>4, <2>1, <2>3, <2>4, <2>5, <2>6 DEF NftInv, StepFacts, NoAgreement, Idle
<1>5. CASE /\ venue = "staking" /\ UNCHANGED bidVars /\ StakingNext
           /\ UNCHANGED <<marketVars, lockedItems, wrapVars, gumVars>>
  <2>1. LedgerOK' /\ DOMAIN agreement' = {} /\ StakingInv' /\ Faithful(Stakers, Stakers', Staking)
    BY <1>3, <1>5, StakingVenueStep DEF NftInv
  <2>2. MarketInv' /\ (\A t \in Tokens : ~HasSale(t)')
    BY <1>5, MarketIdle DEF NftInv, Idle
  <2>4. LockInv' /\ DOMAIN lockedItems' = {} /\ StaysLocked
    BY <1>5, LockIdle DEF NftInv, Idle
  <2>5. WrapInv' /\ DOMAIN wrappedOwner' = {}
    BY <1>5, WrapIdle DEF NftInv, Idle
  <2>6. GumInv' /\ list' = <<>>
    BY <1>5, GumIdle DEF NftInv, Idle
  <2> QED BY <1>1, <1>3, <1>5, <2>1, <2>2, <2>4, <2>5, <2>6 DEF NftInv, StepFacts, NoAgreement, Idle
<1>6. CASE /\ venue = "lock" /\ UNCHANGED bidVars /\ LockNext
           /\ UNCHANGED <<marketVars, stakingVars, wrapVars, gumVars>>
  <2>1. /\ LedgerOK' /\ DOMAIN agreement' = {} /\ LockInv' /\ StaysLocked
        /\ Faithful(Recipients, Recipients', TokenLock)
    BY <1>3, <1>6, LockVenueStep DEF NftInv
  <2>2. MarketInv' /\ (\A t \in Tokens : ~HasSale(t)')
    BY <1>6, MarketIdle DEF NftInv, Idle
  <2>3. StakingInv' /\ DOMAIN stakedNfts' = {}
    BY <1>6, StakingIdle DEF NftInv, Idle
  <2>5. WrapInv' /\ DOMAIN wrappedOwner' = {}
    BY <1>6, WrapIdle DEF NftInv, Idle
  <2>6. GumInv' /\ list' = <<>>
    BY <1>6, GumIdle DEF NftInv, Idle
  <2> QED BY <1>1, <1>3, <1>6, <2>1, <2>2, <2>3, <2>5, <2>6 DEF NftInv, StepFacts, NoAgreement, Idle
<1>7. CASE /\ venue = "wrap" /\ UNCHANGED bidVars /\ WrapNext
           /\ UNCHANGED <<marketVars, stakingVars, lockedItems, gumVars>>
  <2>1. LedgerOK' /\ DOMAIN agreement' = {} /\ WrapInv'
    BY <1>3, <1>7, WrapVenueStep DEF NftInv
  <2>2. MarketInv' /\ (\A t \in Tokens : ~HasSale(t)')
    BY <1>7, MarketIdle DEF NftInv, Idle
  <2>3. StakingInv' /\ DOMAIN stakedNfts' = {}
    BY <1>7, StakingIdle DEF NftInv, Idle
  <2>4. LockInv' /\ DOMAIN lockedItems' = {} /\ StaysLocked
    BY <1>7, LockIdle DEF NftInv, Idle
  <2>6. GumInv' /\ list' = <<>>
    BY <1>7, GumIdle DEF NftInv, Idle
  <2> QED BY <1>1, <1>3, <1>7, <2>1, <2>2, <2>3, <2>4, <2>6 DEF NftInv, StepFacts, NoAgreement, Idle
<1>8. CASE /\ venue = "gumball" /\ UNCHANGED bidVars /\ GumNext
           /\ UNCHANGED <<marketVars, stakingVars, lockedItems, wrapVars>>
  <2>1. LedgerOK' /\ DOMAIN agreement' = {} /\ GumInv'
    BY <1>3, <1>8, GumVenueStep DEF NftInv
  <2>2. MarketInv' /\ (\A t \in Tokens : ~HasSale(t)')
    BY <1>8, MarketIdle DEF NftInv, Idle
  <2>3. StakingInv' /\ DOMAIN stakedNfts' = {}
    BY <1>8, StakingIdle DEF NftInv, Idle
  <2>4. LockInv' /\ DOMAIN lockedItems' = {} /\ StaysLocked
    BY <1>8, LockIdle DEF NftInv, Idle
  <2>5. WrapInv' /\ DOMAIN wrappedOwner' = {}
    BY <1>8, WrapIdle DEF NftInv, Idle
  <2> QED BY <1>1, <1>3, <1>8, <2>1, <2>2, <2>3, <2>4, <2>5 DEF NftInv, StepFacts, NoAgreement, Idle
<1> QED BY <1>2, <1>4, <1>5, <1>6, <1>7, <1>8 DEF VenuesNext

LEMMA Stutters ==
  ASSUME NftInv, UNCHANGED allVars
  PROVE  StepFacts
<1>1. /\ UNCHANGED <<now, owner, approvals, operators, agreement, archived, held, wallet>>
      /\ UNCHANGED <<bids, escrow, kept, sales, saleIds>>
      /\ UNCHANGED <<allowedContracts, unbondingPeriod, stakedNfts, bondedTime, rewardsPaid>>
      /\ UNCHANGED <<lockedItems, wrappedOwner, original, list, status, requiredCoin, state, venue>>
  BY DEF allVars, vars, marketVars, stakingVars, stakingSettings, stakingHistory, wrapVars,
         gumVars, gumSettings
<1>2. LedgerOK' /\ NoAgreement' /\ Minted' = Minted
  BY <1>1 DEF NftInv, LedgerOK, NoAgreement, Minted
<1>3. OnSale' = OnSale /\ Sellers' = Sellers /\ MarketInv' /\ \A t \in Tokens : HasSale(t)' = HasSale(t)
  BY <1>1, <1>2 DEF NftInv, MarketInv, OnSale, Sellers, HasSale, LatestSale
<1>4. BidsInv' /\ BidEnds
  BY <1>1, BidsIdle DEF NftInv, bidVars
<1>5. StakingInv' /\ Faithful(Stakers, Stakers', Staking)
  <2>1. \A t \in DOMAIN stakedNfts : t \in Minted' /\ owner'[t] = owner[t]
    BY <1>1, <1>2 DEF NftInv, StakingInv
  <2> QED BY <1>1, <1>2, <2>1, StakesKept DEF NftInv
<1>6. LockInv' /\ StaysLocked /\ WrapInv' /\ GumInv'
  BY <1>1, <1>2 DEF NftInv, LockInv, StaysLocked, WrapInv, WrappedBacked, GumInv, StockHeld
<1>7. Faithful(Recipients, Recipients', TokenLock)
  BY <1>1, <1>2 DEF NftInv, LockInv, Recipients, Faithful, Stay
<1>8. Faithful(Sellers, Sellers', Market)
  BY <1>1, <1>2, <1>3 DEF NftInv, MarketInv, Sellers, Faithful, Stay
<1>9. Idle'
  BY <1>1, <1>3 DEF NftInv, Idle
<1> QED BY <1>1, <1>2, <1>3, <1>4, <1>5, <1>6, <1>7, <1>8, <1>9 DEF NftInv, StepFacts

\* What the properties rest on holds of every behaviour.
LEMMA Invariance == VenuesSpec => []NftInv
<1>1. NftInv /\ [VenuesNext]_allVars => NftInv'
  BY Steps, Stutters DEF StepFacts
<1> QED BY <1>1, InitInv, PTL DEF VenuesSpec

\* The contract of the bids can send back, or pay out, every bid it has, with the
\* fees of the time when it was placed; whatever is bid, replaced, cancelled,
\* accepted, minted and transferred.
THEOREM BidsEscrowed == VenuesSpec => []Escrowed
<1>1. NftInv => Escrowed
  BY DEF NftInv, BidsInv
<1> QED BY <1>1, Invariance, PTL

\* Rewards are paid for the time that tokens were staked, once.
THEOREM RewardsAreEarned == VenuesSpec => []RewardsEarned
<1>1. NftInv => RewardsEarned
  BY DEF NftInv, StakingInv
<1> QED BY <1>1, Invariance, PTL

\* Every wrapped token stands for one original, which the wrapper holds.
THEOREM WrappedAreBacked == VenuesSpec => []WrappedBacked
<1>1. NftInv => WrappedBacked
  BY DEF NftInv, WrapInv
<1> QED BY <1>1, Invariance, PTL

\* The gumball machine has every token it lists, and lists it once.
THEOREM StockIsHeld == VenuesSpec => []StockHeld
<1>1. NftInv => StockHeld
  BY DEF NftInv, GumInv
<1> QED BY <1>1, Invariance, PTL

\* A bid ends with the token or with every coin of it, and not with both.
THEOREM BidsSettle == VenuesSpec => BidSettled
<1>1. NftInv /\ [VenuesNext]_allVars => [BidEnds]_vars
  BY Steps, Stutters DEF StepFacts
<1> QED BY <1>1, Invariance, PTL DEF VenuesSpec, BidSettled

\* A transfer for a price pays it, and no bid on top.
THEOREM PricesArePaid == VenuesSpec => PriceIsPaid
<1>1. NftInv => TransferPays
  BY PricePaid DEF NftInv
<1>2. NftInv /\ [VenuesNext]_allVars => [wallet' # wallet => TransferPays]_vars
  BY <1>1
<1> QED BY <1>2, Invariance, PTL DEF VenuesSpec, PriceIsPaid

\* No token leaves the time lock before its time.
THEOREM LocksHold == VenuesSpec => LockedUntilItsTime
<1>1. NftInv /\ [VenuesNext]_allVars => [StaysLocked]_<<now, owner, lockedItems>>
  BY Steps, Stutters DEF StepFacts
<1> QED BY <1>1, Invariance, PTL DEF VenuesSpec, LockedUntilItsTime
-----------------------------------------------------------------------------
(* The abstract promise of the venues.                                      *)

LEMMA NobodyIsCustodian == \A u \in Users : u \notin Custodians
BY MarketplaceAssumption, Cw721StakingAssumption, Cw721TimelockAssumption, WrappedAssumption,
   GumballAssumption DEF Custodians

\* What is owed is what the venue of the behaviour owes.
OwedByVenue ==
  /\ venue = "market" => Owed = Sellers
  /\ venue = "staking" => Owed = Stakers
  /\ venue = "lock" => Owed = Recipients
  /\ venue \notin {"market", "staking", "lock"} => Owed = [t \in {} |-> 0]

LEMMA OwedIs == NftInv => OwedByVenue
<1> SUFFICES ASSUME NftInv PROVE OwedByVenue
  OBVIOUS
<1>1. venue # "market" => OnSale = {}
  BY DEF NftInv, Idle, OnSale
<1>2. venue # "staking" => DOMAIN stakedNfts = {}
  BY DEF NftInv, Idle
<1>3. venue # "lock" => DOMAIN lockedItems = {}
  BY DEF NftInv, Idle
<1>4. CASE venue = "market"
  BY <1>2, <1>3, <1>4 DEF OwedByVenue, Owed, InCustody, Sellers
<1>5. CASE venue = "staking"
  BY <1>1, <1>3, <1>5 DEF OwedByVenue, Owed, InCustody, Stakers
<1>6. CASE venue = "lock"
  BY <1>1, <1>2, <1>6 DEF OwedByVenue, Owed, InCustody, Recipients
<1>7. CASE venue \notin {"market", "staking", "lock"}
  BY <1>1, <1>2, <1>3, <1>7 DEF OwedByVenue, Owed, InCustody
<1> QED BY <1>4, <1>5, <1>6, <1>7 DEF OwedByVenue

\* A faithful step is one that custody allows.
LEMMA FaithfulStep ==
  ASSUME NEW f, NEW g, NEW c \in Custodians, Owed = f, Owed' = g, Faithful(f, g, c),
         \A t \in DOMAIN f : t \in Minted /\ owner[t] = c
  PROVE  Custody!Next
<1>1. CASE Stay(f, g)
  BY <1>1 DEF Stay, Minted, Custody!Next, Custody!Elsewhere, Custody!Stays
<1>2. ASSUME NEW t \in Minted, Begun(f, g, t, c)
      PROVE  Custody!Next
  <2>1. \A r \in DOMAIN f : r \in DOMAIN owner' /\ owner'[r] = owner[r]
    BY <1>2 DEF Begun, Given, Minted
  <2>2. Custody!TakeIn(t)
    BY <1>2, <2>1 DEF Begun, Given, Minted, Custody!TakeIn, Custody!OthersStay, Custody!Stays
  <2> QED BY <2>2 DEF Custody!Next, Minted
<1>3. ASSUME NEW t \in Minted, NEW u \in Users, Ended(f, g, t, u),
             u = f[t] \/ wallet'[f[t]] > wallet[f[t]]
      PROVE  Custody!Next
  <2>1. \A r \in DOMAIN f \ {t} : r \in DOMAIN owner' /\ owner'[r] = owner[r]
    BY <1>3 DEF Ended, Given, Minted
  <2>2. Custody!Released(t)
    BY <1>3, <2>1, NobodyIsCustodian
       DEF Ended, Given, Minted, Custody!Released, Custody!OthersStay, Custody!Stays
  <2>3. Custody!Return(t) \/ Custody!Sell(t)
    BY <1>3, <2>2 DEF Ended, Given, Custody!Return, Custody!Sell
  <2> QED BY <2>3 DEF Custody!Next, Minted
<1> QED BY <1>1, <1>2, <1>3 DEF Faithful

LEMMA CustodyStep ==
  ASSUME NftInv, [VenuesNext]_allVars
  PROVE  [Custody!Next]_(Custody!vars)
<1>1. StepFacts
  BY Steps, Stutters
<1>2. venue' = venue /\ NftInv'
  BY <1>1 DEF StepFacts
<1>o. OwedByVenue /\ OwedByVenue'
  BY <1>2, OwedIs, PTL
<1>3. CASE venue = "market"
  <2>1. Owed = Sellers /\ Owed' = Sellers'
    BY <1>2, <1>3, <1>o DEF OwedByVenue
  <2>2. \A t \in DOMAIN Sellers : t \in Minted /\ owner[t] = Market
    BY DEF NftInv, MarketInv, Sellers
  <2>3. Faithful(Sellers, Sellers', Market) /\ Market \in Custodians
    BY <1>1, <1>3 DEF StepFacts, Custodians
  <2> QED BY <2>1, <2>2, <2>3, FaithfulStep
<1>4. CASE venue = "staking"
  <2>1. Owed = Stakers /\ Owed' = Stakers'
    BY <1>2, <1>4, <1>o DEF OwedByVenue
  <2>2. \A t \in DOMAIN Stakers : t \in Minted /\ owner[t] = Staking
    BY DEF NftInv, StakingInv, Stakers
  <2>3. Faithful(Stakers, Stakers', Staking) /\ Staking \in Custodians
    BY <1>1, <1>4 DEF StepFacts, Custodians
  <2> QED BY <2>1, <2>2, <2>3, FaithfulStep
<1>5. CASE venue = "lock"
  <2>1. Owed = Recipients /\ Owed' = Recipients'
    BY <1>2, <1>5, <1>o DEF OwedByVenue
  <2>2. \A t \in DOMAIN Recipients : t \in Minted /\ owner[t] = TokenLock
    BY DEF NftInv, LockInv, Recipients
  <2>3. Faithful(Recipients, Recipients', TokenLock) /\ TokenLock \in Custodians
    BY <1>1, <1>5 DEF StepFacts, Custodians
  <2> QED BY <2>1, <2>2, <2>3, FaithfulStep
<1>6. CASE venue \notin {"market", "staking", "lock"}
  <2>1. Owed = [t \in {} |-> 0] /\ Owed' = [t \in {} |-> 0]
    BY <1>2, <1>6, <1>o DEF OwedByVenue
  <2>2. Custody!Elsewhere
    BY <2>1 DEF Custody!Elsewhere
  <2> QED BY <2>2 DEF Custody!Next
<1> QED BY <1>3, <1>4, <1>5, <1>6

\* The marketplace, the staking and the time lock implement the custody of tokens.
THEOREM CustodyImplemented == VenuesSpec => CustodyKept
<1>1. VenuesInit => Custody!Init
  <2> SUFFICES ASSUME VenuesInit PROVE Custody!Init
    OBVIOUS
  <2>1. /\ \A t \in Tokens : ~HasSale(t)
        /\ DOMAIN stakedNfts = {} /\ DOMAIN lockedItems = {} /\ DOMAIN owner = {}
    BY DEF VenuesInit, MarketInit, HasSale, StakingInit, LockInit, Init, Cw721Init
  <2>2. Owed = [t \in {} |-> 0]
    BY <2>1 DEF Owed, InCustody, OnSale
  <2> QED BY <2>1, <2>2 DEF Custody!Init
<1>2. NftInv /\ [VenuesNext]_allVars => [Custody!Next]_(Custody!vars)
  BY CustodyStep
<1> QED BY <1>1, <1>2, Invariance, PTL DEF VenuesSpec, CustodyKept, Custody!Spec
=============================================================================

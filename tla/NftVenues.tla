----------------------------- MODULE NftVenues ------------------------------
(***************************************************************************)
(* The contracts that tokens are sent to, over one token contract: bids,   *)
(* the marketplace, staking, the time lock, the wrapper and the gumball    *)
(* machine.  They share the token contract and nothing else, so a          *)
(* behaviour is about the tokens and one of them, the venue.               *)
(***************************************************************************)
EXTENDS Cw721Bids, Marketplace, Cw721Staking, Cw721Timelock, WrappedCw721, Gumball

CONSTANTS
  Venues,     \* which of them
  TokensAt,   \* bound on the tokens minted beside each, for model checking
  TimeAt      \* bound on time beside each, for model checking

ASSUME VenuesAssumption == \A v \in Venues : TokensAt[v] \subseteq Tokens /\ TimeAt[v] \in Nat

VARIABLE venue

Custodians == {Market, Staking, TokenLock, Wrapper, Machine}

allVars == <<vars, marketVars, stakingVars, lockedItems, wrapVars, gumVars, venue>>

VenuesInit ==
  /\ Init /\ MarketInit /\ StakingInit /\ LockInit /\ WrapInit /\ GumInit
  /\ venue \in Venues

\* Transfers by users, of tokens whose contract has no bids for a module; a
\* custodian that gets a token this way does not know of it.
PlainTransfer ==
  \E s \in Users, t \in Tokens, u \in DOMAIN wallet :
    TransferNft(s, t, u, 0, 0, 0, [v \in DOMAIN wallet |-> 0])

\* What users do in the token contract.  There are no transfer agreements beside
\* a venue: one would outlive the deposit and bind what the venue does with the
\* token.  The minter of the gumball machine's tokens is the machine.
TokenOnly ==
  /\ TokenStep \/ PlainTransfer
  /\ agreement' = agreement
  /\ venue = "gumball" => Minted' \subseteq Minted

MarketNext == MarketStep \/ (TokenOnly /\ UNCHANGED marketVars)
StakingNext == StakingStep \/ StakingTick \/ (TokenOnly /\ UNCHANGED stakingVars)
LockNext == LockStep \/ ((TokenOnly \/ Tick) /\ UNCHANGED lockedItems)
WrapNext == WrapStep \/ (TokenOnly /\ UNCHANGED wrapVars)
GumNext == GumStep \/ (TokenOnly /\ UNCHANGED gumVars)

VenuesNext ==
  /\ UNCHANGED venue
  /\ \/ /\ venue = "bids" /\ Next
        /\ UNCHANGED <<marketVars, stakingVars, lockedItems, wrapVars, gumVars>>
     \/ /\ venue # "bids"
        /\ UNCHANGED bidVars
        /\ \/ /\ venue = "market" /\ MarketNext
              /\ UNCHANGED <<stakingVars, lockedItems, wrapVars, gumVars>>
           \/ /\ venue = "staking" /\ StakingNext
              /\ UNCHANGED <<marketVars, lockedItems, wrapVars, gumVars>>
           \/ /\ venue = "lock" /\ LockNext
              /\ UNCHANGED <<marketVars, stakingVars, wrapVars, gumVars>>
           \/ /\ venue = "wrap" /\ WrapNext
              /\ UNCHANGED <<marketVars, stakingVars, lockedItems, gumVars>>
           \/ /\ venue = "gumball" /\ GumNext
              /\ UNCHANGED <<marketVars, stakingVars, lockedItems, wrapVars>>
  /\ Minted' \subseteq TokensAt[venue] /\ now' <= TimeAt[venue]

VenuesSpec == VenuesInit /\ [][VenuesNext]_allVars
-----------------------------------------------------------------------------
\* The tokens in custody, and to whom they are owed: the seller of an open sale,
\* the staker, the recipient of a lock, who holds the wrapped token.
OnSale == {t \in Tokens : HasSale(t) /\ sales[LatestSale(t)].status = "Open"}
InCustody == OnSale \cup DOMAIN stakedNfts \cup DOMAIN lockedItems
Owed == [t \in InCustody |->
  IF t \in OnSale THEN sales[LatestSale(t)].seller
  ELSE IF t \in DOMAIN stakedNfts THEN stakedNfts[t].staker
  ELSE lockedItems[t].recipient]

\* Marketplace, staking and time lock keep the promise of NftCustody: a token
\* they were sent is returned to the one it is owed to or, by the marketplace,
\* sold while the seller is paid; nothing users do in the token contract, no
\* change of price or settings, and no earlier deposit of the token interferes.
Custody == INSTANCE NftCustody WITH owed <- Owed
CustodyKept == Custody!Spec
=============================================================================

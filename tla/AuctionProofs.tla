--------------------------- MODULE AuctionProofs ----------------------------
(***************************************************************************)
(* Proofs about Auction, for any users, tokens, coins and terms, where      *)
(* tokens reach the contract only with the terms of an auction.             *)
(***************************************************************************)
EXTENDS Auction, Sums, SequenceTheorems, TLAPS

USE AuctionAssumption, NobodyAssumption

\* The token of an auction that is not cancelled and not over is with the
\* contract, and the token of a cancelled auction is not.
Holding ==
  \A t \in Tokens :
    /\ Exists(t) /\ ~Current(t).isCancelled /\ ~Ended(Current(t)) => nftOwner[t] = Contract
    /\ nftOwner[t] = Contract => Exists(t) /\ ~Current(t).isCancelled

\* Nobody has bid before the start, and a bid has a bidder.
Fresh ==
  \A i \in DOMAIN auction :
    /\ auction[i].terms.start < auction[i].terms.end
    /\ ~Started(auction[i]) => auction[i].highAmount = 0
    /\ auction[i].highAmount = 0 <=> auction[i].highBidder = Nobody

IInv == TypeOK /\ Holding /\ Fresh /\ Charged

\* An auction is the current one of at most one token.
LEMMA CurrentUnique ==
  ASSUME TypeOK, NEW s \in Tokens, NEW t \in Tokens, Exists(s), latest[s] = latest[t]
  PROVE  s = t
BY DEF TypeOK, Exists, Current

LEMMA CurrentFacts ==
  ASSUME TypeOK, NEW t \in Tokens, Exists(t)
  PROVE  latest[t] \in DOMAIN auction /\ Current(t) \in State /\ Current(t) = auction[latest[t]]
BY DEF TypeOK, Exists, Current

LEMMA FiniteAuctions ==
  ASSUME TypeOK PROVE IsFiniteSet(DOMAIN auction)
BY FS_Interval DEF TypeOK

\* Prices are naturals, and what a user is out of pocket covers each of them.
LEMMA PriceFacts ==
  ASSUME TypeOK, Charged, NEW u \in Users, NEW d \in Denoms
  PROVE  /\ \A i \in DOMAIN auction : Price(i, u, d) \in Nat /\ Price(i, u, d) <= spent[u][d]
<1> DEFINE f == [i \in DOMAIN auction |-> Price(i, u, d)]
<1>1. \A i \in DOMAIN auction : f[i] \in Nat
  BY DEF TypeOK, State, Price
<1>2. spent[u][d] = SumFunctionOnSet(f, DOMAIN auction)
  BY DEF Charged
<1>3. \A i \in DOMAIN auction : f[i] = Price(i, u, d)
  OBVIOUS
<1> HIDE DEF f
<1> QED BY <1>1, <1>2, <1>3, FiniteAuctions, SumNat

\* What a step that changes one auction must do to what users are out of pocket.
LEMMA ChargedChange ==
  ASSUME TypeOK, Charged, NEW i \in DOMAIN auction, DOMAIN auction' = DOMAIN auction,
         \A j \in DOMAIN auction \ {i} : auction'[j] = auction[j],
         auction'[i] \in State,
         \A u \in Users, d \in Denoms :
           spent'[u][d] = spent[u][d] - Price(i, u, d) + Price(i, u, d)'
  PROVE  Charged'
<1> SUFFICES ASSUME NEW u \in Users, NEW d \in Denoms
             PROVE  spent'[u][d] = SumFunctionOnSet([j \in DOMAIN auction' |-> Price(j, u, d)'], DOMAIN auction')
  BY DEF Charged
<1> DEFINE f == [j \in DOMAIN auction |-> Price(j, u, d)]
           g == [j \in DOMAIN auction |-> Price(j, u, d)']
<1>1. \A j \in DOMAIN auction : auction[j] \in State /\ auction'[j] \in State
  BY DEF TypeOK
<1>2. \A j \in DOMAIN auction : f[j] \in Int /\ g[j] \in Int
  BY <1>1 DEF State, Price
<1>0. \A j \in DOMAIN auction \ {i} : g[j] = f[j]
  BY DEF Price
<1>3. spent[u][d] = SumFunctionOnSet(f, DOMAIN auction)
  BY DEF Charged
<1>4. f[i] = Price(i, u, d) /\ g[i] = Price(i, u, d)'
  OBVIOUS
<1> HIDE DEF f, g
<1>5. SumFunctionOnSet(g, DOMAIN auction) = SumFunctionOnSet(f, DOMAIN auction) - f[i] + g[i]
  BY <1>0, <1>2, FiniteAuctions, SumChange
<1>6. SumFunctionOnSet(g, DOMAIN auction) = spent'[u][d]
  BY <1>3, <1>4, <1>5
<1> QED BY <1>6 DEF g
-----------------------------------------------------------------------------
LEMMA InitIInv == Init => IInv
<1> SUFFICES ASSUME Init PROVE IInv
  OBVIOUS
<1>1. DOMAIN auction = {} /\ nextId = 1 /\ \A t \in Tokens : ~Exists(t) /\ nftOwner[t] # Contract
  BY DEF Init, Exists
<1>2. TypeOK
  BY <1>1 DEF Init, TypeOK
<1>3. Charged
  BY <1>1, SumEmpty DEF Init, Charged
<1> QED BY <1>1, <1>2, <1>3 DEF IInv, Holding, Fresh

\* A step that leaves the auctions and the money alone.
LEMMA ChargedKept ==
  ASSUME TypeOK, Charged, UNCHANGED <<auction, spent>>
  PROVE  Charged'
BY DEF Charged, Price

LEMMA TickStep == IInv /\ Tick => IInv'
<1> SUFFICES ASSUME IInv, Tick PROVE IInv'
  OBVIOUS
<1>1. now \in Nat /\ now' = now + 1
      /\ UNCHANGED <<nextId, latest, auction, bids, nftOwner, held, spent, payouts>>
  BY DEF Tick, ledger, IInv, TypeOK
<1>2. \A i \in DOMAIN auction : auction[i].terms.start \in Nat /\ auction[i].terms.end \in Nat
  BY DEF IInv, TypeOK, State, Terms
<1>3. TypeOK'
  <2>1. now' \in Nat
    BY <1>1
  <2>2. \A t \in Tokens : Exists(t)' => Current(t)'.token = t
    BY <1>1 DEF IInv, TypeOK, Exists, Current
  <2> QED BY <1>1, <2>1, <2>2 DEF IInv, TypeOK
<1>4. \A t \in Tokens : Exists(t) => latest[t] \in DOMAIN auction
  BY CurrentFacts DEF IInv
<1>5. Holding'
  BY <1>1, <1>2, <1>4 DEF IInv, Holding, Ended, Exists, Current
<1>6. Fresh'
  BY <1>1, <1>2 DEF IInv, Fresh, Started
<1> QED BY <1>1, <1>3, <1>5, <1>6, ChargedKept DEF IInv

LEMMA StartStep ==
  ASSUME IInv, NEW u \in Users, NEW t \in Tokens,
         NEW start \in StartTimes, NEW duration \in Durations, NEW denom \in Denoms,
         NEW minBid \in MinBids, NEW whitelist \in Whitelists,
         StartAuction(u, t, TermsOf(start, duration, denom, minBid, whitelist))
  PROVE  IInv'
<1> DEFINE terms == TermsOf(start, duration, denom, minBid, whitelist)
           new == [terms |-> terms, highBidder |-> Nobody, highAmount |-> 0,
                   owner |-> u, token |-> t, isCancelled |-> FALSE]
<1>1. terms \in Terms /\ new \in State
  BY DEF TermsOf, Terms, State
<1>2. /\ nftOwner[t] = u
      /\ terms.start < terms.end /\ terms.start > now
      /\ nftOwner' = [nftOwner EXCEPT ![t] = Contract]
      /\ latest' = [latest EXCEPT ![t] = nextId]
      /\ nextId' = nextId + 1
      /\ auction' = [i \in 1 .. nextId |-> IF i = nextId THEN new ELSE auction[i]]
      /\ bids' = [i \in 1 .. nextId |-> IF i = nextId THEN <<>> ELSE bids[i]]
      /\ payouts' = [i \in 1 .. nextId |-> IF i = nextId THEN 0 ELSE payouts[i]]
      /\ UNCHANGED <<now, held, spent>>
  BY DEF StartAuction
<1> HIDE DEF terms, new
<1>3. new.terms = terms /\ new.highBidder = Nobody /\ new.highAmount = 0
      /\ new.token = t /\ ~new.isCancelled
  BY DEF new
<1>4. /\ nextId \in Nat \ {0} /\ DOMAIN auction = 1 .. nextId - 1
      /\ DOMAIN auction' = 1 .. nextId
      /\ auction'[nextId] = new
      /\ \A i \in DOMAIN auction : auction'[i] = auction[i]
  BY <1>2 DEF IInv, TypeOK
<1>5. /\ Current(t)' = new /\ Exists(t)'
      /\ \A s \in Tokens \ {t} :
           /\ Exists(s)' <=> Exists(s)
           /\ Exists(s) => Current(s)' = Current(s)
           /\ nftOwner'[s] = nftOwner[s]
  BY <1>2, <1>4, SMTT(30) DEF IInv, TypeOK, Exists, Current
<1>6. TypeOK'
  <2>0. \A s \in Tokens : Exists(s) => Current(s).token = s
    BY DEF IInv, TypeOK
  <2>1. nextId' \in Nat \ {0} /\ latest' \in [Tokens -> 0 .. nextId' - 1]
    <3>1. nextId' - 1 = nextId /\ nextId \in 0 .. nextId /\ 0 .. nextId - 1 \subseteq 0 .. nextId
      BY <1>2, <1>4
    <3>2. latest \in [Tokens -> 0 .. nextId]
      BY <3>1 DEF IInv, TypeOK
    <3> QED BY <1>2, <1>4, <3>1, <3>2
  <2>2. auction' \in [1 .. nextId' - 1 -> State]
    BY <1>1, <1>2 DEF IInv, TypeOK
  <2>3. bids' \in [1 .. nextId' - 1 -> Seq([bidder : Users, amount : Nat])]
    <3>1. nextId' - 1 = nextId
      BY <1>2, <1>4
    <3> DEFINE B == Seq([bidder : Users, amount : Nat])
    <3>2. <<>> \in B
      OBVIOUS
    <3>3. bids \in [1 .. nextId - 1 -> B]
      BY DEF IInv, TypeOK
    <3> HIDE DEF B
    <3>4. \A i \in 1 .. nextId : i # nextId => i \in 1 .. nextId - 1
      BY <1>4
    <3>5. bids' \in [1 .. nextId -> B]
      BY <1>2, <3>2, <3>3, <3>4
    <3> QED BY <3>1, <3>5 DEF B
  <2>4. payouts' \in [1 .. nextId' - 1 -> Nat]
    BY <1>2, SMTT(30) DEF IInv, TypeOK
  <2>5. nftOwner' \in [Tokens -> Users \cup {Contract}]
    BY <1>2 DEF IInv, TypeOK
  <2>6. \A s \in Tokens : Exists(s)' => Current(s)'.token = s
    BY <1>3, <1>5, <2>0
  <2> QED BY <1>2, <2>1, <2>2, <2>3, <2>4, <2>5, <2>6 DEF IInv, TypeOK
<1>7. Holding'
  BY <1>2, <1>3, <1>5 DEF IInv, TypeOK, Holding, Ended
<1>8. Fresh'
  <2>1. now \in Nat /\ terms.start \in Nat /\ terms.end \in Nat
    BY <1>1 DEF IInv, TypeOK, Terms
  <2> QED BY <1>2, <1>3, <1>4, <2>1 DEF IInv, Fresh, Started
<1>9. Charged'
  <2> SUFFICES ASSUME NEW v \in Users, NEW d \in Denoms
               PROVE  spent'[v][d] = SumFunctionOnSet([i \in DOMAIN auction' |-> Price(i, v, d)'], DOMAIN auction')
    BY DEF Charged
  <2> DEFINE f == [i \in DOMAIN auction |-> Price(i, v, d)]
             g == [i \in DOMAIN auction' |-> Price(i, v, d)']
  <2>1. \A i \in DOMAIN auction : f[i] \in Nat /\ g[i] = f[i]
    BY <1>4, PriceFacts DEF IInv, Price
  <2>2. g[nextId] = 0
    BY <1>3, <1>4 DEF Price
  <2>3. spent[v][d] = SumFunctionOnSet(f, DOMAIN auction)
    BY DEF IInv, Charged
  <2> HIDE DEF f, g
  <2>4. IsFiniteSet(DOMAIN auction) /\ IsFiniteSet(DOMAIN auction')
    BY <1>4, FiniteAuctions, FS_Interval DEF IInv
  <2>5. /\ nextId \in DOMAIN auction' /\ DOMAIN auction' \ {nextId} = DOMAIN auction
        /\ \A i \in DOMAIN auction' : g[i] \in Int
    BY <1>4, <2>1, <2>2
  <2>6. SumFunctionOnSet(g, DOMAIN auction') = g[nextId] + SumFunctionOnSet(g, DOMAIN auction)
    BY <2>4, <2>5, SumSplit
  <2>7. \A i \in DOMAIN auction : f[i] \in Int /\ f[i] = g[i]
    BY <2>1
  <2>8. SumFunctionOnSet(f, DOMAIN auction) = SumFunctionOnSet(g, DOMAIN auction)
    BY <2>4, <2>7, SumCongruence
  <2>9. SumFunctionOnSet(g, DOMAIN auction) \in Int
    BY <2>4, <2>1, <2>7, SumSplit
  <2>10. spent'[v][d] = SumFunctionOnSet(g, DOMAIN auction')
    BY <1>2, <2>2, <2>3, <2>6, <2>8, <2>9
  <2> QED BY <2>10 DEF g
<1> QED BY <1>6, <1>7, <1>8, <1>9 DEF IInv

LEMMA UpdateStep ==
  ASSUME IInv, NEW u \in Users, NEW t \in Tokens,
         NEW start \in StartTimes, NEW duration \in Durations, NEW denom \in Denoms,
         NEW minBid \in MinBids, NEW whitelist \in Whitelists,
         UpdateAuction(u, t, TermsOf(start, duration, denom, minBid, whitelist))
  PROVE  IInv'
<1> DEFINE terms == TermsOf(start, duration, denom, minBid, whitelist)
<1>1. terms \in Terms
  BY DEF TermsOf, Terms
<1>3. PICK i \in DOMAIN auction, a \in State : i = latest[t] /\ a = auction[i] /\ a = Current(t)
  BY CurrentFacts DEF IInv, UpdateAuction
<1>2. /\ Exists(t) /\ ~Started(a)
      /\ terms.start < terms.end /\ terms.start > now
      /\ auction' = [auction EXCEPT ![i].terms = terms]
      /\ UNCHANGED <<now, nextId, latest, bids, nftOwner, held, spent, payouts>>
  BY <1>3 DEF UpdateAuction, ledger
<1> HIDE DEF terms
<1>4. /\ DOMAIN auction' = DOMAIN auction
      /\ \A j \in DOMAIN auction \ {i} : auction'[j] = auction[j]
      /\ auction'[i] = [a EXCEPT !.terms = terms]
      /\ auction'[i] \in State
  BY <1>1, <1>2, <1>3, ZenonT(40) DEF IInv, TypeOK, State
<1>5. /\ auction'[i].terms = terms /\ auction'[i].highAmount = a.highAmount
      /\ auction'[i].highBidder = a.highBidder /\ auction'[i].token = a.token
      /\ auction'[i].isCancelled = a.isCancelled
  BY <1>3, <1>4 DEF State
<1>6. \A s \in Tokens : Exists(s) =>
        latest[s] \in DOMAIN auction /\ Current(s) = auction[latest[s]] /\ Current(s)' = auction'[latest[s]]
  BY <1>2, CurrentFacts DEF IInv, Current
<1>7. a.highAmount = 0
  BY <1>2, <1>3 DEF IInv, Fresh
<1>8. /\ now \in Nat /\ terms.start \in Nat /\ terms.end \in Nat
      /\ a.terms.start \in Nat /\ a.terms.end \in Nat
  BY <1>1 DEF IInv, TypeOK, Terms, State
<1>9. TypeOK'
  <2>1. auction' \in [1 .. nextId - 1 -> State]
    BY <1>2, <1>4 DEF IInv, TypeOK
  <2>2. \A s \in Tokens : Exists(s)' => Current(s)'.token = s
    <3>1. \A s \in Tokens : Exists(s) => Current(s).token = s
      BY DEF IInv, TypeOK
    <3>2. \A s \in Tokens : Exists(s)' <=> Exists(s)
      BY <1>2 DEF Exists
    <3>3. \A s \in Tokens : Exists(s) => Current(s)'.token = Current(s).token
      <4>1. ASSUME NEW s \in Tokens, Exists(s), latest[s] = i
            PROVE  Current(s)'.token = Current(s).token
        BY <1>3, <1>5, <1>6, <4>1
      <4>2. ASSUME NEW s \in Tokens, Exists(s), latest[s] # i
            PROVE  Current(s)'.token = Current(s).token
        BY <1>4, <1>6, <4>2
      <4> QED BY <4>1, <4>2
    <3> QED BY <3>1, <3>2, <3>3
  <2> QED BY <1>2, <2>1, <2>2 DEF IInv, TypeOK
<1>10. Holding'
  <2>1. ~Ended(a)
    <3>1. a.terms.start < a.terms.end
      BY <1>3 DEF IInv, Fresh
    <3>2. ~Started(a)
      BY <1>2
    <3> QED BY <1>8, <3>1, <3>2 DEF Started, Ended
  <2> QED BY <1>2, <1>3, <1>4, <1>5, <1>6, <2>1 DEF IInv, Holding, Ended, Exists
<1>11. Fresh'
  <2>1. a.highBidder = Nobody
    BY <1>3, <1>7 DEF IInv, Fresh
  <2>2. ASSUME NEW j \in DOMAIN auction, j # i
        PROVE  auction'[j] = auction[j] /\ Started(auction[j])' = Started(auction[j])
    BY <1>2, <1>4, <2>2 DEF Started
  <2>3. \A j \in DOMAIN auction :
          /\ auction'[j].terms.start < auction'[j].terms.end
          /\ ~Started(auction[j])' => auction'[j].highAmount = 0
          /\ auction'[j].highAmount = 0 <=> auction'[j].highBidder = Nobody
    BY <1>2, <1>5, <1>7, <2>1, <2>2 DEF IInv, Fresh
  <2> QED BY <1>4, <2>3 DEF Fresh
<1>12. Charged'
  <2>1. \A v \in Users, d \in Denoms : Price(i, v, d) = 0 /\ Price(i, v, d)' = 0
    BY <1>2, <1>3, <1>4, <1>5, <1>7 DEF Price
  <2>2. \A v \in Users, d \in Denoms : spent[v][d] \in Nat
    BY DEF IInv, TypeOK
  <2>3. \A v \in Users, d \in Denoms : spent'[v][d] = spent[v][d] - Price(i, v, d) + Price(i, v, d)'
    BY <1>2, <2>1, <2>2
  <2> QED BY <1>3, <1>4, <2>3, ChargedChange DEF IInv
<1> QED BY <1>9, <1>10, <1>11, <1>12 DEF IInv

\* What the holder of the highest bid of a is sent back by Refunded.
Back(a, v, d) == IF a.highBidder = v /\ a.terms.denom = d THEN a.highAmount ELSE 0

LEMMA RefundedFacts ==
  ASSUME IInv, NEW i \in DOMAIN auction, ~auction[i].isCancelled
  PROVE  /\ Refunded(auction[i], spent) \in [Users -> [Denoms -> Nat]]
         /\ \A v \in Users, d \in Denoms :
              /\ Refunded(auction[i], spent)[v][d] = spent[v][d] - Price(i, v, d)
              /\ Price(i, v, d) = Back(auction[i], v, d)
<1>1. PICK a \in State : a = auction[i]
  BY DEF IInv, TypeOK
<1>2. /\ a.highAmount \in Nat /\ a.terms.denom \in Denoms /\ ~a.isCancelled
      /\ a.highAmount = 0 <=> a.highBidder = Nobody
      /\ a.highAmount # 0 => a.highBidder \in Users
  BY <1>1 DEF IInv, Fresh, State, Terms
<1>3. \A v \in Users, d \in Denoms : Price(i, v, d) = Back(a, v, d)
  BY <1>1, <1>2 DEF Price, Back
<1>4. spent \in [Users -> [Denoms -> Nat]]
  BY DEF IInv, TypeOK
<1>5. CASE a.highAmount = 0
  <2>1. Refunded(a, spent) = spent
    BY <1>5 DEF Refunded
  <2>2. \A v \in Users, d \in Denoms : Back(a, v, d) = 0
    BY <1>5 DEF Back
  <2>3. \A v \in Users, d \in Denoms : spent[v][d] \in Nat
    BY <1>4
  <2>4. \A v \in Users, d \in Denoms : spent[v][d] = spent[v][d] - 0
    BY <2>3
  <2> QED BY <1>1, <1>3, <1>4, <2>1, <2>2, <2>4
<1>6. CASE a.highAmount # 0
  <2>1. PICK w \in Users, e \in Denoms : w = a.highBidder /\ e = a.terms.denom
    BY <1>2, <1>6
  <2>2. Refunded(a, spent) = [spent EXCEPT ![w][e] = @ - a.highAmount]
    BY <1>6, <2>1 DEF Refunded
  <2>3. spent[w][e] >= a.highAmount /\ spent[w][e] \in Nat
    BY <1>3, <1>4, <2>1, PriceFacts DEF Back, IInv
  <2>4. spent[w][e] - a.highAmount \in Nat
    BY <1>2, <2>3
  <2>5. Refunded(a, spent) \in [Users -> [Denoms -> Nat]]
    BY <1>4, <2>2, <2>4
  <2>6. ASSUME NEW v \in Users, NEW d \in Denoms
        PROVE  Refunded(a, spent)[v][d] = spent[v][d] - Back(a, v, d)
    BY <1>2, <1>4, <2>1, <2>2 DEF Back
  <2> QED BY <1>1, <1>3, <2>5, <2>6
<1> QED BY <1>5, <1>6

LEMMA PlaceBidStep ==
  ASSUME IInv, NEW u \in Users, NEW t \in Tokens, NEW amount \in BidAmounts,
         PlaceBid(u, t, amount)
  PROVE  IInv'
<1>1. PICK i \in DOMAIN auction, a \in State : i = latest[t] /\ a = auction[i] /\ a = Current(t)
  BY CurrentFacts DEF IInv, PlaceBid
<1>2. PICK d \in Denoms : d = a.terms.denom
  BY DEF State, Terms
<1>3. /\ ~a.isCancelled /\ Started(a) /\ ~Ended(a)
      /\ a.highBidder # u /\ amount > 0 /\ amount > a.highAmount
      /\ held[d] + amount >= a.highAmount
      /\ auction' = [auction EXCEPT ![i].highBidder = u, ![i].highAmount = amount]
      /\ bids' = [bids EXCEPT ![i] = Append(@, [bidder |-> u, amount |-> amount])]
      /\ held' = [held EXCEPT ![d] = @ + amount - a.highAmount]
      /\ spent' = [Refunded(a, spent) EXCEPT ![u][d] = @ + amount]
      /\ UNCHANGED <<now, nextId, latest, nftOwner, payouts>>
  BY <1>1, <1>2 DEF PlaceBid
<1>4. amount \in Nat /\ a.highAmount \in Nat
  BY DEF State
<1>5. /\ DOMAIN auction' = DOMAIN auction
      /\ \A j \in DOMAIN auction \ {i} : auction'[j] = auction[j]
      /\ auction'[i] = [a EXCEPT !.highBidder = u, !.highAmount = amount]
      /\ auction'[i] \in State
  BY <1>1, <1>3, <1>4, ZenonT(40) DEF IInv, TypeOK, State
<1>6. /\ auction'[i].terms = a.terms /\ auction'[i].token = a.token
      /\ auction'[i].highBidder = u /\ auction'[i].highAmount = amount
      /\ auction'[i].isCancelled = a.isCancelled
  BY <1>5 DEF State
<1>7. \A s \in Tokens :
        /\ Exists(s)' <=> Exists(s)
        /\ Exists(s) => /\ latest[s] \in DOMAIN auction
                        /\ Current(s) = auction[latest[s]] /\ Current(s)' = auction'[latest[s]]
  BY <1>3, CurrentFacts DEF IInv, Exists, Current
<1>8. \A s \in Tokens :
        Exists(s) => /\ Current(s)'.token = Current(s).token
                     /\ Current(s)'.isCancelled = Current(s).isCancelled
                     /\ Ended(Current(s))' = Ended(Current(s))
  <2>1. ASSUME NEW s \in Tokens, Exists(s), latest[s] = i
        PROVE  /\ Current(s)'.token = Current(s).token
               /\ Current(s)'.isCancelled = Current(s).isCancelled
               /\ Ended(Current(s))' = Ended(Current(s))
    BY <1>1, <1>3, <1>6, <1>7, <2>1, ZenonT(40) DEF Ended
  <2>2. ASSUME NEW s \in Tokens, Exists(s), latest[s] # i
        PROVE  Current(s)' = Current(s) /\ Ended(Current(s))' = Ended(Current(s))
    BY <1>3, <1>5, <1>7, <2>2 DEF Ended
  <2> QED BY <2>1, <2>2
<1>9. TypeOK'
  <2>1. auction' \in [1 .. nextId - 1 -> State]
    BY <1>3, <1>5 DEF IInv, TypeOK
  <2>2. bids' \in [1 .. nextId - 1 -> Seq([bidder : Users, amount : Nat])]
    <3> DEFINE B == [bidder : Users, amount : Nat]
    <3>1. [bidder |-> u, amount |-> amount] \in B
      BY <1>4
    <3>2. bids \in [1 .. nextId - 1 -> Seq(B)] /\ i \in 1 .. nextId - 1
      BY DEF IInv, TypeOK
    <3> HIDE DEF B
    <3>3. Append(bids[i], [bidder |-> u, amount |-> amount]) \in Seq(B)
      BY <3>1, <3>2
    <3>4. bids' \in [1 .. nextId - 1 -> Seq(B)]
      BY <1>3, <3>2, <3>3
    <3> QED BY <3>4 DEF B
  <2>3. held' \in [Denoms -> Nat]
    <3>1. held[d] + amount - a.highAmount \in Nat
      BY <1>3, <1>4, SMTT(30) DEF IInv, TypeOK
    <3> QED BY <1>3, <3>1 DEF IInv, TypeOK
  <2>4. spent' \in [Users -> [Denoms -> Nat]]
    <3>1. Refunded(a, spent) \in [Users -> [Denoms -> Nat]]
      BY <1>1, <1>3, RefundedFacts, ZenonT(40)
    <3>2. Refunded(a, spent)[u][d] + amount \in Nat
      BY <1>4, <3>1
    <3> QED BY <1>3, <3>1, <3>2
  <2>5. \A s \in Tokens : Exists(s)' => Current(s)'.token = s
    BY <1>7, <1>8 DEF IInv, TypeOK
  <2> QED BY <1>3, <2>1, <2>2, <2>3, <2>4, <2>5 DEF IInv, TypeOK
<1>10. Holding'
  BY <1>3, <1>7, <1>8 DEF IInv, Holding
<1>11. Fresh'
  <2>1. \A j \in DOMAIN auction : Started(auction[j])' = Started(auction[j])
    <3>1. \A j \in DOMAIN auction : auction'[j].terms = auction[j].terms
      BY <1>1, <1>5, <1>6
    <3> QED BY <1>3, <3>1 DEF Started
  <2>2. ASSUME NEW j \in DOMAIN auction, j # i
        PROVE  auction'[j] = auction[j]
    BY <1>5, <2>2
  <2>3. u # Nobody /\ amount # 0
    BY <1>3, <1>4
  <2>4. \A j \in DOMAIN auction :
          /\ auction'[j].terms.start < auction'[j].terms.end
          /\ ~Started(auction[j]) => auction'[j].highAmount = 0
          /\ auction'[j].highAmount = 0 <=> auction'[j].highBidder = Nobody
    <3> SUFFICES ASSUME NEW j \in DOMAIN auction
                 PROVE  /\ auction'[j].terms.start < auction'[j].terms.end
                        /\ ~Started(auction[j]) => auction'[j].highAmount = 0
                        /\ auction'[j].highAmount = 0 <=> auction'[j].highBidder = Nobody
      OBVIOUS
    <3>1. /\ auction[j].terms.start < auction[j].terms.end
          /\ ~Started(auction[j]) => auction[j].highAmount = 0
          /\ auction[j].highAmount = 0 <=> auction[j].highBidder = Nobody
      BY DEF IInv, Fresh
    <3>2. CASE j = i
      <4>1. auction[i] = a /\ Started(a)
        BY <1>1, <1>3
      <4> QED BY <1>6, <2>3, <3>1, <3>2, <4>1
    <3>3. CASE j # i
      <4>1. auction'[j] = auction[j]
        BY <1>5, <3>3
      <4> QED BY <3>1, <4>1
    <3> QED BY <3>2, <3>3
  <2> QED BY <1>5, <2>1, <2>4 DEF Fresh
<1>12. Charged'
  <2>1. ASSUME NEW v \in Users, NEW e \in Denoms
        PROVE  spent'[v][e] = spent[v][e] - Price(i, v, e) + Price(i, v, e)'
    <3>1. /\ Refunded(a, spent) \in [Users -> [Denoms -> Nat]]
          /\ Refunded(a, spent)[v][e] = spent[v][e] - Price(i, v, e)
      <4>1. ~auction[i].isCancelled
        BY <1>1, <1>3
      <4>2. /\ Refunded(auction[i], spent) \in [Users -> [Denoms -> Nat]]
            /\ Refunded(auction[i], spent)[v][e] = spent[v][e] - Price(i, v, e)
        BY <4>1, RefundedFacts
      <4> QED BY <1>1, <4>2
    <3>2. Price(i, v, e)' = IF v = u /\ e = d THEN amount ELSE 0
      BY <1>2, <1>3, <1>6 DEF Price
    <3>3. spent'[v][e] = Refunded(a, spent)[v][e] + (IF v = u /\ e = d THEN amount ELSE 0)
      BY <1>3, <1>4, <3>1
    <3> QED BY <3>1, <3>2, <3>3
  <2> QED BY <1>5, <2>1, ChargedChange DEF IInv
<1> QED BY <1>9, <1>10, <1>11, <1>12 DEF IInv

LEMMA CancelStep ==
  ASSUME IInv, NEW u \in Users, NEW t \in Tokens, CancelAuction(u, t)
  PROVE  IInv'
<1>1. PICK i \in DOMAIN auction, a \in State : i = latest[t] /\ a = auction[i] /\ a = Current(t)
  BY CurrentFacts DEF IInv, CancelAuction
<1>2. PICK d \in Denoms : d = a.terms.denom
  BY DEF State, Terms
<1>3. /\ nftOwner[t] = Contract /\ ~a.isCancelled
      /\ held[d] >= a.highAmount
      /\ nftOwner' = [nftOwner EXCEPT ![t] = u]
      /\ held' = [held EXCEPT ![d] = @ - a.highAmount]
      /\ spent' = Refunded(a, spent)
      /\ auction' = [auction EXCEPT ![i].isCancelled = TRUE]
      /\ UNCHANGED <<now, nextId, latest, bids, payouts>>
  BY <1>1, <1>2 DEF CancelAuction, IInv, Holding
<1>4. a.highAmount \in Nat
  BY DEF State
<1>5. /\ DOMAIN auction' = DOMAIN auction
      /\ \A j \in DOMAIN auction \ {i} : auction'[j] = auction[j]
      /\ auction'[i] = [a EXCEPT !.isCancelled = TRUE]
      /\ auction'[i] \in State
  BY <1>1, <1>3, ZenonT(40) DEF IInv, TypeOK, State
<1>6. /\ auction'[i].terms = a.terms /\ auction'[i].token = a.token
      /\ auction'[i].highBidder = a.highBidder /\ auction'[i].highAmount = a.highAmount
      /\ auction'[i].isCancelled
  BY <1>5 DEF State
<1>7. \A s \in Tokens :
        /\ Exists(s)' <=> Exists(s)
        /\ Exists(s) => /\ latest[s] \in DOMAIN auction
                        /\ Current(s) = auction[latest[s]] /\ Current(s)' = auction'[latest[s]]
  BY <1>3, CurrentFacts DEF IInv, Exists, Current
<1>8. /\ Exists(t) /\ Current(t)'.isCancelled /\ Current(t)'.token = Current(t).token
      /\ \A s \in Tokens \ {t} : Exists(s) =>
           Current(s)' = Current(s) /\ Ended(Current(s))' = Ended(Current(s))
  <2>1. Exists(t)
    BY DEF CancelAuction
  <2>2. ASSUME NEW s \in Tokens \ {t}, Exists(s)
        PROVE  Current(s)' = Current(s) /\ Ended(Current(s))' = Ended(Current(s))
    <3>1. latest[s] # i
      BY <1>1, <2>2, CurrentUnique DEF IInv
    <3> QED BY <1>3, <1>5, <1>7, <2>2, <3>1 DEF Ended
  <2> QED BY <1>1, <1>6, <1>7, <2>1, <2>2
<1>9. TypeOK'
  <2>1. auction' \in [1 .. nextId - 1 -> State]
    BY <1>3, <1>5 DEF IInv, TypeOK
  <2>2. held' \in [Denoms -> Nat]
    <3>1. held[d] - a.highAmount \in Nat
      BY <1>3, <1>4 DEF IInv, TypeOK
    <3> QED BY <1>3, <3>1 DEF IInv, TypeOK
  <2>3. spent' \in [Users -> [Denoms -> Nat]]
    BY <1>1, <1>3, RefundedFacts, ZenonT(40)
  <2>4. nftOwner' \in [Tokens -> Users \cup {Contract}]
    BY <1>3 DEF IInv, TypeOK
  <2>5. \A s \in Tokens : Exists(s)' => Current(s)'.token = s
    BY <1>7, <1>8 DEF IInv, TypeOK
  <2> QED BY <1>3, <2>1, <2>2, <2>3, <2>4, <2>5 DEF IInv, TypeOK
<1>10. Holding'
  <2>1. nftOwner'[t] # Contract /\ \A s \in Tokens \ {t} : nftOwner'[s] = nftOwner[s]
    BY <1>3 DEF IInv, TypeOK
  <2> QED BY <1>7, <1>8, <2>1 DEF IInv, Holding
<1>11. Fresh'
  <2>1. \A j \in DOMAIN auction :
          /\ auction'[j].terms = auction[j].terms
          /\ auction'[j].highAmount = auction[j].highAmount
          /\ auction'[j].highBidder = auction[j].highBidder
    BY <1>1, <1>5, <1>6
  <2>2. \A j \in DOMAIN auction : Started(auction[j])' = Started(auction[j])
    BY <1>3, <2>1 DEF Started
  <2> QED BY <1>5, <2>1, <2>2 DEF IInv, Fresh
<1>12. Charged'
  <2>1. ASSUME NEW v \in Users, NEW e \in Denoms
        PROVE  spent'[v][e] = spent[v][e] - Price(i, v, e) + Price(i, v, e)'
    <3>1. /\ spent' \in [Users -> [Denoms -> Nat]]
          /\ spent'[v][e] = spent[v][e] - Price(i, v, e)
      <4>1. ~auction[i].isCancelled
        BY <1>1, <1>3
      <4>2. /\ Refunded(auction[i], spent) \in [Users -> [Denoms -> Nat]]
            /\ Refunded(auction[i], spent)[v][e] = spent[v][e] - Price(i, v, e)
        BY <4>1, RefundedFacts
      <4>3. spent' = Refunded(auction[i], spent)
        BY <1>1, <1>3
      <4> QED BY <4>2, <4>3
    <3>2. Price(i, v, e)' = 0
      BY <1>3, <1>6 DEF Price
    <3> QED BY <3>1, <3>2
  <2> QED BY <1>5, <2>1, ChargedChange DEF IInv
<1> QED BY <1>9, <1>10, <1>11, <1>12 DEF IInv

\* A step that only moves a token, to somebody other than the contract.
LEMMA MovedAway ==
  ASSUME IInv, NEW t \in Tokens, NEW w \in Users,
         ~Exists(t) \/ Ended(Current(t)) \/ Current(t).isCancelled,
         nftOwner' = [nftOwner EXCEPT ![t] = w],
         UNCHANGED <<now, nextId, latest, auction, bids, spent>>,
         held' \in [Denoms -> Nat], payouts' \in [1 .. nextId - 1 -> Nat]
  PROVE  IInv'
<1>1. \A s \in Tokens :
        /\ Exists(s)' <=> Exists(s)
        /\ Current(s)' = Current(s) /\ Ended(Current(s))' = Ended(Current(s))
  BY DEF Exists, Current, Ended
<1>2. TypeOK'
  <2>1. \A s \in Tokens : Exists(s)' => Current(s)'.token = s
    BY <1>1 DEF IInv, TypeOK
  <2>2. nftOwner' \in [Tokens -> Users \cup {Contract}]
    BY DEF IInv, TypeOK
  <2> QED BY <2>1, <2>2 DEF IInv, TypeOK
<1>3. Holding'
  <2>1. nftOwner'[t] # Contract /\ \A s \in Tokens \ {t} : nftOwner'[s] = nftOwner[s]
    BY DEF IInv, TypeOK
  <2> QED BY <1>1, <2>1 DEF IInv, Holding
<1>4. Fresh'
  BY DEF IInv, Fresh, Started
<1> QED BY <1>2, <1>3, <1>4, ChargedKept DEF IInv

LEMMA ClaimUnsoldStep ==
  ASSUME IInv, NEW t \in Tokens, ClaimUnsold(t)
  PROVE  IInv'
<1>1. PICK w \in Users : w = Current(t).owner
  BY CurrentFacts DEF IInv, ClaimUnsold, State
<1>2. /\ nftOwner[t] = Contract /\ Ended(Current(t))
      /\ nftOwner' = [nftOwner EXCEPT ![t] = w]
      /\ UNCHANGED <<now, nextId, latest, auction, bids, spent, held, payouts>>
  BY <1>1 DEF ClaimUnsold, ledger
<1>3. held' \in [Denoms -> Nat] /\ payouts' \in [1 .. nextId - 1 -> Nat]
  BY <1>2 DEF IInv, TypeOK
<1> QED BY <1>2, <1>3, MovedAway

LEMMA ClaimStep ==
  ASSUME IInv, NEW t \in Tokens, NEW tax \in AdditiveTaxes, Claim(t, tax)
  PROVE  IInv'
<1>1. PICK i \in DOMAIN auction, a \in State : i = latest[t] /\ a = auction[i] /\ a = Current(t)
  BY CurrentFacts DEF IInv, Claim
<1>2. PICK d \in Denoms : d = a.terms.denom
  BY DEF State, Terms
<1>3. /\ nftOwner[t] = Contract /\ Ended(Current(t))
      /\ a.highAmount > 0 /\ held[d] >= a.highAmount + tax
      /\ nftOwner' = [nftOwner EXCEPT ![t] = a.highBidder]
      /\ held' = [held EXCEPT ![d] = @ - (a.highAmount + tax)]
      /\ payouts' = [payouts EXCEPT ![i] = @ + 1]
      /\ UNCHANGED <<now, nextId, latest, auction, bids, spent>>
  BY <1>1, <1>2 DEF Claim
<1>4. tax \in Nat /\ a.highAmount \in Nat
  BY DEF State
<1>5. PICK w \in Users : w = a.highBidder
  <2>1. a.highBidder \in Users \cup {Nobody}
    BY DEF State
  <2>2. a.highBidder # Nobody
    <3>1. a.highAmount # 0
      BY <1>3, <1>4
    <3>2. auction[i].highAmount = 0 <=> auction[i].highBidder = Nobody
      BY DEF IInv, Fresh
    <3> QED BY <1>1, <3>1, <3>2
  <2> QED BY <2>1, <2>2
<1>6. held' \in [Denoms -> Nat]
  <2>1. held[d] - (a.highAmount + tax) \in Nat
    BY <1>3, <1>4, SMTT(30) DEF IInv, TypeOK
  <2> QED BY <1>3, <2>1 DEF IInv, TypeOK
<1>7. payouts' \in [1 .. nextId - 1 -> Nat]
  BY <1>3, SMTT(30) DEF IInv, TypeOK
<1>8. nftOwner' = [nftOwner EXCEPT ![t] = w]
  BY <1>3, <1>5
<1> QED BY <1>3, <1>6, <1>7, <1>8, MovedAway

LEMMA TransferStep ==
  ASSUME IInv, ~PlainTransfers, NEW t \in Tokens, NEW w \in Users \cup {Contract},
         TransferNft(t, w)
  PROVE  IInv'
<1>1. /\ nftOwner[t] # Contract /\ w \in Users
      /\ nftOwner' = [nftOwner EXCEPT ![t] = w]
      /\ UNCHANGED <<now, nextId, latest, auction, bids, spent, held, payouts>>
  BY DEF TransferNft, ledger
<1>2. held' \in [Denoms -> Nat] /\ payouts' \in [1 .. nextId - 1 -> Nat]
  BY <1>1 DEF IInv, TypeOK
<1>3. ~Exists(t) \/ Ended(Current(t)) \/ Current(t).isCancelled
  BY <1>1 DEF IInv, Holding
<1> QED BY <1>1, <1>2, <1>3, MovedAway

LEMMA NextIInv == ~PlainTransfers /\ IInv /\ [Next]_vars => IInv'
<1> SUFFICES ASSUME ~PlainTransfers, IInv, [Next]_vars PROVE IInv'
  OBVIOUS
<1>1. CASE Tick
  BY <1>1, TickStep
<1>2. ASSUME NEW t \in Tokens, NEW u \in Users,
             NEW start \in StartTimes, NEW duration \in Durations, NEW denom \in Denoms,
             NEW minBid \in MinBids, NEW whitelist \in Whitelists,
             \/ StartAuction(u, t, TermsOf(start, duration, denom, minBid, whitelist))
             \/ UpdateAuction(u, t, TermsOf(start, duration, denom, minBid, whitelist))
      PROVE  IInv'
  BY <1>2, StartStep, UpdateStep
<1>3. ASSUME NEW t \in Tokens, NEW u \in Users, NEW amount \in BidAmounts, PlaceBid(u, t, amount)
      PROVE  IInv'
  BY <1>3, PlaceBidStep
<1>4. ASSUME NEW t \in Tokens, NEW u \in Users, CancelAuction(u, t)
      PROVE  IInv'
  BY <1>4, CancelStep
<1>5. ASSUME NEW t \in Tokens, ClaimUnsold(t)
      PROVE  IInv'
  BY <1>5, ClaimUnsoldStep
<1>6. ASSUME NEW t \in Tokens, NEW tax \in AdditiveTaxes, Claim(t, tax)
      PROVE  IInv'
  BY <1>6, ClaimStep
<1>7. ASSUME NEW t \in Tokens, NEW w \in Users \cup {Contract}, TransferNft(t, w)
      PROVE  IInv'
  BY <1>7, TransferStep
<1>8. CASE UNCHANGED vars
  <2>1. UNCHANGED <<now, nextId, latest, auction, bids, nftOwner, held, spent, payouts>>
    BY <1>8 DEF vars
  <2>2. TypeOK'
    BY <2>1 DEF IInv, TypeOK, Exists, Current
  <2>3. Holding' /\ Fresh'
    BY <2>1 DEF IInv, Holding, Fresh, Exists, Current, Started, Ended
  <2> QED BY <2>1, <2>2, <2>3, ChargedKept DEF IInv
<1> QED BY <1>1, <1>2, <1>3, <1>4, <1>5, <1>6, <1>7, <1>8 DEF Next

LEMMA Inductive == ASSUME ~PlainTransfers PROVE Spec => []IInv
BY InitIInv, NextIInv, PTL DEF Spec
-----------------------------------------------------------------------------
\* As long as tokens reach the contract only with terms, every handler keeps
\* the contract's state well formed, whatever the terms and the taxes.
THEOREM TypeCorrect == ASSUME ~PlainTransfers PROVE Spec => []TypeOK
<1>1. IInv => TypeOK
  BY DEF IInv
<1> QED BY <1>1, Inductive, PTL

\* What a user is out of pocket is the bids that user won or leads, for every
\* number of users, auctions and coins: every other bid was refunded once.
THEOREM ChargedFairly == ASSUME ~PlainTransfers PROVE Spec => []Charged
<1>1. IInv => Charged
  BY DEF IInv
<1> QED BY <1>1, Inductive, PTL

\* Once an auction has started its terms do not move, and once it has ended
\* nothing about it does.
THEOREM TermsStay == ASSUME ~PlainTransfers PROVE Spec => Immutable
<1> DEFINE Fixed == \A i \in DOMAIN auction :
                      /\ Started(auction[i]) => auction'[i].terms = auction[i].terms
                      /\ Ended(auction[i]) => auction'[i] = auction[i]
<1>1. IInv /\ [Next]_vars => [Fixed]_vars
  <2> SUFFICES ASSUME IInv, Next PROVE Fixed
    BY DEF vars
  <2> SUFFICES ASSUME NEW i \in DOMAIN auction
               PROVE  /\ Started(auction[i]) => auction'[i].terms = auction[i].terms
                      /\ Ended(auction[i]) => auction'[i] = auction[i]
    OBVIOUS
  <2>0. /\ auction[i] \in State
        /\ Ended(auction[i]) => Started(auction[i])
        /\ i \in 1 .. nextId - 1 /\ nextId \in Nat
    <3>1. auction[i].terms \in Terms /\ auction[i].terms.start < auction[i].terms.end /\ now \in Nat
      BY DEF IInv, TypeOK, Fresh, State
    <3> QED BY <3>1, SMTT(30) DEF IInv, TypeOK, Terms, Started, Ended
  <2>1. ASSUME NEW t \in Tokens, NEW u \in Users, NEW terms \in Terms, StartAuction(u, t, terms)
        PROVE  auction'[i] = auction[i]
    BY <2>0, <2>1 DEF StartAuction
  <2>2. ASSUME NEW t \in Tokens, NEW u \in Users, NEW terms \in Terms, UpdateAuction(u, t, terms)
        PROVE  Started(auction[i]) => auction'[i] = auction[i]
    <3>1. latest[t] \in DOMAIN auction /\ ~Started(auction[latest[t]])
          /\ auction' = [auction EXCEPT ![latest[t]].terms = terms]
      BY <2>2, CurrentFacts DEF IInv, UpdateAuction
    <3> QED BY <3>1
  <2>3. ASSUME NEW t \in Tokens, NEW u \in Users, NEW amount \in BidAmounts, PlaceBid(u, t, amount)
        PROVE  auction'[i].terms = auction[i].terms /\ (Ended(auction[i]) => auction'[i] = auction[i])
    <3>1. /\ latest[t] \in DOMAIN auction /\ ~Ended(auction[latest[t]])
          /\ auction' = [auction EXCEPT ![latest[t]].highBidder = u, ![latest[t]].highAmount = amount]
      BY <2>3, CurrentFacts DEF IInv, PlaceBid
    <3> QED BY <2>0, <3>1 DEF State
  <2>4. ASSUME NEW t \in Tokens, NEW u \in Users, CancelAuction(u, t)
        PROVE  auction'[i].terms = auction[i].terms /\ (Ended(auction[i]) => auction'[i] = auction[i])
    <3>1. /\ latest[t] \in DOMAIN auction /\ ~Ended(auction[latest[t]])
          /\ auction' = [auction EXCEPT ![latest[t]].isCancelled = TRUE]
      BY <2>4, CurrentFacts DEF IInv, CancelAuction
    <3> QED BY <2>0, <3>1 DEF State
  <2>5. ASSUME NEW t \in Tokens,
               \/ ClaimUnsold(t) \/ \E tax \in AdditiveTaxes : Claim(t, tax)
               \/ \E w \in Users \cup {Contract} : TransferNft(t, w)
        PROVE  auction' = auction
    BY <2>5 DEF ClaimUnsold, Claim, TransferNft
  <2>6. CASE Tick
    BY <2>6 DEF Tick
  <2>7. \/ Tick
        \/ \E t \in Tokens, u \in Users :
             \/ \E start \in StartTimes, duration \in Durations, denom \in Denoms,
                   minBid \in MinBids, whitelist \in Whitelists :
                  \/ StartAuction(u, t, TermsOf(start, duration, denom, minBid, whitelist))
                  \/ UpdateAuction(u, t, TermsOf(start, duration, denom, minBid, whitelist))
             \/ \E amount \in BidAmounts : PlaceBid(u, t, amount)
             \/ CancelAuction(u, t)
        \/ \E t \in Tokens :
             \/ ClaimUnsold(t) \/ \E tax \in AdditiveTaxes : Claim(t, tax)
             \/ \E w \in Users \cup {Contract} : TransferNft(t, w)
    BY DEF Next
  <2>8. CASE \E t \in Tokens, u \in Users :
               \/ \E start \in StartTimes, duration \in Durations, denom \in Denoms,
                     minBid \in MinBids, whitelist \in Whitelists :
                    \/ StartAuction(u, t, TermsOf(start, duration, denom, minBid, whitelist))
                    \/ UpdateAuction(u, t, TermsOf(start, duration, denom, minBid, whitelist))
               \/ \E amount \in BidAmounts : PlaceBid(u, t, amount)
               \/ CancelAuction(u, t)
    <3>1. PICK t \in Tokens, u \in Users :
               \/ \E start \in StartTimes, duration \in Durations, denom \in Denoms,
                     minBid \in MinBids, whitelist \in Whitelists :
                    \/ StartAuction(u, t, TermsOf(start, duration, denom, minBid, whitelist))
                    \/ UpdateAuction(u, t, TermsOf(start, duration, denom, minBid, whitelist))
               \/ \E amount \in BidAmounts : PlaceBid(u, t, amount)
               \/ CancelAuction(u, t)
      BY <2>8
    <3>2. ASSUME NEW terms \in Terms, StartAuction(u, t, terms) \/ UpdateAuction(u, t, terms)
          PROVE  /\ Started(auction[i]) => auction'[i].terms = auction[i].terms
                 /\ Ended(auction[i]) => auction'[i] = auction[i]
      BY <2>0, <2>1, <2>2, <3>2
    <3>3. ASSUME NEW amount \in BidAmounts, PlaceBid(u, t, amount)
          PROVE  /\ Started(auction[i]) => auction'[i].terms = auction[i].terms
                 /\ Ended(auction[i]) => auction'[i] = auction[i]
      BY <2>3, <3>3
    <3>4. CASE CancelAuction(u, t)
      BY <2>4, <3>4
    <3>5. \A start \in StartTimes, duration \in Durations, denom \in Denoms,
             minBid \in MinBids, whitelist \in Whitelists :
               TermsOf(start, duration, denom, minBid, whitelist) \in Terms
      BY DEF TermsOf, Terms
    <3> QED BY <3>1, <3>2, <3>3, <3>4, <3>5
  <2> QED BY <2>5, <2>6, <2>7, <2>8
<1>2. Spec => [][Fixed]_vars
  <2> HIDE DEF Fixed
  <2> QED BY <1>1, Inductive, PTL DEF Spec
<1> QED BY <1>2 DEF Immutable
-----------------------------------------------------------------------------
LEMMA EscrowInt ==
  ASSUME TypeOK PROVE \A s \in Tokens, d \in Denoms : Escrow(s, d) \in Int
<1>1. \A s \in Tokens : Exists(s) => Current(s) \in State
  BY CurrentFacts
<1> QED BY <1>1 DEF Escrow, State

\* What a step about one token must do to the coins held.
LEMMA EscrowChange ==
  ASSUME TypeOK, TypeOK', Escrowed, NEW t \in Tokens,
         \A s \in Tokens \ {t}, d \in Denoms : Escrow(s, d)' = Escrow(s, d),
         \A d \in Denoms : held'[d] = held[d] - Escrow(t, d) + Escrow(t, d)'
  PROVE  Escrowed'
<1> SUFFICES ASSUME NEW d \in Denoms
             PROVE  held'[d] = SumFunctionOnSet([s \in Tokens |-> Escrow(s, d)'], Tokens)
  BY DEF Escrowed
<1> DEFINE f == [s \in Tokens |-> Escrow(s, d)]
           g == [s \in Tokens |-> Escrow(s, d)']
<1>1. \A s \in Tokens : Escrow(s, d) \in Int
  BY EscrowInt
<1>2. \A s \in Tokens : Escrow(s, d)' \in Int
  <2>1. \A s \in Tokens : Exists(s)' => latest'[s] \in DOMAIN auction'
    BY DEF TypeOK, Exists
  <2>2. \A s \in Tokens : Exists(s)' => Current(s)' \in State
    BY <2>1, ZenonT(40) DEF TypeOK, Current
  <2> QED BY <2>2 DEF Escrow, State
<1>3. \A s \in Tokens : f[s] \in Int /\ g[s] \in Int
  BY <1>1, <1>2
<1>4. \A s \in Tokens \ {t} : g[s] = f[s]
  OBVIOUS
<1>5. held[d] = SumFunctionOnSet(f, Tokens)
  BY DEF Escrowed
<1>6. f[t] = Escrow(t, d) /\ g[t] = Escrow(t, d)'
  OBVIOUS
<1> HIDE DEF f, g
<1>7. SumFunctionOnSet(g, Tokens) = SumFunctionOnSet(f, Tokens) - f[t] + g[t]
  BY <1>3, <1>4, AuctionAssumption, SumChange
<1>8. held'[d] = SumFunctionOnSet(g, Tokens)
  BY <1>5, <1>6, <1>7
<1> QED BY <1>8 DEF g

\* Tokens other than the one a step is about.
LEMMA OtherEscrows ==
  ASSUME TypeOK, NEW t \in Tokens,
         \A s \in Tokens \ {t} : nftOwner'[s] = nftOwner[s] /\ latest'[s] = latest[s],
         \A i \in DOMAIN auction : (Exists(t) /\ i = latest[t]) \/ auction'[i] = auction[i]
  PROVE  \A s \in Tokens \ {t}, d \in Denoms : Escrow(s, d)' = Escrow(s, d)
<1> SUFFICES ASSUME NEW s \in Tokens \ {t}, NEW d \in Denoms
             PROVE  Escrow(s, d)' = Escrow(s, d)
  OBVIOUS
<1>1. Exists(s)' <=> Exists(s)
  BY DEF Exists
<1>2. ASSUME Exists(s)
      PROVE  Current(s)' = Current(s)
  <2>1. latest[s] \in DOMAIN auction /\ ~(Exists(t) /\ latest[s] = latest[t])
    BY <1>2, CurrentFacts, CurrentUnique
  <2> QED BY <2>1 DEF Current
<1> QED BY <1>1, <1>2 DEF Escrow

\* Every step keeps the coins and the escrows in step.
LEMMA EscrowKept ==
  ASSUME ~PlainTransfers, AdditiveTaxes \subseteq {0}, IInv, Escrowed, [Next]_vars
  PROVE  Escrowed'
<1>0. TypeOK /\ TypeOK'
  BY NextIInv DEF IInv
<1>h. \A d \in Denoms : held[d] \in Nat
  BY <1>0 DEF TypeOK
<1>1. ASSUME NEW t \in Tokens, NEW u \in Users, NEW terms \in Terms, StartAuction(u, t, terms)
      PROVE  Escrowed'
  <2>1. /\ nftOwner[t] = u /\ nftOwner' = [nftOwner EXCEPT ![t] = Contract]
        /\ latest' = [latest EXCEPT ![t] = nextId] /\ held' = held
        /\ auction'[nextId].highAmount = 0
        /\ \A i \in DOMAIN auction : auction'[i] = auction[i]
    BY <1>0, <1>1 DEF StartAuction, TypeOK
  <2>2. \A s \in Tokens \ {t}, d \in Denoms : Escrow(s, d)' = Escrow(s, d)
    BY <1>0, <2>1, OtherEscrows DEF TypeOK
  <2>3. Current(t)'.highAmount = 0
    BY <1>0, <2>1 DEF Current, TypeOK
  <2>4. \A d \in Denoms : Escrow(t, d) = 0 /\ Escrow(t, d)' = 0
    BY <2>1, <2>3, AuctionAssumption DEF Escrow
  <2> QED BY <1>0, <1>h, <2>1, <2>2, <2>4, EscrowChange
<1>2. ASSUME NEW t \in Tokens, NEW u \in Users, NEW terms \in Terms, UpdateAuction(u, t, terms)
      PROVE  Escrowed'
  <2>1. PICK i \in DOMAIN auction, a \in State : i = latest[t] /\ a = auction[i] /\ a = Current(t)
    BY <1>2, CurrentFacts DEF IInv, UpdateAuction
  <2>2. /\ Exists(t) /\ ~Started(a) /\ auction' = [auction EXCEPT ![i].terms = terms]
        /\ UNCHANGED <<latest, nftOwner, held>>
    BY <1>2, <2>1 DEF UpdateAuction, ledger
  <2>3. a.highAmount = 0
    BY <2>1, <2>2, ZenonT(40) DEF IInv, Fresh
  <2>4. auction'[i].highAmount = 0 /\ Current(t)' = auction'[i]
    BY <2>1, <2>2, <2>3 DEF State, Current
  <2>5. \A s \in Tokens \ {t}, d \in Denoms : Escrow(s, d)' = Escrow(s, d)
    BY <1>0, <2>1, <2>2, OtherEscrows
  <2>6. \A d \in Denoms : Escrow(t, d) = 0 /\ Escrow(t, d)' = 0
    BY <2>1, <2>3, <2>4 DEF Escrow
  <2> QED BY <1>0, <1>h, <2>2, <2>5, <2>6, EscrowChange
<1>3. ASSUME NEW t \in Tokens, NEW u \in Users, NEW amount \in BidAmounts, PlaceBid(u, t, amount)
      PROVE  Escrowed'
  <2>1. PICK i \in DOMAIN auction, a \in State : i = latest[t] /\ a = auction[i] /\ a = Current(t)
    BY <1>3, CurrentFacts DEF IInv, PlaceBid
  <2>2. PICK d \in Denoms : d = a.terms.denom
    BY DEF State, Terms
  <2>3. /\ Exists(t) /\ ~Ended(a) /\ ~a.isCancelled
        /\ auction' = [auction EXCEPT ![i].highBidder = u, ![i].highAmount = amount]
        /\ held' = [held EXCEPT ![d] = @ + amount - a.highAmount]
        /\ UNCHANGED <<latest, nftOwner>>
    BY <1>3, <2>1, <2>2 DEF PlaceBid
  <2>4. nftOwner[t] = Contract
    BY <2>1, <2>3 DEF IInv, Holding
  <2>5. /\ auction'[i].terms = a.terms /\ auction'[i].highAmount = amount
        /\ Current(t)' = auction'[i] /\ Exists(t)'
    BY <2>1, <2>3 DEF State, Current, Exists
  <2>6. \A s \in Tokens \ {t}, e \in Denoms : Escrow(s, e)' = Escrow(s, e)
    BY <1>0, <2>1, <2>3, OtherEscrows
  <2>7. \A e \in Denoms :
          /\ Escrow(t, e) = (IF e = d THEN a.highAmount ELSE 0)
          /\ Escrow(t, e)' = (IF e = d THEN amount ELSE 0)
    BY <2>1, <2>2, <2>3, <2>4, <2>5 DEF Escrow
  <2>8. amount \in Nat /\ a.highAmount \in Nat
    BY AuctionAssumption DEF State
  <2>9. ASSUME NEW e \in Denoms
        PROVE  held'[e] = held[e] - Escrow(t, e) + Escrow(t, e)'
    <3>1. held'[e] = (IF e = d THEN held[e] + amount - a.highAmount ELSE held[e])
      BY <1>0, <2>3 DEF TypeOK
    <3>2. held[e] \in Nat
      BY <1>h
    <3> QED BY <3>1, <3>2, <2>7, <2>8
  <2> QED BY <1>0, <2>6, <2>9, EscrowChange
<1>4. ASSUME NEW t \in Tokens, NEW u \in Users, CancelAuction(u, t)
      PROVE  Escrowed'
  <2>1. PICK i \in DOMAIN auction, a \in State : i = latest[t] /\ a = auction[i] /\ a = Current(t)
    BY <1>4, CurrentFacts DEF IInv, CancelAuction
  <2>2. PICK d \in Denoms : d = a.terms.denom
    BY DEF State, Terms
  <2>3. /\ Exists(t) /\ nftOwner[t] = Contract
        /\ auction' = [auction EXCEPT ![i].isCancelled = TRUE]
        /\ held' = [held EXCEPT ![d] = @ - a.highAmount]
        /\ nftOwner' = [nftOwner EXCEPT ![t] = u] /\ latest' = latest
    BY <1>4, <2>1, <2>2 DEF CancelAuction
  <2>4. \A s \in Tokens \ {t}, e \in Denoms : Escrow(s, e)' = Escrow(s, e)
    BY <1>0, <2>1, <2>3, OtherEscrows DEF TypeOK
  <2>5. nftOwner'[t] # Contract
    BY <1>0, <2>3, AuctionAssumption DEF TypeOK
  <2>6. \A e \in Denoms :
          /\ Escrow(t, e) = (IF e = d THEN a.highAmount ELSE 0)
          /\ Escrow(t, e)' = 0
    BY <2>1, <2>2, <2>3, <2>5 DEF Escrow
  <2>7. a.highAmount \in Nat
    BY DEF State
  <2>8. ASSUME NEW e \in Denoms
        PROVE  held'[e] = held[e] - Escrow(t, e) + Escrow(t, e)'
    <3>1. held'[e] = (IF e = d THEN held[e] - a.highAmount ELSE held[e])
      BY <1>0, <2>3 DEF TypeOK
    <3>2. held[e] \in Nat
      BY <1>h
    <3> QED BY <3>1, <3>2, <2>6, <2>7
  <2> QED BY <1>0, <2>4, <2>8, EscrowChange
<1>5. ASSUME NEW t \in Tokens, ClaimUnsold(t)
      PROVE  Escrowed'
  <2>1. PICK w \in Users : w = Current(t).owner
    BY <1>5, CurrentFacts DEF IInv, ClaimUnsold, State
  <2>2. /\ Exists(t) /\ Current(t).highAmount = 0
        /\ nftOwner' = [nftOwner EXCEPT ![t] = w] /\ UNCHANGED <<latest, auction, held>>
    BY <1>5, <2>1 DEF ClaimUnsold, ledger
  <2>3. \A s \in Tokens \ {t}, e \in Denoms : Escrow(s, e)' = Escrow(s, e)
    BY <1>0, <2>2, OtherEscrows DEF TypeOK
  <2>4. nftOwner'[t] # Contract
    BY <1>0, <2>2, AuctionAssumption DEF TypeOK
  <2>5. \A e \in Denoms : Escrow(t, e) = 0 /\ Escrow(t, e)' = 0
    BY <2>2, <2>4 DEF Escrow
  <2> QED BY <1>0, <1>h, <2>2, <2>3, <2>5, EscrowChange
<1>6. ASSUME NEW t \in Tokens, NEW tax \in AdditiveTaxes, Claim(t, tax)
      PROVE  Escrowed'
  <2>1. PICK i \in DOMAIN auction, a \in State : i = latest[t] /\ a = auction[i] /\ a = Current(t)
    BY <1>6, CurrentFacts DEF IInv, Claim
  <2>2. PICK d \in Denoms : d = a.terms.denom
    BY DEF State, Terms
  <2>3. a.highAmount \in Nat /\ tax = 0
    BY DEF State
  <2>4. /\ Exists(t) /\ nftOwner[t] = Contract
        /\ held' = [held EXCEPT ![d] = @ - a.highAmount]
        /\ nftOwner' = [nftOwner EXCEPT ![t] = a.highBidder] /\ UNCHANGED <<latest, auction>>
        /\ a.highAmount # 0
    <3>1. a.highAmount + tax = a.highAmount
      BY <2>3
    <3>2. /\ Exists(t) /\ nftOwner[t] = Contract /\ a.highAmount > 0
          /\ held' = [held EXCEPT ![d] = @ - (a.highAmount + tax)]
          /\ nftOwner' = [nftOwner EXCEPT ![t] = a.highBidder] /\ UNCHANGED <<latest, auction>>
      BY <1>6, <2>1, <2>2 DEF Claim
    <3>3. held' = [held EXCEPT ![d] = @ - a.highAmount]
      BY <3>1, <3>2
    <3>4. a.highAmount # 0
      <4>1. a.highAmount > 0
        BY <3>2
      <4> QED BY <2>3, <4>1
    <3> QED BY <3>2, <3>3, <3>4
  <2>5. a.highBidder \in Users
    <3>1. auction[i].highAmount = 0 <=> auction[i].highBidder = Nobody
      BY DEF IInv, Fresh
    <3> QED BY <2>1, <2>4, <3>1 DEF State
  <2>6. \A s \in Tokens \ {t}, e \in Denoms : Escrow(s, e)' = Escrow(s, e)
    BY <1>0, <2>4, OtherEscrows DEF TypeOK
  <2>7. nftOwner'[t] # Contract
    BY <1>0, <2>4, <2>5, AuctionAssumption DEF TypeOK
  <2>8. \A e \in Denoms :
          /\ Escrow(t, e) = (IF e = d THEN a.highAmount ELSE 0)
          /\ Escrow(t, e)' = 0
    BY <2>1, <2>2, <2>4, <2>7 DEF Escrow
  <2>9. ASSUME NEW e \in Denoms
        PROVE  held'[e] = held[e] - Escrow(t, e) + Escrow(t, e)'
    <3>1. held'[e] = (IF e = d THEN held[e] - a.highAmount ELSE held[e])
      BY <1>0, <2>4 DEF TypeOK
    <3>2. held[e] \in Nat
      BY <1>h
    <3> QED BY <3>1, <3>2, <2>3, <2>8
  <2> QED BY <1>0, <2>6, <2>9, EscrowChange
<1>7. ASSUME NEW t \in Tokens, NEW w \in Users \cup {Contract}, TransferNft(t, w)
      PROVE  Escrowed'
  <2>1. /\ nftOwner[t] # Contract /\ w # Contract
        /\ nftOwner' = [nftOwner EXCEPT ![t] = w] /\ UNCHANGED <<latest, auction, held>>
    BY <1>7 DEF TransferNft, ledger
  <2>2. \A s \in Tokens \ {t}, e \in Denoms : Escrow(s, e)' = Escrow(s, e)
    BY <1>0, <2>1, OtherEscrows DEF TypeOK
  <2>3. \A e \in Denoms : Escrow(t, e) = 0 /\ Escrow(t, e)' = 0
    BY <1>0, <2>1 DEF Escrow, TypeOK
  <2> QED BY <1>0, <1>h, <2>1, <2>2, <2>3, EscrowChange
<1>8. CASE Tick \/ UNCHANGED vars
  <2>1. UNCHANGED <<latest, auction, nftOwner, held>>
    BY <1>8 DEF Tick, vars, ledger
  <2> QED BY <2>1 DEF Escrowed, Escrow, Exists, Current
<1>9. \A start \in StartTimes, duration \in Durations, denom \in Denoms,
         minBid \in MinBids, whitelist \in Whitelists :
           TermsOf(start, duration, denom, minBid, whitelist) \in Terms
  BY AuctionAssumption DEF TermsOf, Terms
<1>10. ASSUME NEW t \in Tokens, NEW u \in Users,
              \E start \in StartTimes, duration \in Durations, denom \in Denoms,
                 minBid \in MinBids, whitelist \in Whitelists :
                   \/ StartAuction(u, t, TermsOf(start, duration, denom, minBid, whitelist))
                   \/ UpdateAuction(u, t, TermsOf(start, duration, denom, minBid, whitelist))
       PROVE  Escrowed'
  BY <1>1, <1>2, <1>9, <1>10
<1> QED BY <1>3, <1>4, <1>5, <1>6, <1>7, <1>8, <1>10 DEF Next

\* Where no tax is added on top of a bid, the coins held are the highest bids
\* of the auctions that are not settled: each refund and payout finds its coins.
THEOREM EscrowBacked ==
  ASSUME ~PlainTransfers, AdditiveTaxes \subseteq {0} PROVE Spec => []Escrowed
<1>1. Init => Escrowed
  <2> SUFFICES ASSUME Init, NEW d \in Denoms
               PROVE  held[d] = SumFunctionOnSet([t \in Tokens |-> Escrow(t, d)], Tokens)
    BY DEF Escrowed
  <2> DEFINE f == [t \in Tokens |-> Escrow(t, d)]
  <2>1. \A t \in Tokens : f[t] = 0
    BY DEF Init, Escrow, Exists
  <2> HIDE DEF f
  <2>2. SumFunctionOnSet(f, Tokens) = 0
    BY <2>1, AuctionAssumption, SumZero
  <2> QED BY <2>2 DEF Init, f
<1> QED BY <1>1, EscrowKept, Inductive, PTL DEF Spec
-----------------------------------------------------------------------------
\* A token that is with the contract has not been paid for yet.
Unpaid == \A t \in Tokens : Exists(t) /\ nftOwner[t] = Contract => payouts[latest[t]] = 0

OutcomeInv == BidsAgree /\ PaidOutOnce /\ Unpaid

\* A step that adds no bid, no auction and no payout, and no token of the
\* contract's.
LEMMA OutcomeKept ==
  ASSUME TypeOK, OutcomeInv, UNCHANGED <<latest, bids, payouts>>,
         DOMAIN auction' = DOMAIN auction,
         \A i \in DOMAIN auction :
           /\ auction'[i].highAmount = auction[i].highAmount
           /\ auction'[i].highBidder = auction[i].highBidder
           /\ auction'[i].isCancelled => auction[i].isCancelled \/ payouts[i] = 0,
         \A t \in Tokens : nftOwner'[t] = Contract => nftOwner[t] = Contract
  PROVE  OutcomeInv'
<1>1. BidsAgree'
  BY DEF OutcomeInv, BidsAgree
<1>2. PaidOutOnce'
  BY DEF OutcomeInv, PaidOutOnce, TypeOK
<1>3. Unpaid'
  BY DEF OutcomeInv, Unpaid, Exists
<1> QED BY <1>1, <1>2, <1>3 DEF OutcomeInv

LEMMA StartOutcome ==
  ASSUME TypeOK, OutcomeInv, NEW u \in Users, NEW t \in Tokens, NEW terms, StartAuction(u, t, terms)
  PROVE  OutcomeInv'
<1>1. /\ DOMAIN auction = 1 .. nextId - 1 /\ nextId \in Nat \ {0}
      /\ \A s \in Tokens : latest[s] \in 0 .. nextId - 1
      /\ DOMAIN auction' = 1 .. nextId
      /\ auction'[nextId].highAmount = 0 /\ auction'[nextId].highBidder = Nobody
      /\ ~auction'[nextId].isCancelled /\ bids'[nextId] = <<>> /\ payouts'[nextId] = 0
      /\ \A i \in 1 .. nextId - 1 : auction'[i] = auction[i] /\ bids'[i] = bids[i] /\ payouts'[i] = payouts[i]
      /\ latest' = [latest EXCEPT ![t] = nextId]
      /\ nftOwner' = [nftOwner EXCEPT ![t] = Contract]
  BY DEF StartAuction, TypeOK
<1>2. BidsAgree'
  <2>1. \A i \in 1 .. nextId : i = nextId \/ i \in 1 .. nextId - 1
    BY <1>1
  <2>2. ASSUME NEW i \in DOMAIN auction', i \in DOMAIN auction
        PROVE  LET b == bids'[i]  n == Len(bids'[i])
               IN  /\ \A k \in 1 .. n - 1 : b[k].amount < b[k + 1].amount /\ b[k].bidder # b[k + 1].bidder
                   /\ auction'[i].highAmount = (IF n = 0 THEN 0 ELSE b[n].amount)
                   /\ auction'[i].highBidder = (IF n = 0 THEN Nobody ELSE b[n].bidder)
    BY <1>1, <2>2, SMTT(30) DEF OutcomeInv, BidsAgree
  <2>3. Len(bids'[nextId]) = 0
    BY <1>1
  <2> QED BY <1>1, <2>1, <2>2, <2>3 DEF BidsAgree
<1>3. PaidOutOnce'
  BY <1>1 DEF OutcomeInv, PaidOutOnce
<1>4. Unpaid'
  <2> SUFFICES ASSUME NEW s \in Tokens, latest'[s] # 0, nftOwner'[s] = Contract PROVE payouts'[latest'[s]] = 0
    BY DEF Unpaid, Exists
  <2>1. CASE s = t
    BY <1>1, <2>1 DEF TypeOK
  <2>2. CASE s # t
    <3>1. latest'[s] = latest[s] /\ nftOwner'[s] = nftOwner[s]
      BY <1>1, <2>2 DEF TypeOK
    <3>2. latest[s] \in 1 .. nextId - 1
      BY <1>1, <3>1
    <3> QED BY <1>1, <3>1, <3>2 DEF OutcomeInv, Unpaid, Exists
  <2> QED BY <2>1, <2>2
<1> QED BY <1>2, <1>3, <1>4 DEF OutcomeInv

LEMMA PlaceBidOutcome ==
  ASSUME TypeOK, OutcomeInv, NEW u \in Users, NEW t \in Tokens, NEW amount \in BidAmounts, PlaceBid(u, t, amount)
  PROVE  OutcomeInv'
<1> DEFINE i == latest[t]
           h == bids[i]
           bid == [bidder |-> u, amount |-> amount]
<1>0. Exists(t)
  BY DEF PlaceBid
<1>1. /\ i \in DOMAIN auction /\ h \in Seq([bidder : Users, amount : Nat])
      /\ auction[i] \in State /\ amount \in Nat /\ bid \in [bidder : Users, amount : Nat]
  BY <1>0, CurrentFacts DEF TypeOK
<1>2. /\ DOMAIN auction' = DOMAIN auction
      /\ auction'[i].highBidder = u /\ auction'[i].highAmount = amount
      /\ auction'[i].isCancelled = auction[i].isCancelled
      /\ bids'[i] = Append(h, bid)
      /\ \A j \in DOMAIN auction \ {i} : auction'[j] = auction[j] /\ bids'[j] = bids[j]
      /\ amount > auction[i].highAmount /\ auction[i].highBidder # u
      /\ UNCHANGED <<latest, nftOwner, payouts>>
  BY <1>1 DEF PlaceBid, Current, State, TypeOK
<1>3. /\ Len(bids'[i]) = Len(h) + 1 /\ bids'[i][Len(h) + 1] = bid
      /\ \A k \in 1 .. Len(h) : bids'[i][k] = h[k]
      /\ Len(h) \in Nat
  BY <1>1, <1>2
<1>4. /\ \A k \in 1 .. Len(h) - 1 : h[k].amount < h[k + 1].amount /\ h[k].bidder # h[k + 1].bidder
      /\ auction[i].highAmount = (IF Len(h) = 0 THEN 0 ELSE h[Len(h)].amount)
      /\ auction[i].highBidder = (IF Len(h) = 0 THEN Nobody ELSE h[Len(h)].bidder)
  BY <1>1 DEF OutcomeInv, BidsAgree
<1>5. bid.amount = amount /\ bid.bidder = u
  OBVIOUS
<1> HIDE DEF i, h, bid
<1>6. \A k \in 1 .. Len(h) : bids'[i][k].amount < bids'[i][k + 1].amount
                             /\ bids'[i][k].bidder # bids'[i][k + 1].bidder
  <2> SUFFICES ASSUME NEW k \in 1 .. Len(h)
               PROVE  bids'[i][k].amount < bids'[i][k + 1].amount
                      /\ bids'[i][k].bidder # bids'[i][k + 1].bidder
    OBVIOUS
  <2>1. CASE k = Len(h)
    BY <1>2, <1>3, <1>4, <1>5, <2>1
  <2>2. CASE k # Len(h)
    <3>1. k \in 1 .. Len(h) - 1 /\ k + 1 \in 1 .. Len(h)
      BY <1>3, <2>2
    <3> QED BY <1>3, <1>4, <3>1
  <2> QED BY <2>1, <2>2
<1>7. BidsAgree'
  <2> SUFFICES ASSUME NEW j \in DOMAIN auction'
               PROVE  LET b == bids'[j]  n == Len(bids'[j])
                      IN  /\ \A k \in 1 .. n - 1 : b[k].amount < b[k + 1].amount /\ b[k].bidder # b[k + 1].bidder
                          /\ auction'[j].highAmount = (IF n = 0 THEN 0 ELSE b[n].amount)
                          /\ auction'[j].highBidder = (IF n = 0 THEN Nobody ELSE b[n].bidder)
    BY DEF BidsAgree
  <2>1. CASE j = i
    <3>1. Len(bids'[i]) - 1 = Len(h) /\ Len(bids'[i]) # 0
      BY <1>3
    <3> QED BY <1>2, <1>3, <1>5, <1>6, <2>1, <3>1
  <2>2. CASE j # i
    BY <1>2, <2>2 DEF OutcomeInv, BidsAgree
  <2> QED BY <2>1, <2>2
<1>8. PaidOutOnce' /\ Unpaid'
  BY <1>2 DEF OutcomeInv, PaidOutOnce, Unpaid, Exists
<1> QED BY <1>7, <1>8 DEF OutcomeInv

LEMMA ClaimOutcome ==
  ASSUME IInv, OutcomeInv, NEW t \in Tokens, NEW tax \in AdditiveTaxes, Claim(t, tax)
  PROVE  OutcomeInv'
<1> DEFINE i == latest[t]
<1>0. TypeOK /\ Exists(t) /\ nftOwner[t] = Contract
  BY DEF Claim, IInv
<1>1. i \in DOMAIN auction /\ Current(t) = auction[i] /\ auction[i].highBidder \in Users \cup {Nobody}
  BY <1>0, CurrentFacts DEF State
<1>2. /\ UNCHANGED <<latest, auction, bids>>
      /\ nftOwner' = [nftOwner EXCEPT ![t] = auction[i].highBidder]
      /\ payouts' = [payouts EXCEPT ![i] = @ + 1]
      /\ auction[i].highAmount > 0
  BY <1>1 DEF Claim
<1>3. auction[i].highBidder # Contract
  BY <1>1, <1>2 DEF IInv, Fresh, TypeOK, State
<1>4. ~auction[i].isCancelled /\ payouts[i] = 0
  BY <1>0, <1>1 DEF IInv, Holding, OutcomeInv, Unpaid
<1>5. PaidOutOnce'
  BY <1>0, <1>1, <1>2, <1>4 DEF OutcomeInv, PaidOutOnce, TypeOK
<1>6. Unpaid'
  <2> SUFFICES ASSUME NEW s \in Tokens, Exists(s), nftOwner'[s] = Contract PROVE payouts'[latest[s]] = 0
    BY <1>2 DEF Unpaid, Exists
  <2>1. s # t
    BY <1>0, <1>2, <1>3 DEF TypeOK
  <2>2. latest[s] # i
    BY <1>0, <2>1, CurrentUnique
  <2>3. nftOwner[s] = Contract /\ payouts'[latest[s]] = payouts[latest[s]]
    BY <1>0, <1>2, <2>1, <2>2 DEF TypeOK
  <2> QED BY <2>3 DEF OutcomeInv, Unpaid
<1>7. BidsAgree'
  BY <1>2 DEF OutcomeInv, BidsAgree
<1> QED BY <1>5, <1>6, <1>7 DEF OutcomeInv

LEMMA NextOutcome == ~PlainTransfers /\ IInv /\ OutcomeInv /\ [Next]_vars => OutcomeInv'
<1> SUFFICES ASSUME ~PlainTransfers, IInv, OutcomeInv, [Next]_vars PROVE OutcomeInv'
  OBVIOUS
<1>0. TypeOK
  BY DEF IInv
<1>1. CASE Tick \/ UNCHANGED vars
  BY <1>0, <1>1, OutcomeKept DEF Tick, ledger, vars
<1>2. ASSUME NEW t \in Tokens, NEW u \in Users, NEW terms, UpdateAuction(u, t, terms)
      PROVE  OutcomeInv'
  <2>1. /\ UNCHANGED <<latest, bids, payouts, nftOwner>> /\ auction' = [auction EXCEPT ![latest[t]].terms = terms]
        /\ \A i \in DOMAIN auction : auction[i] \in State
    BY <1>0, <1>2 DEF UpdateAuction, ledger, TypeOK
  <2>2. /\ DOMAIN auction' = DOMAIN auction
        /\ \A i \in DOMAIN auction :
             /\ auction'[i].highAmount = auction[i].highAmount
             /\ auction'[i].highBidder = auction[i].highBidder
             /\ auction'[i].isCancelled = auction[i].isCancelled
    BY <2>1 DEF State
  <2> QED BY <1>0, <2>1, <2>2, OutcomeKept
<1>3. ASSUME NEW t \in Tokens, NEW u \in Users, CancelAuction(u, t)
      PROVE  OutcomeInv'
  <2>1. /\ UNCHANGED <<latest, bids, payouts>> /\ auction' = [auction EXCEPT ![latest[t]].isCancelled = TRUE]
        /\ nftOwner' = [nftOwner EXCEPT ![t] = u] /\ nftOwner[t] = Contract /\ Exists(t)
        /\ \A i \in DOMAIN auction : auction[i] \in State
    BY <1>0, <1>3 DEF CancelAuction, TypeOK
  <2>2. payouts[latest[t]] = 0
    BY <2>1 DEF OutcomeInv, Unpaid
  <2>3. /\ DOMAIN auction' = DOMAIN auction
        /\ \A i \in DOMAIN auction :
             /\ auction'[i].highAmount = auction[i].highAmount
             /\ auction'[i].highBidder = auction[i].highBidder
             /\ auction'[i].isCancelled => auction[i].isCancelled \/ payouts[i] = 0
    BY <2>1, <2>2 DEF State
  <2>4. \A s \in Tokens : nftOwner'[s] = Contract => nftOwner[s] = Contract
    BY <1>0, <2>1 DEF TypeOK
  <2> QED BY <1>0, <2>1, <2>3, <2>4, OutcomeKept
<1>4. ASSUME NEW t \in Tokens, ClaimUnsold(t)
      PROVE  OutcomeInv'
  <2>1. /\ UNCHANGED <<latest, bids, payouts, auction>>
        /\ nftOwner' = [nftOwner EXCEPT ![t] = Current(t).owner] /\ nftOwner[t] = Contract
    BY <1>4 DEF ClaimUnsold, ledger
  <2>2. \A s \in Tokens : nftOwner'[s] = Contract => nftOwner[s] = Contract
    BY <1>0, <2>1 DEF TypeOK
  <2> QED BY <1>0, <2>1, <2>2, OutcomeKept
<1>5. ASSUME NEW t \in Tokens, NEW w \in Users \cup {Contract}, TransferNft(t, w)
      PROVE  OutcomeInv'
  <2>1. /\ UNCHANGED <<latest, bids, payouts, auction>> /\ w # Contract
        /\ nftOwner' = [nftOwner EXCEPT ![t] = w]
    BY <1>5 DEF TransferNft, ledger
  <2>2. \A s \in Tokens : nftOwner'[s] = Contract => nftOwner[s] = Contract
    BY <1>0, <2>1 DEF TypeOK
  <2> QED BY <1>0, <2>1, <2>2, OutcomeKept
<1>6. ASSUME NEW t \in Tokens, NEW u \in Users, NEW terms, StartAuction(u, t, terms)
      PROVE  OutcomeInv'
  BY <1>0, <1>6, StartOutcome
<1>7. ASSUME NEW t \in Tokens, NEW u \in Users, NEW amount \in BidAmounts, PlaceBid(u, t, amount)
      PROVE  OutcomeInv'
  BY <1>0, <1>7, PlaceBidOutcome
<1>8. ASSUME NEW t \in Tokens, NEW tax \in AdditiveTaxes, Claim(t, tax)
      PROVE  OutcomeInv'
  BY <1>8, ClaimOutcome
<1> QED BY <1>1, <1>2, <1>3, <1>4, <1>5, <1>6, <1>7, <1>8 DEF Next

LEMMA InitOutcome == Init => OutcomeInv
<1> SUFFICES ASSUME Init PROVE OutcomeInv
  OBVIOUS
<1>1. DOMAIN auction = {} /\ \A t \in Tokens : ~Exists(t)
  BY DEF Init, Exists
<1> QED BY <1>1 DEF OutcomeInv, BidsAgree, PaidOutOnce, Unpaid

\* What a page of bids holds, forwards and backwards.
PageSize(n, p, limit) == IF p >= n THEN 0 ELSE IF n - p < limit THEN n - p ELSE limit

\* The pages of one direction, as PagesAgree has them.
PageFits(i, limit, desc, p) ==
  LET n == Len(bids[i])
      nth(q) == IF desc THEN bids[i][n + 1 - q] ELSE bids[i][q]
      page == ReadBids(i, p - 1, limit, desc)
  IN  /\ Len(page) = (IF p >= n THEN 0 ELSE IF n - p < limit THEN n - p ELSE limit)
      /\ \A k \in 1 .. Len(page) : page[k] = nth(p + k)

LEMMA ForwardPage ==
  ASSUME NEW i, NEW S, bids[i] \in Seq(S), NEW limit \in Nat, NEW p \in Nat
  PROVE  PageFits(i, limit, FALSE, p)
<1> DEFINE b == bids[i]
           n == Len(b)
           skip == IF p < n THEN p ELSE n
           end == IF p + limit < n THEN p + limit ELSE n
           page == SubSeq(b, skip + 1, end)
<1>1. b \in Seq(S) /\ n \in Nat
  OBVIOUS
<1>2. ReadBids(i, p - 1, limit, FALSE) = page
  BY DEF ReadBids
<1> HIDE DEF n, b
<1>3. skip \in 0 .. n /\ end \in skip .. n /\ end - skip = PageSize(n, p, limit)
  <2>1. CASE p >= n
    BY <1>1, <2>1 DEF PageSize
  <2>2. CASE p < n
    BY <1>1, <2>2 DEF PageSize
  <2> QED BY <1>1, <2>1, <2>2
<1> HIDE DEF skip, end
<1>4. Len(page) = end - skip /\ \A k \in 1 .. end - skip : page[k] = b[skip + k]
  <2>1. skip + 1 \in 1 .. n + 1 /\ end \in skip .. n
    BY <1>1, <1>3
  <2>2. \A k \in skip + 1 .. end : b[k] \in S
    BY <1>1, <1>3 DEF n
  <2>3. end - (skip + 1) + 1 = end - skip /\ skip + 1 \in Int /\ end \in Int
    BY <1>1, <1>3
  <2>4. /\ Len(page) = IF skip + 1 <= end THEN end - (skip + 1) + 1 ELSE 0
        /\ \A k \in 1 .. end - (skip + 1) + 1 : page[k] = b[skip + 1 + k - 1]
    BY <2>2, <2>3, SubSeqProperties
  <2>5. \A k \in 1 .. end - skip : skip + 1 + k - 1 = skip + k
    BY <1>1, <1>3
  <2> QED BY <1>1, <1>3, <2>3, <2>4, <2>5
<1>5. PageSize(n, p, limit) > 0 => skip = p
  BY <1>1 DEF skip, PageSize
<1> HIDE DEF page
<1>6. \A k \in 1 .. end - skip : page[k] = b[p + k]
  BY <1>1, <1>3, <1>4, <1>5
<1>7. /\ Len(ReadBids(i, p - 1, limit, FALSE)) = PageSize(Len(bids[i]), p, limit)
      /\ \A k \in 1 .. Len(ReadBids(i, p - 1, limit, FALSE)) :
           ReadBids(i, p - 1, limit, FALSE)[k] = bids[i][p + k]
  BY <1>2, <1>3, <1>4, <1>6 DEF n, b
<1> QED BY <1>7, Zenon DEF PageFits, PageSize

LEMMA BackwardPage ==
  ASSUME NEW i, NEW S, bids[i] \in Seq(S), NEW limit \in Nat, NEW p \in Nat
  PROVE  PageFits(i, limit, TRUE, p)
<1> DEFINE b == bids[i]
           n == Len(b)
           skip == IF p < n THEN p ELSE n
           end == IF p + limit < n THEN p + limit ELSE n
           part == SubSeq(b, n - end + 1, n - skip)
           page == [k \in 1 .. Len(part) |-> part[Len(part) + 1 - k]]
<1>1. b \in Seq(S) /\ n \in Nat
  OBVIOUS
<1>2. ReadBids(i, p - 1, limit, TRUE) = page
  <2>1. p - 1 + 1 = p
    OBVIOUS
  <2> QED BY <2>1, Zenon DEF ReadBids
<1> HIDE DEF n, b
<1>3. skip \in 0 .. n /\ end \in skip .. n /\ end - skip = PageSize(n, p, limit)
  <2>1. CASE p >= n
    BY <1>1, <2>1 DEF PageSize
  <2>2. CASE p < n
    BY <1>1, <2>2 DEF PageSize
  <2> QED BY <1>1, <2>1, <2>2
<1> HIDE DEF skip, end
<1>4. Len(part) = end - skip /\ \A k \in 1 .. end - skip : part[k] = b[n - end + k]
  <2>1. n - end + 1 \in 1 .. n + 1 /\ n - skip \in n - end .. n
    BY <1>1, <1>3
  <2> QED BY <1>1, <1>3, <2>1 DEF n
<1>5. PageSize(n, p, limit) > 0 => skip = p
  BY <1>1 DEF skip, PageSize
<1>6. end - skip \in Nat /\ skip \in Nat /\ end \in Nat
  BY <1>1, <1>3
<1> HIDE DEF part
<1>7. Len(page) = end - skip
  BY <1>4, <1>6
<1>8. ASSUME NEW k \in 1 .. end - skip PROVE page[k] = b[n + 1 - (p + k)]
  <2>1. page[k] = part[end - skip + 1 - k] /\ end - skip + 1 - k \in 1 .. end - skip
    BY <1>4, <1>6
  <2>2. part[end - skip + 1 - k] = b[n - end + (end - skip + 1 - k)]
    BY <1>4, <2>1
  <2>3. n - end + (end - skip + 1 - k) = n + 1 - (p + k)
    BY <1>1, <1>3, <1>5, <1>6
  <2> QED BY <2>1, <2>2, <2>3
<1>9. /\ Len(ReadBids(i, p - 1, limit, TRUE)) = PageSize(Len(bids[i]), p, limit)
      /\ \A k \in 1 .. Len(ReadBids(i, p - 1, limit, TRUE)) :
           ReadBids(i, p - 1, limit, TRUE)[k] = bids[i][Len(bids[i]) + 1 - (p + k)]
  BY <1>2, <1>3, <1>7, <1>8 DEF n, b
<1> QED BY <1>9, Zenon DEF PageFits, PageSize

LEMMA PagesFit == TypeOK => PagesAgree
<1> SUFFICES ASSUME TypeOK PROVE PagesAgree
  OBVIOUS
<1>1. ASSUME NEW i \in DOMAIN auction, NEW limit \in 1 .. 2, NEW p \in 0 .. Len(bids[i]) + 1
      PROVE  PageFits(i, limit, TRUE, p) /\ PageFits(i, limit, FALSE, p)
  <2>1. bids[i] \in Seq([bidder : Users, amount : Nat])
    BY DEF TypeOK
  <2>2. limit \in Nat /\ p \in Nat
    BY <2>1
  <2>3. PageFits(i, limit, TRUE, p)
    BY <2>1, <2>2, BackwardPage
  <2>4. PageFits(i, limit, FALSE, p)
    BY <2>1, <2>2, ForwardPage
  <2> QED BY <2>3, <2>4
<1>2. \A i \in DOMAIN auction, limit \in 1 .. 2, desc \in BOOLEAN :
        \A p \in 0 .. Len(bids[i]) + 1 : PageFits(i, limit, desc, p)
  <2> SUFFICES ASSUME NEW i \in DOMAIN auction, NEW limit \in 1 .. 2, NEW desc \in BOOLEAN,
                      NEW p \in 0 .. Len(bids[i]) + 1
               PROVE  PageFits(i, limit, desc, p)
    OBVIOUS
  <2>1. PageFits(i, limit, TRUE, p) /\ PageFits(i, limit, FALSE, p)
    BY <1>1
  <2>2. CASE desc = TRUE
    BY <2>1, <2>2, Zenon
  <2>3. CASE desc = FALSE
    BY <2>1, <2>3, Zenon
  <2> QED BY <2>2, <2>3, Zenon
<1> QED BY <1>2, Zenon DEF PagesAgree, PageFits

\* An auction's outcome is the same wherever it is read: in its state, in the
\* history of bids, in every page of it, and in what was paid, once at most and
\* never for a cancelled auction.
THEOREM OutcomeIsOne == ASSUME ~PlainTransfers PROVE Spec => []OutcomesAgree
<1>1. IInv /\ OutcomeInv /\ [Next]_vars => OutcomeInv'
  BY NextOutcome
<1>2. IInv /\ OutcomeInv => OutcomesAgree
  BY PagesFit DEF IInv, OutcomeInv, OutcomesAgree
<1>3. Init => OutcomeInv
  BY InitOutcome
<1> QED BY <1>1, <1>2, <1>3, Inductive, PTL DEF Spec
=============================================================================

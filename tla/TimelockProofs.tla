--------------------------- MODULE TimelockProofs ---------------------------
(***************************************************************************)
(* Proofs about Timelock, for any users, coins, deposits, conditions and   *)
(* page limits.                                                            *)
(***************************************************************************)
EXTENDS Timelock, Sums, TLAPS

USE TimelockAssumption

\* Escrows hold coins, each under a condition that IsLocked can decide; in
\* particular Never, which no release could meet, was not accepted.
TypeOK ==
  /\ height \in Nat /\ time \in Nat
  /\ DOMAIN escrow \subseteq Key
  /\ \A k \in DOMAIN escrow :
       /\ IsCoins(escrow[k].coins)
       /\ escrow[k].condition \in Conditions /\ escrow[k].condition.kind # "never"
  /\ held \in [Denoms -> Nat]
  /\ deposited \in [Users -> [Denoms -> Nat]]
  /\ paid \in [Users -> [Denoms -> Nat]]

\* The escrows of one recipient.
KeysFor(r) == {k \in DOMAIN escrow : k[2] = r}

LEMMA AmountNat ==
  ASSUME NEW c, IsCoins(c), NEW d \in Denoms
  PROVE  AmountOf(c, d) \in Nat
BY DEF AmountOf, IsCoins

LEMMA MergedAmounts ==
  ASSUME NEW c, IsCoins(c), NEW e, IsCoins(e)
  PROVE  /\ IsCoins(Merged(c, e))
         /\ \A d \in Denoms : AmountOf(Merged(c, e), d) = AmountOf(c, d) + AmountOf(e, d)
<1>1. \A d \in Denoms : AmountOf(c, d) \in Nat /\ AmountOf(e, d) \in Nat
  BY AmountNat
<1>2. DOMAIN Merged(c, e) = DOMAIN c \cup DOMAIN e
  BY DEF Merged
<1>3. IsCoins(Merged(c, e))
  BY <1>1, <1>2 DEF IsCoins, Merged
<1>4. ASSUME NEW d \in Denoms
      PROVE  AmountOf(Merged(c, e), d) = AmountOf(c, d) + AmountOf(e, d)
  BY <1>2 DEF AmountOf, Merged
<1> QED BY <1>3, <1>4

LEMMA FiniteEscrows ==
  ASSUME TypeOK, NEW K \in SUBSET DOMAIN escrow
  PROVE  IsFiniteSet(K)
<1>1. IsFiniteSet(Key)
  BY FS_Product DEF Key
<1> QED BY <1>1, FS_Subset DEF TypeOK

LEMMA TotalNat ==
  ASSUME TypeOK, NEW K \in SUBSET DOMAIN escrow, NEW d \in Denoms
  PROVE  TotalOf(K, d) \in Nat
<1> DEFINE f == [k \in K |-> AmountOf(escrow[k].coins, d)]
<1>1. \A k \in K : f[k] \in Nat
  BY AmountNat DEF TypeOK
<1>2. IsFiniteSet(K)
  BY FiniteEscrows
<1> HIDE DEF f
<1>3. SumFunctionOnSet(f, K) \in Nat
  BY <1>1, <1>2, SumNat
<1> QED BY <1>3 DEF TotalOf, f

\* What is taken out of a set of escrows is what the rest has less.
LEMMA TotalSplit ==
  ASSUME TypeOK, NEW S \in SUBSET DOMAIN escrow, NEW K \in SUBSET S, NEW d \in Denoms
  PROVE  TotalOf(S, d) = TotalOf(K, d) + TotalOf(S \ K, d)
<1> DEFINE F(T) == [k \in T |-> AmountOf(escrow[k].coins, d)]
<1>1. \A k \in S : AmountOf(escrow[k].coins, d) \in Nat
  BY AmountNat DEF TypeOK
<1>2. IsFiniteSet(S) /\ IsFiniteSet(K) /\ IsFiniteSet(S \ K)
  BY FiniteEscrows
<1>3. \A T \in SUBSET S : \A k \in T : F(S)[k] \in Int /\ F(T)[k] \in Int /\ F(S)[k] = F(T)[k]
  BY <1>1
<1>4. \A T \in SUBSET S : TotalOf(T, d) = SumFunctionOnSet(F(T), T)
  BY DEF TotalOf
<1> HIDE DEF F
<1>5. SumFunctionOnSet(F(S), S) = SumFunctionOnSet(F(S), K) + SumFunctionOnSet(F(S), S \ K)
  BY <1>2, <1>3, SumPartition
<1>6. SumFunctionOnSet(F(S), K) = SumFunctionOnSet(F(K), K)
  BY <1>2, <1>3, SumCongruence
<1>7. SumFunctionOnSet(F(S), S \ K) = SumFunctionOnSet(F(S \ K), S \ K)
  <2> DEFINE W == S \ K
  <2>1. \A k \in W : F(S)[k] \in Int /\ F(S)[k] = F(W)[k]
    BY <1>3
  <2>2. IsFiniteSet(W)
    BY <1>2
  <2> HIDE DEF W
  <2>3. SumFunctionOnSet(F(S), W) = SumFunctionOnSet(F(W), W)
    BY <2>1, <2>2, SumCongruence
  <2> QED BY <2>3 DEF W
<1> QED BY <1>4, <1>5, <1>6, <1>7

-----------------------------------------------------------------------------
\* What the escrows S hold of d after a step.
TotalAfter(S, d) == SumFunctionOnSet([j \in S |-> AmountOf(escrow'[j].coins, d)], S)

\* Escrows that are not touched hold what they held.
LEMMA TotalKept ==
  ASSUME TypeOK, NEW S \in SUBSET DOMAIN escrow, NEW d \in Denoms,
         \A k \in S : escrow'[k] = escrow[k]
  PROVE  TotalAfter(S, d) = TotalOf(S, d)
<1>1. [k \in S |-> AmountOf(escrow'[k].coins, d)] = [k \in S |-> AmountOf(escrow[k].coins, d)]
  OBVIOUS
<1> QED BY <1>1 DEF TotalOf, TotalAfter
\* What a deposit makes of the escrow k it joins, and of the others.
Joined(k, coins) ==
  /\ DOMAIN escrow' = DOMAIN escrow \cup {k}
  /\ \A j \in DOMAIN escrow \ {k} : escrow'[j] = escrow[j]
  /\ IsCoins(escrow'[k].coins)
  /\ escrow'[k].condition \in Conditions /\ escrow'[k].condition.kind # "never"
  /\ k \in DOMAIN escrow => escrow'[k].condition = escrow[k].condition
  /\ \A d \in Denoms :
       AmountOf(escrow'[k].coins, d) =
         AmountOf(coins, d) + (IF k \in DOMAIN escrow THEN AmountOf(escrow[k].coins, d) ELSE 0)

LEMMA HeldEscrow ==
  ASSUME TypeOK, NEW o \in Users, NEW r \in Users, NEW coins \in Deposits,
         NEW condition \in Conditions, NEW viaAdo,
         HoldFunds(o, r, coins, condition, viaAdo)
  PROVE  Joined(<<o, r>>, coins)
<1> DEFINE k == <<o, r>>
           old == [coins |-> Merged(coins, escrow[k].coins),
                   condition |-> escrow[k].condition, viaAdo |-> viaAdo]
           new == [coins |-> coins, condition |-> condition, viaAdo |-> viaAdo]
           e == IF k \in DOMAIN escrow THEN old ELSE new
<1>1. /\ k \notin DOMAIN escrow => Valid(e)
      /\ escrow' = [j \in DOMAIN escrow \cup {k} |-> IF j = k THEN e ELSE escrow[j]]
  BY Zenon DEF HoldFunds
<1>2. /\ DOMAIN escrow' = DOMAIN escrow \cup {k} /\ escrow'[k] = e
      /\ \A j \in DOMAIN escrow \ {k} : escrow'[j] = escrow[j]
  BY <1>1
<1>3. IsCoins(coins) /\ \A d \in Denoms : AmountOf(coins, d) \in Nat
  BY AmountNat
<1>4. CASE k \in DOMAIN escrow
  <2>1. e = old
    BY <1>4
  <2>2. /\ IsCoins(escrow[k].coins)
        /\ escrow[k].condition \in Conditions /\ escrow[k].condition.kind # "never"
    BY <1>4 DEF TypeOK
  <2>3. e.coins = Merged(coins, escrow[k].coins) /\ e.condition = escrow[k].condition
    BY <2>1
  <2> HIDE DEF old, new, e
  <2> QED BY <1>2, <1>3, <1>4, <2>2, <2>3, MergedAmounts DEF Joined
<1>5. CASE k \notin DOMAIN escrow
  <2>1. e = new /\ Valid(e)
    BY <1>1, <1>5
  <2>2. e.coins = coins /\ e.condition = condition
    BY <2>1
  <2> HIDE DEF old, new, e
  <2>3. e.condition.kind # "never"
    BY <2>1 DEF Valid
  <2> QED BY <1>2, <1>3, <1>5, <2>2, <2>3 DEF Joined
<1> QED BY <1>4, <1>5

\* A set of escrows with the one that is added to has the deposit more.
LEMMA HeldTotal ==
  ASSUME TypeOK, NEW k \in Key, NEW coins \in Deposits, Joined(k, coins), NEW d \in Denoms,
         NEW S \in SUBSET DOMAIN escrow, k \in DOMAIN escrow => k \in S
  PROVE  TotalAfter(S \cup {k}, d) = TotalOf(S, d) + AmountOf(coins, d)
<1> DEFINE f == [j \in S |-> AmountOf(escrow[j].coins, d)]
           g == [j \in S \cup {k} |-> AmountOf(escrow'[j].coins, d)]
<1>1. IsFiniteSet(S) /\ \A j \in S : f[j] \in Int
  BY FiniteEscrows, AmountNat DEF TypeOK
<1>2. AmountOf(coins, d) \in Nat
  BY AmountNat
<1>3. \A j \in S \ {k} : g[j] = f[j]
  BY DEF Joined
<1>4. TotalOf(S, d) = SumFunctionOnSet(f, S)
  BY DEF TotalOf
<1>5. CASE k \in DOMAIN escrow
  <2>1. k \in S /\ S \cup {k} = S /\ f[k] = AmountOf(escrow[k].coins, d)
    BY <1>5
  <2>2. g[k] = AmountOf(coins, d) + AmountOf(escrow[k].coins, d)
    <3>1. AmountOf(escrow'[k].coins, d) = AmountOf(coins, d) + AmountOf(escrow[k].coins, d)
      BY <1>5 DEF Joined
    <3> QED BY <3>1
  <2> HIDE DEF f, g
  <2>3. \A j \in S : g[j] \in Int
    BY <1>1, <1>2, <1>3, <2>1, <2>2
  <2>4. SumFunctionOnSet(g, S) = SumFunctionOnSet(f, S) - f[k] + g[k]
    BY <1>1, <1>3, <2>1, <2>3, SumChange
  <2>5. SumFunctionOnSet(f, S) \in Int
    BY <1>1, SumSplit
  <2>6. SumFunctionOnSet(g, S \cup {k}) = TotalOf(S, d) + AmountOf(coins, d)
    <3>1. f[k] \in Int
      BY <1>1, <2>1
    <3>2. SumFunctionOnSet(g, S) = SumFunctionOnSet(f, S) + AmountOf(coins, d)
      BY <1>2, <2>1, <2>2, <2>4, <2>5, <3>1
    <3> QED BY <1>4, <2>1, <3>2
  <2> QED BY <2>6 DEF g, TotalAfter
<1>6. CASE k \notin DOMAIN escrow
  <2>1. k \notin S
    BY <1>6
  <2>2. g[k] = AmountOf(coins, d)
    <3>1. AmountOf(escrow'[k].coins, d) = AmountOf(coins, d) + 0
      BY <1>6 DEF Joined
    <3> QED BY <1>2, <3>1
  <2> HIDE DEF f, g
  <2>3. SumFunctionOnSet(g, S \cup {k}) = SumFunctionOnSet(f, S) + g[k]
    BY <1>1, <1>2, <1>3, <2>1, <2>2, SumAdd
  <2>4. SumFunctionOnSet(g, S \cup {k}) = TotalOf(S, d) + AmountOf(coins, d)
    BY <1>4, <2>2, <2>3
  <2> QED BY <2>4 DEF g, TotalAfter
<1> QED BY <1>5, <1>6
-----------------------------------------------------------------------------
\* The inductive invariant: the books are typed, and they agree.
IInv == TypeOK /\ Accounted

LEMMA InitIInv == Init => IInv
<1> SUFFICES ASSUME Init PROVE IInv
  OBVIOUS
<1>1. DOMAIN escrow = {}
  BY DEF Init
<1>2. TypeOK
  BY <1>1 DEF Init, TypeOK
<1>3. \A d \in Denoms : TotalOf({}, d) = 0
  BY SumEmpty DEF TotalOf
<1>4. \A r \in Users : {k \in DOMAIN escrow : k[2] = r} = {}
  BY <1>1
<1>5. Backed
  BY <1>1, <1>3 DEF Init, Backed
<1>6. Conserved
  BY <1>3, <1>4 DEF Init, Conserved
<1> QED BY <1>2, <1>5, <1>6 DEF IInv, Accounted

\* A step that leaves the escrows and the coins alone.
LEMMA BooksKept ==
  ASSUME IInv, UNCHANGED <<escrow, held, deposited, paid>>, height' \in Nat, time' \in Nat
  PROVE  IInv'
BY DEF IInv, TypeOK, Accounted, Backed, Conserved, TotalOf

LEMMA HoldStep ==
  ASSUME IInv, NEW o \in Users, NEW r \in Users, NEW coins \in Deposits,
         NEW condition \in Conditions, NEW viaAdo,
         HoldFunds(o, r, coins, condition, viaAdo)
  PROVE  IInv'
<1> DEFINE k == <<o, r>>
<1>typ. TypeOK /\ k \in Key
  BY DEF IInv, Key
<1>0. Joined(k, coins)
  BY <1>typ, HeldEscrow
<1>1. /\ held' = [d \in Denoms |-> held[d] + AmountOf(coins, d)]
      /\ deposited' = [deposited EXCEPT ![r] = [d \in Denoms |-> @[d] + AmountOf(coins, d)]]
      /\ UNCHANGED <<height, time, paid>>
  BY DEF HoldFunds, Deposit, block
<1>2. \A d \in Denoms : AmountOf(coins, d) \in Nat
  BY AmountNat
<1>3. TypeOK'
  <2>1. /\ DOMAIN escrow' \subseteq Key
        /\ \A j \in DOMAIN escrow' :
             /\ IsCoins(escrow'[j].coins)
             /\ escrow'[j].condition \in Conditions /\ escrow'[j].condition.kind # "never"
    <3>1. k \in Key
      BY <1>typ
    <3>2. DOMAIN escrow' = DOMAIN escrow \cup {k}
      BY <1>0 DEF Joined
    <3>3. \A j \in DOMAIN escrow : j # k => escrow'[j] = escrow[j]
      BY <1>0 DEF Joined
    <3>4. /\ IsCoins(escrow'[k].coins)
          /\ escrow'[k].condition \in Conditions /\ escrow'[k].condition.kind # "never"
      BY <1>0 DEF Joined
    <3> HIDE DEF k
    <3> QED BY <1>typ, <3>1, <3>2, <3>3, <3>4 DEF TypeOK
  <2>2. held' \in [Denoms -> Nat]
    BY <1>typ, <1>1, <1>2 DEF TypeOK
  <2>3. deposited' \in [Users -> [Denoms -> Nat]]
    <3>1. [d \in Denoms |-> deposited[r][d] + AmountOf(coins, d)] \in [Denoms -> Nat]
      BY <1>typ, <1>2 DEF TypeOK
    <3> QED BY <1>typ, <1>1, <3>1 DEF TypeOK
  <2> QED BY <1>typ, <1>1, <2>1, <2>2, <2>3 DEF TypeOK
<1>4. Backed'
  <2> SUFFICES ASSUME NEW d \in Denoms PROVE held'[d] = TotalOf(DOMAIN escrow, d)'
    BY DEF Backed
  <2>1. DOMAIN escrow' = DOMAIN escrow \cup {k}
    BY <1>0 DEF Joined
  <2>2. TotalOf(DOMAIN escrow, d)' = TotalOf(DOMAIN escrow, d) + AmountOf(coins, d)
    <3>1. TotalAfter(DOMAIN escrow \cup {k}, d) = TotalOf(DOMAIN escrow, d) + AmountOf(coins, d)
      BY <1>typ, <1>0, HeldTotal
    <3>2. TotalOf(DOMAIN escrow, d)' = TotalAfter(DOMAIN escrow \cup {k}, d)
      BY <2>1 DEF TotalOf, TotalAfter
    <3> QED BY <3>1, <3>2
  <2>3. held[d] = TotalOf(DOMAIN escrow, d)
    BY DEF IInv, Accounted, Backed
  <2> QED BY <1>1, <2>2, <2>3
<1>5. Conserved'
  <2> SUFFICES ASSUME NEW q \in Users, NEW d \in Denoms
               PROVE  deposited'[q][d] = paid'[q][d] + TotalOf(KeysFor(q), d)'
    BY DEF Conserved, KeysFor
  <2>1. deposited[q][d] = paid[q][d] + TotalOf(KeysFor(q), d)
    BY DEF IInv, Accounted, Conserved, KeysFor
  <2>2. DOMAIN escrow' = DOMAIN escrow \cup {k}
    BY <1>0 DEF Joined
  <2>3. CASE q = r
    <3>1. KeysFor(q)' = KeysFor(q) \cup {k}
      BY <2>2, <2>3 DEF KeysFor
    <3>2. KeysFor(q) \in SUBSET DOMAIN escrow /\ (k \in DOMAIN escrow => k \in KeysFor(q))
      BY <2>3 DEF KeysFor
    <3>3. TotalOf(KeysFor(q), d)' = TotalOf(KeysFor(q), d) + AmountOf(coins, d)
      <4>1. TotalAfter(KeysFor(q) \cup {k}, d) = TotalOf(KeysFor(q), d) + AmountOf(coins, d)
        BY <1>typ, <1>0, <3>2, HeldTotal
      <4>2. TotalOf(KeysFor(q), d)' = TotalAfter(KeysFor(q) \cup {k}, d)
        BY <3>1 DEF TotalOf, TotalAfter
      <4> QED BY <4>1, <4>2
    <3>4. deposited'[q][d] = deposited[q][d] + AmountOf(coins, d)
      BY <1>typ, <1>1, <2>3 DEF TypeOK
    <3>5. TotalOf(KeysFor(q), d) \in Nat
      BY <1>typ, <3>2, TotalNat
    <3>6. paid[q][d] \in Nat /\ paid' = paid
      BY <1>typ, <1>1 DEF TypeOK
    <3> QED BY <1>2, <2>1, <3>3, <3>4, <3>5, <3>6
  <2>4. CASE q # r
    <3>1. KeysFor(q)' = KeysFor(q) /\ k \notin KeysFor(q)
      BY <2>2, <2>4 DEF KeysFor
    <3>2. KeysFor(q) \in SUBSET DOMAIN escrow
      BY DEF KeysFor
    <3>3. \A j \in KeysFor(q) : escrow'[j] = escrow[j]
      BY <1>0, <3>1, <3>2 DEF Joined
    <3>4. TotalOf(KeysFor(q), d)' = TotalOf(KeysFor(q), d)
      BY <1>typ, <3>1, <3>2, <3>3, TotalKept DEF TotalOf, TotalAfter
    <3>5. deposited'[q] = deposited[q]
      BY <1>typ, <1>1, <2>4 DEF TypeOK
    <3> QED BY <1>1, <2>1, <3>4, <3>5
  <2> QED BY <2>3, <2>4
<1> QED BY <1>3, <1>4, <1>5 DEF IInv, Accounted

\* Whatever escrows of one recipient are paid together.
LEMMA PayStep ==
  ASSUME IInv, NEW r \in Users, NEW K \in SUBSET KeysFor(r), Pay(K, r)
  PROVE  IInv'
<1>typ. TypeOK
  BY DEF IInv
<1>1. /\ \A d \in Denoms : held[d] >= TotalOf(K, d)
      /\ DOMAIN escrow' = DOMAIN escrow \ K
      /\ \A j \in DOMAIN escrow' : escrow'[j] = escrow[j]
      /\ held' = [d \in Denoms |-> held[d] - TotalOf(K, d)]
      /\ paid' = [paid EXCEPT ![r] = [d \in Denoms |-> @[d] + TotalOf(K, d)]]
      /\ UNCHANGED <<height, time, deposited>>
  BY DEF Pay, block, Restrict
<1>2. K \in SUBSET DOMAIN escrow
  BY DEF KeysFor
<1>3. \A d \in Denoms : TotalOf(K, d) \in Nat
  BY <1>typ, <1>2, TotalNat
<1>4. TypeOK'
  <2>1. held' \in [Denoms -> Nat]
    BY <1>typ, <1>1, <1>3 DEF TypeOK
  <2>2. [d \in Denoms |-> paid[r][d] + TotalOf(K, d)] \in [Denoms -> Nat]
    BY <1>typ, <1>3 DEF TypeOK
  <2>3. paid' \in [Users -> [Denoms -> Nat]]
    BY <1>typ, <1>1, <2>2 DEF TypeOK
  <2> QED BY <1>typ, <1>1, <2>1, <2>3 DEF TypeOK
<1>5. \A S \in SUBSET DOMAIN escrow, d \in Denoms :
        K \subseteq S =>
          /\ TotalOf(S, d) = TotalOf(K, d) + TotalOf(S \ K, d)
          /\ TotalOf(S \ K, d) \in Nat
  BY <1>typ, TotalSplit, TotalNat
<1>6. Backed'
  <2> SUFFICES ASSUME NEW d \in Denoms PROVE held'[d] = TotalOf(DOMAIN escrow, d)'
    BY DEF Backed
  <2>1. TotalOf(DOMAIN escrow, d)' = TotalOf(DOMAIN escrow \ K, d)
    BY <1>typ, <1>1, TotalKept DEF TotalOf, TotalAfter
  <2>2. held[d] = TotalOf(DOMAIN escrow, d)
    BY DEF IInv, Accounted, Backed
  <2> QED BY <1>1, <1>2, <1>3, <1>5, <2>1, <2>2
<1>7. Conserved'
  <2> SUFFICES ASSUME NEW q \in Users, NEW d \in Denoms
               PROVE  deposited'[q][d] = paid'[q][d] + TotalOf(KeysFor(q), d)'
    BY DEF Conserved, KeysFor
  <2>1. deposited[q][d] = paid[q][d] + TotalOf(KeysFor(q), d)
    BY DEF IInv, Accounted, Conserved, KeysFor
  <2>2. paid[q][d] \in Nat
    BY <1>typ DEF TypeOK
  <2>3. CASE q = r
    <3>1. KeysFor(q)' = KeysFor(q) \ K /\ K \subseteq KeysFor(q)
      BY <1>1, <2>3 DEF KeysFor
    <3>2. KeysFor(q) \in SUBSET DOMAIN escrow
      BY DEF KeysFor
    <3>3. TotalOf(KeysFor(q), d)' = TotalOf(KeysFor(q) \ K, d)
      BY <1>typ, <1>1, <3>1, <3>2, TotalKept DEF TotalOf, TotalAfter
    <3>4. paid'[q][d] = paid[q][d] + TotalOf(K, d)
      BY <1>typ, <1>1, <2>3 DEF TypeOK
    <3> QED BY <1>1, <1>3, <1>5, <2>1, <2>2, <3>1, <3>2, <3>3, <3>4
  <2>4. CASE q # r
    <3>1. KeysFor(q)' = KeysFor(q) /\ KeysFor(q) \in SUBSET DOMAIN escrow
      BY <1>1, <2>4 DEF KeysFor
    <3>2. \A j \in KeysFor(q) : escrow'[j] = escrow[j]
      BY <1>1, <3>1 DEF KeysFor
    <3>3. TotalOf(KeysFor(q), d)' = TotalOf(KeysFor(q), d)
      BY <1>typ, <3>1, <3>2, TotalKept DEF TotalOf, TotalAfter
    <3>4. paid'[q] = paid[q]
      BY <1>typ, <1>1, <2>4 DEF TypeOK
    <3> QED BY <1>1, <2>1, <3>3, <3>4
  <2> QED BY <2>3, <2>4
<1> QED BY <1>4, <1>6, <1>7 DEF IInv, Accounted

\* Both ways to release pay escrows of one recipient, none of them locked.
LEMMA Released ==
  ASSUME NEW r \in Users, NEW start, NEW limit, ReleaseFunds(r, start, limit)
  PROVE  \E K \in SUBSET KeysFor(r) : Pay(K, r) /\ \A k \in K : ~IsLocked(escrow[k])
<1> DEFINE open == {k \in Page(r, start, limit) : ~IsLocked(escrow[k])}
<1>1. Pay(open, r)
  BY DEF ReleaseFunds
<1>2. open \in SUBSET KeysFor(r)
  BY DEF Page, KeysFor
<1> QED BY <1>1, <1>2

LEMMA ReleasedOne ==
  ASSUME NEW o \in Users, NEW r \in Users, ReleaseSpecificFunds(o, r)
  PROVE  \E K \in SUBSET KeysFor(r) : Pay(K, r) /\ \A k \in K : ~IsLocked(escrow[k])
BY DEF ReleaseSpecificFunds, KeysFor

\* Every step of the contract is a block, a deposit or a payment.
LEMMA Steps ==
  ASSUME Next
  PROVE  \/ NextBlock
         \/ \E o, r \in Users, coins \in Deposits, condition \in Conditions, viaAdo \in BOOLEAN :
              HoldFunds(o, r, coins, condition, viaAdo)
         \/ \E r \in Users : \E K \in SUBSET KeysFor(r) :
              Pay(K, r) /\ \A k \in K : ~IsLocked(escrow[k])
<1>1. CASE NextBlock
  BY <1>1
<1>2. CASE \E o, r \in Users, coins \in Deposits, condition \in Conditions, viaAdo \in BOOLEAN :
             HoldFunds(o, r, coins, condition, viaAdo)
  BY <1>2
<1>3. ASSUME NEW o \in Users, NEW r \in Users, ReleaseSpecificFunds(o, r)
      PROVE  \E q \in Users : \E K \in SUBSET KeysFor(q) :
               Pay(K, q) /\ \A k \in K : ~IsLocked(escrow[k])
  BY <1>3, ReleasedOne
<1>4. ASSUME NEW r \in Users, NEW start \in Users \cup {0}, NEW limit \in Limits,
             ReleaseFunds(r, start, limit)
      PROVE  \E q \in Users : \E K \in SUBSET KeysFor(q) :
               Pay(K, q) /\ \A k \in K : ~IsLocked(escrow[k])
  BY <1>4, Released
<1> QED BY <1>1, <1>2, <1>3, <1>4, Zenon DEF Next

LEMMA StepIInv == IInv /\ [Next]_vars => IInv'
<1> SUFFICES ASSUME IInv, [Next]_vars PROVE IInv'
  OBVIOUS
<1>1. CASE NextBlock
  <2>1. UNCHANGED <<escrow, held, deposited, paid>>
    BY <1>1 DEF NextBlock
  <2>2. height' \in Nat /\ time' \in Nat
    BY <1>1 DEF NextBlock, IInv, TypeOK
  <2> QED BY <2>1, <2>2, BooksKept
<1>2. ASSUME NEW o \in Users, NEW r \in Users, NEW coins \in Deposits,
             NEW condition \in Conditions, NEW viaAdo \in BOOLEAN,
             HoldFunds(o, r, coins, condition, viaAdo)
      PROVE  IInv'
  BY <1>2, HoldStep
<1>3. ASSUME NEW r \in Users, NEW K \in SUBSET KeysFor(r), Pay(K, r)
      PROVE  IInv'
  BY <1>3, PayStep
<1>4. CASE UNCHANGED vars
  BY <1>4, BooksKept DEF vars, IInv, TypeOK
<1> QED BY <1>1, <1>2, <1>3, <1>4, Steps

LEMMA Invariance == Spec => []IInv
BY InitIInv, StepIInv, PTL DEF Spec
-----------------------------------------------------------------------------
\* Whatever is deposited, escrows stay sets of coins under a condition that can
\* be decided: execute_hold_funds stores no condition that is_locked rejects.
THEOREM TypeCorrect == Spec => []TypeOK
<1>1. IInv => TypeOK
  BY DEF IInv
<1> QED BY <1>1, Invariance, PTL

\* For any number of users, coins and escrows, and any pages: the balance that
\* the escrows share is their sum, and what was deposited for a recipient was
\* sent to that recipient or is in escrow for it.
THEOREM BooksAgree == Spec => []Accounted
<1>1. IInv => Accounted
  BY DEF IInv
<1> QED BY <1>1, Invariance, PTL

\* An escrow stays with all of its coins until the condition it was opened with
\* is met, whoever deposits into it and whoever releases others.
THEOREM ConditionStays == Spec => KeepsItsCondition
<1> DEFINE Kept ==
      \A k \in DOMAIN escrow :
        IF k \in DOMAIN escrow'
        THEN /\ escrow'[k].condition = escrow[k].condition
             /\ \A d \in Denoms : AmountOf(escrow[k].coins, d) <= AmountOf(escrow'[k].coins, d)
        ELSE ~IsLocked(escrow[k])
<1>1. ASSUME IInv, [Next]_vars PROVE Kept
  <2> SUFFICES ASSUME NEW k \in DOMAIN escrow
               PROVE  \/ /\ k \in DOMAIN escrow'
                         /\ escrow'[k].condition = escrow[k].condition
                         /\ \A d \in Denoms :
                              AmountOf(escrow[k].coins, d) <= AmountOf(escrow'[k].coins, d)
                      \/ k \notin DOMAIN escrow' /\ ~IsLocked(escrow[k])
    OBVIOUS
  <2>1. \A d \in Denoms : AmountOf(escrow[k].coins, d) \in Nat
    BY <1>1, AmountNat DEF IInv, TypeOK
  <2>2. CASE escrow' = escrow
    BY <2>1, <2>2
  <2>3. ASSUME NEW o \in Users, NEW r \in Users, NEW coins \in Deposits,
               NEW condition \in Conditions, NEW viaAdo \in BOOLEAN,
               HoldFunds(o, r, coins, condition, viaAdo)
        PROVE  /\ k \in DOMAIN escrow'
               /\ escrow'[k].condition = escrow[k].condition
               /\ \A d \in Denoms :
                    AmountOf(escrow[k].coins, d) <= AmountOf(escrow'[k].coins, d)
    <3> DEFINE j == <<o, r>>
    <3>1. Joined(j, coins)
      BY <1>1, <2>3, HeldEscrow DEF IInv
    <3>2. \A d \in Denoms : AmountOf(coins, d) \in Nat
      BY AmountNat
    <3> HIDE DEF j
    <3>3. CASE k = j
      BY <2>1, <3>1, <3>2, <3>3 DEF Joined
    <3>4. CASE k # j
      BY <2>1, <3>1, <3>4 DEF Joined
    <3> QED BY <3>3, <3>4
  <2>4. ASSUME NEW r \in Users, NEW K \in SUBSET KeysFor(r), Pay(K, r),
               \A j \in K : ~IsLocked(escrow[j])
        PROVE  \/ k \in DOMAIN escrow' /\ escrow'[k] = escrow[k]
               \/ k \notin DOMAIN escrow' /\ ~IsLocked(escrow[k])
    BY <2>4 DEF Pay, Restrict
  <2>5. NextBlock \/ UNCHANGED vars => escrow' = escrow
    BY DEF NextBlock, vars
  <2>6. CASE \E o, r \in Users, coins \in Deposits, condition \in Conditions, viaAdo \in BOOLEAN :
               HoldFunds(o, r, coins, condition, viaAdo)
    BY <2>3, <2>6
  <2>7. CASE \E r \in Users : \E K \in SUBSET KeysFor(r) :
               Pay(K, r) /\ \A j \in K : ~IsLocked(escrow[j])
    BY <2>1, <2>4, <2>7
  <2> QED BY <1>1, <2>2, <2>5, <2>6, <2>7, Steps
<1>2. IInv /\ [Next]_vars => [Kept]_vars
  BY <1>1
<1> QED BY <1>2, Invariance, PTL DEF Spec, KeepsItsCondition
=============================================================================

--------------------------- MODULE CrowdfundProofs --------------------------
(***************************************************************************)
(* Proofs about Crowdfund, for any buyers, tokens, prices, minima, limits   *)
(* and rates.                                                              *)
(***************************************************************************)
EXTENDS Crowdfund, Sums, SequenceTheorems, TLAPS

-----------------------------------------------------------------------------
(* Storage maps in the order of their keys.                                 *)

Increasing(f, n) == \A i, j \in 1 .. n : i < j => f[i] < f[j]

LEMMA EnumerationExists ==
  ASSUME NEW S, IsFiniteSet(S), S \subseteq Nat
  PROVE  \E f \in [1 .. Cardinality(S) -> S] : Increasing(f, Cardinality(S))
<1> DEFINE Good(T) == \E f \in [1 .. Cardinality(T) -> T] : Increasing(f, Cardinality(T))
           Bad == {n \in Nat : \E T \in SUBSET S : Cardinality(T) = n /\ ~Good(T)}
<1>fin. \A T \in SUBSET S : IsFiniteSet(T) /\ Cardinality(T) \in Nat
  BY FS_Subset, FS_CardinalityType
<1>1. Bad = {}
  <2> SUFFICES ASSUME Bad # {} PROVE FALSE
    OBVIOUS
  <2>1. PICK n \in Bad : \A m \in Bad : n <= m
    <3>1. Bad \subseteq Nat
      OBVIOUS
    <3> HIDE DEF Bad
    <3> QED BY <3>1, NatMinimum
  <2>2. PICK T \in SUBSET S : Cardinality(T) = n /\ ~Good(T)
    BY <2>1
  <2>3. T # {}
    <3> SUFFICES ASSUME T = {} PROVE FALSE
      OBVIOUS
    <3> DEFINE f == [i \in 1 .. 0 |-> i]
    <3>1. Cardinality({}) = 0 /\ f \in [1 .. 0 -> {}] /\ Increasing(f, 0)
      BY FS_EmptySet DEF Increasing
    <3>2. Good({})
      BY <3>1
    <3> QED BY <2>2, <3>2
  <2>4. PICK c \in T : \A x \in T : c <= x
    <3>1. T \subseteq Nat
      OBVIOUS
    <3> QED BY <2>3, <3>1, NatMinimum
  <2>5. T \ {c} \in SUBSET S /\ Cardinality(T \ {c}) = n - 1 /\ n \in Nat /\ n - 1 \in Nat
    <3>1. IsFiniteSet(T) /\ T \ {c} \in SUBSET S /\ n \in Nat /\ Cardinality(T) = n
      BY <2>2, <1>fin
    <3>2. Cardinality(T \ {c}) = n - 1
      BY <3>1, <2>4, FS_RemoveElement
    <3>3. Cardinality(T \ {c}) \in Nat
      BY <3>1, <1>fin
    <3> QED BY <3>1, <3>2, <3>3
  <2>6. Good(T \ {c})
    <3> HIDE DEF Good
    <3> QED BY <2>1, <2>5, <1>fin
  <2>7. PICK f \in [1 .. (n - 1) -> T \ {c}] : Increasing(f, n - 1)
    BY <2>5, <2>6
  <2> DEFINE g == [i \in 1 .. n |-> IF i = 1 THEN c ELSE f[i - 1]]
  <2>8. g \in [1 .. n -> T]
    BY <2>4, <2>5, <2>7
  <2>9. Increasing(g, n)
    <3> SUFFICES ASSUME NEW i \in 1 .. n, NEW j \in 1 .. n, i < j PROVE g[i] < g[j]
      BY DEF Increasing
    <3>1. j - 1 \in 1 .. (n - 1) /\ g[j] = f[j - 1] /\ f[j - 1] \in T \ {c}
      BY <2>5, <2>7
    <3>2. CASE i = 1
      <4>1. g[i] = c /\ c \in Nat /\ g[j] \in Nat /\ g[j] # c /\ c <= g[j]
        BY <2>4, <3>1, <3>2
      <4> QED BY <4>1
    <3>3. CASE i # 1
      <4>1. i - 1 \in 1 .. (n - 1) /\ g[i] = f[i - 1] /\ i - 1 < j - 1
        BY <2>5, <3>3
      <4> QED BY <2>7, <3>1, <4>1 DEF Increasing
    <3> QED BY <3>2, <3>3
  <2> HIDE DEF g
  <2>10. Good(T)
    BY <2>2, <2>8, <2>9
  <2> QED BY <2>2, <2>10
<1>2. Good(S)
  <2> HIDE DEF Good
  <2> QED BY <1>1, <1>fin
<1> QED BY <1>2

\* The keys in order: each of them once.
LEMMA AscendingFacts ==
  ASSUME NEW S, IsFiniteSet(S), S \subseteq Nat
  PROVE  /\ Cardinality(S) \in Nat
         /\ Ascending(S) \in [1 .. Cardinality(S) -> S]
         /\ Increasing(Ascending(S), Cardinality(S))
         /\ \A x \in S : \E i \in 1 .. Cardinality(S) : Ascending(S)[i] = x
<1> DEFINE n == Cardinality(S)
           f == Ascending(S)
<1>1. n \in Nat
  BY FS_CardinalityType
<1>2. f \in [1 .. n -> S] /\ Increasing(f, n)
  BY EnumerationExists DEF Ascending, Increasing
<1> HIDE DEF f
<1>3. f \in Injection(1 .. n, S)
  <2> SUFFICES ASSUME NEW i \in 1 .. n, NEW j \in 1 .. n, f[i] = f[j] PROVE i = j
    BY <1>2 DEF Injection, IsInjective
  <2>1. f[i] \in Nat /\ f[j] \in Nat
    BY <1>2
  <2> QED BY <1>1, <1>2, <2>1 DEF Increasing
<1>4. Cardinality(1 .. n) = n
  BY <1>1, FS_Interval
<1>5. f \in Surjection(1 .. n, S)
  BY <1>3, <1>4, FS_Injection
<1>6. \A x \in S : \E i \in 1 .. n : f[i] = x
  BY <1>5 DEF Surjection
<1> QED BY <1>1, <1>2, <1>6 DEF f

LEMMA FirstOfFacts ==
  ASSUME NEW S, IsFiniteSet(S), S \subseteq Nat, NEW n \in Nat
  PROVE  /\ FirstOf(S, n) \subseteq S /\ IsFiniteSet(FirstOf(S, n))
         /\ n > 0 /\ FirstOf(S, n) = {} => S = {}
<1>1. FirstOf(S, n) \subseteq S
  BY DEF FirstOf
<1>2. ASSUME n > 0, S # {} PROVE FirstOf(S, n) # {}
  <2>1. PICK x \in S : \A y \in S : x <= y
    BY <1>2, NatMinimum
  <2>2. {y \in S : y < x} = {}
    <3>1. \A y \in S : y \in Nat /\ x \in Nat /\ ~(y < x)
      BY <2>1
    <3> QED BY <3>1
  <2>3. x \in FirstOf(S, n)
    BY <1>2, <2>2, FS_EmptySet DEF FirstOf
  <2> QED BY <2>3
<1> QED BY <1>1, <1>2, FS_Subset

\* How the purchases of all buyers lie behind each other: those of one buyer
\* start after position pos[b], and buyers follow in the order of the keys.
Layout(all, es, D, pos) ==
  /\ \A b \in D : /\ pos[b] \in Nat /\ pos[b] + Len(es[b]) <= Len(all)
                  /\ \A k \in 1 .. Len(es[b]) : all[pos[b] + k] = es[b][k]
  /\ \A i \in 1 .. Len(all) : \E b \in D : \E k \in 1 .. Len(es[b]) : i = pos[b] + k
  /\ \A b, c \in D : b < c => pos[b] + Len(es[b]) <= pos[c]

\* One buyer more, whose key comes after the others.
LEMMA LayoutExtends ==
  ASSUME NEW R, NEW all \in Seq(R), NEW es, NEW D, D \subseteq Nat, NEW d \in Nat,
         \A b \in D : es[b] \in Seq(R) /\ b < d,
         es[d] \in Seq(R), NEW pos, Layout(all, es, D, pos)
  PROVE  /\ all \o es[d] \in Seq(R)
         /\ \E p : Layout(all \o es[d], es, D \cup {d}, p)
<1> DEFINE p == [b \in D \cup {d} |-> IF b = d THEN Len(all) ELSE pos[b]]
           new == all \o es[d]
<1>1. /\ Len(all) \in Nat /\ Len(es[d]) \in Nat /\ new \in Seq(R)
      /\ Len(new) = Len(all) + Len(es[d])
      /\ \A i \in 1 .. (Len(all) + Len(es[d])) :
           new[i] = IF i <= Len(all) THEN all[i] ELSE es[d][i - Len(all)]
  BY ConcatProperties, LenProperties
<1>2. p[d] = Len(all) /\ \A b \in D : p[b] = pos[b] /\ b # d /\ Len(es[b]) \in Nat
  BY LenProperties
<1> HIDE DEF p, new
<1>3. ASSUME NEW b \in D \cup {d}
      PROVE  /\ p[b] \in Nat /\ p[b] + Len(es[b]) <= Len(new)
             /\ \A k \in 1 .. Len(es[b]) : new[p[b] + k] = es[b][k]
  <2>1. CASE b = d
    <3>1. \A k \in 1 .. Len(es[d]) : new[Len(all) + k] = es[d][k]
      <4> TAKE k \in 1 .. Len(es[d])
      <4>1. /\ Len(all) + k \in 1 .. (Len(all) + Len(es[d]))
            /\ ~(Len(all) + k <= Len(all)) /\ (Len(all) + k) - Len(all) = k
        BY <1>1
      <4> QED BY <1>1, <4>1
    <3>2. p[b] = Len(all) /\ es[b] = es[d] /\ Len(all) \in Nat /\ Len(all) + Len(es[d]) <= Len(new)
      BY <1>1, <1>2, <2>1
    <3> QED BY <3>1, <3>2
  <2>2. CASE b # d
    <3>1. /\ b \in D /\ pos[b] \in Nat /\ pos[b] + Len(es[b]) <= Len(all) /\ Len(es[b]) \in Nat
          /\ p[b] = pos[b]
      BY <1>2, <2>2 DEF Layout
    <3>2. ASSUME NEW k \in 1 .. Len(es[b]) PROVE new[p[b] + k] = es[b][k]
      <4>1. k \in Nat /\ 1 <= k /\ k <= Len(es[b])
        BY <3>1
      <4>2. pos[b] + k \in 1 .. (Len(all) + Len(es[d])) /\ pos[b] + k <= Len(all)
        <5>1. Len(all) \in Nat /\ Len(es[d]) \in Nat
          BY <1>1
        <5>2. \A x, y, z, n, i \in Nat : x + n <= y /\ 1 <= i /\ i <= n =>
                x + i \in 1 .. (y + z) /\ x + i <= y
          OBVIOUS
        <5> QED BY <3>1, <4>1, <5>1, <5>2
      <4>3. all[pos[b] + k] = es[b][k]
        BY <3>1 DEF Layout
      <4> QED BY <1>1, <3>1, <4>2, <4>3
    <3> QED BY <1>1, <3>1, <3>2
  <2> QED BY <2>1, <2>2
<1>4. ASSUME NEW i \in 1 .. Len(new)
      PROVE  \E b \in D \cup {d} : \E k \in 1 .. Len(es[b]) : i = p[b] + k
  <2>1. CASE i <= Len(all)
    <3>1. PICK b \in D : \E k \in 1 .. Len(es[b]) : i = pos[b] + k
      BY <1>1, <2>1 DEF Layout
    <3> QED BY <1>2, <3>1
  <2>2. CASE i > Len(all)
    <3>1. i - Len(all) \in 1 .. Len(es[d]) /\ i = p[d] + (i - Len(all))
      BY <1>1, <1>2, <2>2
    <3> QED BY <3>1
  <2> QED BY <1>1, <2>1, <2>2
<1>5. ASSUME NEW b \in D \cup {d}, NEW c \in D \cup {d}, b < c
      PROVE  p[b] + Len(es[b]) <= p[c]
  <2>1. b \in D
    BY <1>5
  <2>2. CASE c = d
    BY <1>1, <1>2, <2>1, <2>2 DEF Layout
  <2>3. CASE c # d
    BY <1>2, <1>5, <2>1, <2>3 DEF Layout
  <2> QED BY <2>2, <2>3
<1>6. Layout(new, es, D \cup {d}, p)
  BY <1>3, <1>4, <1>5 DEF Layout
<1> QED BY <1>1, <1>6 DEF new

LEMMA LayoutFirst ==
  ASSUME NEW R, NEW es, NEW d \in Nat, es[d] \in Seq(R)
  PROVE  \E p : Layout(es[d], es, {d}, p)
<1> DEFINE p == [b \in {d} |-> 0]
<1>1. p[d] = 0 /\ Len(es[d]) \in Nat
  BY LenProperties
<1>2. \A i \in 1 .. Len(es[d]) : i \in Nat /\ p[d] + i = i
  BY <1>1
<1> HIDE DEF p
<1>3. \A b, c \in {d} : ~(b < c)
  OBVIOUS
<1>4. Layout(es[d], es, {d}, p)
  BY <1>1, <1>2, <1>3 DEF Layout
<1> QED BY <1>4

\* Joining sequences one after the other.
Joins(g, s, m, R) ==
  /\ FlattenSeq(s) = g[m] /\ g[1] = s[1]
  /\ \A k \in 2 .. m : g[k] = g[k - 1] \o s[k]
  /\ \A k \in 1 .. m : g[k] \in Seq(R)

LEMMA FlattenLoop ==
  ASSUME NEW R, NEW m \in Nat, m > 0, NEW s \in [1 .. m -> Seq(R)]
  PROVE  \E g : Joins(g, s, m, R)
<1> DEFINE body == [x \in Seq(R) \X (1 .. m) |-> x[1] \o s[x[2]]]
           Is(g) == g = [i \in 1 .. m |-> IF i = 1 THEN s[i] ELSE g[i - 1] \o s[i]]
<1>1. Len(s) = m /\ \A k \in 1 .. m : s[k] \in Seq(R)
  OBVIOUS
<1>2. PICK g : IsLoop(g, 1, m, s[1], body)
  <2> HIDE DEF body
  <2>1. 1 \in Int /\ m \in Int /\ 1 <= m
    OBVIOUS
  <2>2. \E g : IsLoop(g, 1, m, s[1], body)
    BY <2>1, LoopExists, Zenon
  <2> QED BY <2>2
<1>3. g[1] = s[1] /\ \A k \in 2 .. m : g[k] = body[<<g[k - 1], k>>]
  <2> HIDE DEF body
  <2>1. g = [k \in 1 .. m |-> IF k = 1 THEN s[1] ELSE body[<<g[k - 1], k>>]]
    BY <1>2 DEF IsLoop
  <2>2. 1 \in 1 .. m /\ \A k \in 2 .. m : k \in 1 .. m /\ k # 1
    OBVIOUS
  <2> QED BY <2>1, <2>2
<1>4. \A a \in Seq(R) : \A k \in 1 .. m : body[<<a, k>>] = a \o s[k] /\ a \o s[k] \in Seq(R)
  BY <1>1, ConcatProperties
<1> HIDE DEF body
<1>5. \A k \in 1 .. m : g[k] \in Seq(R)
  <2>1. g[1] \in Seq(R)
    BY <1>1, <1>3
  <2>2. \A k \in (1 + 1) .. m : g[k - 1] \in Seq(R) => g[k] \in Seq(R)
    <3> TAKE k \in (1 + 1) .. m
    <3>1. k \in 2 .. m /\ k \in 1 .. m
      OBVIOUS
    <3>2. g[k] = body[<<g[k - 1], k>>]
      BY <1>3, <3>1
    <3>3. g[k - 1] \in Seq(R) => body[<<g[k - 1], k>>] \in Seq(R)
      BY <1>4, <3>1
    <3> QED BY <3>2, <3>3
  <2>3. 1 \in Int /\ m \in Int
    OBVIOUS
  <2> QED BY <2>1, <2>2, <2>3, LoopInvariant
<1>6. \A k \in 2 .. m : g[k] = g[k - 1] \o s[k]
  <2> TAKE k \in 2 .. m
  <2>1. k - 1 \in 1 .. m /\ k \in 1 .. m
    OBVIOUS
  <2> QED BY <1>3, <1>4, <1>5, <2>1
<1>7. Is(g)
  <2>1. g = [i \in 1 .. m |-> g[i]]
    BY <1>2 DEF IsLoop
  <2>2. \A i \in 1 .. m : g[i] = IF i = 1 THEN s[i] ELSE g[i - 1] \o s[i]
    <3> TAKE i \in 1 .. m
    <3>1. i = 1 \/ i \in 2 .. m
      OBVIOUS
    <3> QED BY <1>3, <1>6, <3>1
  <2> QED BY <2>1, <2>2
<1> DEFINE h == CHOOSE f : Is(f)
<1>8. Is(h)
  BY <1>7
<1>9. FlattenSeq(s) = h[m]
  BY <1>1 DEF FlattenSeq
<1> HIDE DEF h
<1>10. h[1] = s[1] /\ \A k \in 2 .. m : h[k] = h[k - 1] \o s[k]
  <2>1. 1 \in 1 .. m /\ \A k \in 2 .. m : k \in 1 .. m /\ k # 1
    OBVIOUS
  <2> QED BY <1>8, <2>1
<1>11. \A k \in 1 .. m : h[k] \in Seq(R)
  <2>1. h[1] \in Seq(R)
    BY <1>1, <1>10
  <2>2. \A k \in (1 + 1) .. m : h[k - 1] \in Seq(R) => h[k] \in Seq(R)
    <3> TAKE k \in (1 + 1) .. m
    <3>1. k \in 2 .. m /\ s[k] \in Seq(R)
      BY <1>1
    <3> QED BY <1>10, <3>1, ConcatProperties
  <2>3. 1 \in Int /\ m \in Int
    OBVIOUS
  <2> QED BY <2>1, <2>2, <2>3, LoopInvariant
<1> QED BY <1>9, <1>10, <1>11 DEF Joins

\* AllPurchases, of any map of purchases.
AllOf(es) ==
  LET order == Ascending(DOMAIN es)
  IN  FlattenSeq([i \in DOMAIN order |-> es[order[i]]])

LEMMA AllLaidOut ==
  ASSUME NEW R, NEW es, IsFiniteSet(DOMAIN es), DOMAIN es \subseteq Nat,
         \A b \in DOMAIN es : es[b] \in Seq(R)
  PROVE  AllOf(es) \in Seq(R) /\ \E pos : Layout(AllOf(es), es, DOMAIN es, pos)
<1> DEFINE D == DOMAIN es
           m == Cardinality(D)
           order == Ascending(D)
           s == [i \in 1 .. m |-> es[order[i]]]
           Upto(n) == {order[i] : i \in 1 .. n}
<1>1. /\ m \in Nat /\ order \in [1 .. m -> D] /\ Increasing(order, m)
      /\ \A x \in D : \E i \in 1 .. m : order[i] = x
  BY AscendingFacts
<1>2. AllOf(es) = FlattenSeq(s)
  <2>1. DOMAIN order = 1 .. m
    BY <1>1
  <2> QED BY <2>1 DEF AllOf
<1> HIDE DEF order
<1>3. s \in [1 .. m -> Seq(R)] /\ \A i \in 1 .. m : s[i] = es[order[i]]
  BY <1>1
<1>4. CASE m = 0
  <2>1. D = {}
    BY <1>4, FS_EmptySet
  <2>2. Len(s) = 0 /\ s = << >>
    BY <1>3, <1>4
  <2>3. AllOf(es) = << >>
    BY <1>2, <2>2 DEF FlattenSeq
  <2>4. Layout(<< >>, es, DOMAIN es, [b \in D |-> 0])
    BY <2>1 DEF Layout
  <2> QED BY <2>3, <2>4
<1>5. CASE m > 0
  <2> HIDE DEF s
  <2>1. PICK g : /\ FlattenSeq(s) = g[m] /\ g[1] = s[1]
                 /\ \A k \in 2 .. m : g[k] = g[k - 1] \o s[k]
                 /\ \A k \in 1 .. m : g[k] \in Seq(R)
    <3>1. \E g : Joins(g, s, m, R)
      <4>1. m \in Nat /\ m > 0 /\ s \in [1 .. m -> Seq(R)]
        BY <1>1, <1>3, <1>5
      <4> HIDE DEF m
      <4> QED BY <4>1, FlattenLoop
    <3> QED BY <3>1 DEF Joins
  <2> DEFINE Laid == {k \in 1 .. m : \E p : Layout(g[k], es, Upto(k), p)}
  <2>2. 1 \in Laid
    <3>1. order[1] \in Nat /\ es[order[1]] \in Seq(R) /\ g[1] = es[order[1]]
      BY <1>1, <1>3, <1>5, <2>1
    <3>2. Upto(1) = {order[1]}
      OBVIOUS
    <3>3. \E p : Layout(es[order[1]], es, {order[1]}, p)
      BY <3>1, LayoutFirst
    <3>4. 1 \in 1 .. m
      BY <1>1, <1>5
    <3>5. \E p : Layout(g[1], es, Upto(1), p)
      <4> HIDE DEF Upto
      <4> QED BY <3>1, <3>2, <3>3
    <3> HIDE DEF Upto
    <3> QED BY <3>4, <3>5
  <2>3. ASSUME NEW k \in 2 .. m, k - 1 \in Laid PROVE k \in Laid
    <3>1. PICK p : Layout(g[k - 1], es, Upto(k - 1), p)
      BY <2>3
    <3>2. k - 1 \in 1 .. m /\ k \in 1 .. m /\ g[k - 1] \in Seq(R)
      BY <1>1, <2>1
    <3>3. order[k] \in Nat /\ es[order[k]] \in Seq(R) /\ g[k] = g[k - 1] \o es[order[k]]
      BY <1>1, <1>3, <2>1, <3>2
    <3>4. Upto(k - 1) \subseteq Nat /\ \A b \in Upto(k - 1) : es[b] \in Seq(R) /\ b < order[k]
      <4> SUFFICES ASSUME NEW i \in 1 .. (k - 1)
                   PROVE  order[i] \in Nat /\ es[order[i]] \in Seq(R) /\ order[i] < order[k]
        OBVIOUS
      <4>1. i \in 1 .. m /\ i < k
        BY <1>1
      <4> QED BY <1>1, <3>2, <4>1 DEF Increasing
    <3>5. Upto(k) = Upto(k - 1) \cup {order[k]}
      <4>1. \A i : i \in 1 .. k <=> i \in 1 .. (k - 1) \/ i = k
        BY <1>1
      <4> QED BY <4>1
    <3> HIDE DEF Upto
    <3>6. \E q : Layout(g[k - 1] \o es[order[k]], es, Upto(k - 1) \cup {order[k]}, q)
      BY <3>1, <3>2, <3>3, <3>4, LayoutExtends
    <3> QED BY <3>2, <3>3, <3>5, <3>6
  <2>4. m \in Laid
    <3> DEFINE id == [k \in 1 .. m |-> k]
    <3>1. id[1] \in Laid /\ \A k \in (1 + 1) .. m : id[k - 1] \in Laid => id[k] \in Laid
      <4> HIDE DEF Laid
      <4>1. \A k \in (1 + 1) .. m : id[k - 1] = k - 1 /\ id[k] = k
        BY <1>1
      <4>2. id[1] = 1
        BY <1>1, <1>5
      <4> QED BY <2>2, <2>3, <4>1, <4>2
    <3> HIDE DEF id, Laid
    <3>2. \A k \in 1 .. m : id[k] \in Laid
      <4>1. 1 \in Int /\ m \in Int
        BY <1>1
      <4> HIDE <1>1
      <4> QED BY <3>1, <4>1, LoopInvariant
    <3> QED BY <1>1, <1>5, <3>2 DEF id
  <2>5. Upto(m) = D
    BY <1>1
  <2>6. m \in 1 .. m
    BY <1>1, <1>5
  <2> QED BY <1>2, <2>1, <2>4, <2>5, <2>6
<1> QED BY <1>1, <1>4, <1>5

-----------------------------------------------------------------------------
(* Sums along the purchases.                                                *)

LEMMA SumOne ==
  ASSUME NEW f, NEW x, f[x] \in Int
  PROVE  SumFunctionOnSet(f, {x}) = f[x]
<1>1. IsFiniteSet({x}) /\ {x} \ {x} = {} /\ \A y \in {x} : f[y] \in Int
  BY FS_Singleton
<1>2. SumFunctionOnSet(f, {x}) = f[x] + SumFunctionOnSet(f, {x} \ {x})
  BY <1>1, SumSplit
<1> QED BY <1>1, <1>2, SumEmpty

\* A stretch of a longer row.
Shifted(u, w, p, c) == \A k \in 1 .. c : u[k] \in Int /\ u[k] = w[p + k]

LEMMA SumShift ==
  ASSUME NEW w, NEW u, NEW p \in Nat, NEW c \in Nat, Shifted(u, w, p, c)
  PROVE  SumFunctionOnSet(w, (p + 1) .. (p + c)) = SumFunctionOnSet(u, 1 .. c)
<1> DEFINE I == 1 .. c
           H == (p + 1) .. (p + c)
           a == [k \in I |-> p + k]
<1>1. IsFiniteSet(I) /\ IsFiniteSet(H)
  BY FS_Interval
<1>2. \A h \in H : w[h] = SumFunctionOnSet(u, Fiber(I, a, h))
  <2> TAKE h \in H
  <2>1. h - p \in 1 .. c /\ p + (h - p) = h
    OBVIOUS
  <2>2. Fiber(I, a, h) = {h - p}
    <3>1. \A k \in I : a[k] = h <=> k = h - p
      OBVIOUS
    <3> HIDE DEF a
    <3> QED BY <2>1, <3>1 DEF Fiber
  <2>3. u[h - p] \in Int /\ u[h - p] = w[h]
    BY <2>1 DEF Shifted
  <2> QED BY <2>2, <2>3, SumOne
<1>3. FiberOver(I, a, H) = I
  <2>1. \A k \in I : a[k] \in H
    OBVIOUS
  <2> HIDE DEF a, H
  <2> QED BY <2>1 DEF FiberOver
<1>4. \A k \in I : u[k] \in Int
  BY DEF Shifted
<1> HIDE DEF I, H, a
<1>5. SumFunctionOnSet(w, H) = SumFunctionOnSet(u, FiberOver(I, a, H))
  BY <1>1, <1>2, <1>4, SumFibers
<1> QED BY <1>3, <1>5 DEF I, H

LaidOut(all, es, D, pos) ==
  /\ D \subseteq Nat /\ IsFiniteSet(D) /\ Len(all) \in Nat
  /\ \A b \in D : Len(es[b]) \in Nat
  /\ Layout(all, es, D, pos)

\* How many of the purchases of b are among the first q of all.
Cut(es, pos, q, b) ==
  IF q <= pos[b] THEN 0
  ELSE IF pos[b] + Len(es[b]) <= q THEN Len(es[b]) ELSE q - pos[b]

LEMMA LayoutUnique ==
  ASSUME NEW all, NEW es, NEW D, NEW pos, LaidOut(all, es, D, pos),
         NEW b \in D, NEW c \in D, NEW k \in 1 .. Len(es[b]), NEW j \in 1 .. Len(es[c]),
         pos[b] + k = pos[c] + j
  PROVE  b = c /\ k = j
<1>1. /\ pos[b] \in Nat /\ pos[c] \in Nat /\ Len(es[b]) \in Nat /\ Len(es[c]) \in Nat
      /\ b \in Nat /\ c \in Nat
      /\ b < c => pos[b] + Len(es[b]) <= pos[c]
      /\ c < b => pos[c] + Len(es[c]) <= pos[b]
  BY DEF Layout, LaidOut
<1>2. b = c
  BY <1>1, SMTT(30)
<1> QED BY <1>1, <1>2

CutsAt(es, pos, q, b) ==
  LET c == Cut(es, pos, q, b)
  IN  /\ pos[b] \in Nat /\ c \in Nat /\ Len(es[b]) \in Nat /\ c <= Len(es[b])
      /\ \A k \in 1 .. Len(es[b]) : pos[b] + k <= q <=> k <= c

LEMMA CutFacts ==
  ASSUME NEW all, NEW es, NEW D, NEW pos, LaidOut(all, es, D, pos),
         NEW q \in Nat, NEW b \in D
  PROVE  CutsAt(es, pos, q, b)
<1>1. pos[b] \in Nat /\ Len(es[b]) \in Nat
  BY DEF Layout, LaidOut
<1> QED BY <1>1 DEF Cut, CutsAt

\* The place of one of b's purchases.
IsPlaceOf(es, pos, b, i) == \E k \in 1 .. Len(es[b]) : i = pos[b] + k

Places(es, pos, q, b) == {i \in 1 .. q : IsPlaceOf(es, pos, b, i)}

LEMMA PlacesOf ==
  ASSUME NEW all, NEW es, NEW D, NEW pos, LaidOut(all, es, D, pos),
         NEW q \in Nat, NEW b \in D
  PROVE  Places(es, pos, q, b) = (pos[b] + 1) .. (pos[b] + Cut(es, pos, q, b))
<1> DEFINE c == Cut(es, pos, q, b)
<1>0. CutsAt(es, pos, q, b)
  BY CutFacts
<1>1. /\ pos[b] \in Nat /\ c \in Nat /\ Len(es[b]) \in Nat /\ c <= Len(es[b])
      /\ \A k \in 1 .. Len(es[b]) : pos[b] + k <= q <=> k <= c
  BY <1>0 DEF CutsAt
<1> HIDE DEF c
<1>2. ASSUME NEW i \in 1 .. q, NEW k \in 1 .. Len(es[b]), i = pos[b] + k
      PROVE  i \in (pos[b] + 1) .. (pos[b] + c)
  BY <1>1, <1>2
<1>3. ASSUME NEW i \in (pos[b] + 1) .. (pos[b] + c)
      PROVE  i \in 1 .. q /\ i - pos[b] \in 1 .. Len(es[b]) /\ i = pos[b] + (i - pos[b])
  <2>1. i - pos[b] \in 1 .. Len(es[b]) /\ i = pos[b] + (i - pos[b]) /\ i - pos[b] <= c
    BY <1>1
  <2>2. pos[b] + (i - pos[b]) <= q
    BY <1>1, <2>1
  <2> QED BY <1>1, <2>1, <2>2
<1> QED BY <1>2, <1>3 DEF c, IsPlaceOf, Places

\* Every place among the first q belongs to one buyer.
LEMMA OwnersOf ==
  ASSUME NEW all, NEW es, NEW D, NEW pos, LaidOut(all, es, D, pos),
         NEW q \in Nat, q <= Len(all)
  PROVE  \E a : \A i \in 1 .. q : /\ a[i] \in D
                                 /\ \A b \in D : IsPlaceOf(es, pos, b, i) <=> a[i] = b
<1> DEFINE a == [i \in 1 .. q |-> CHOOSE b \in D : IsPlaceOf(es, pos, b, i)]
<1>1. ASSUME NEW i \in 1 .. q
      PROVE  a[i] \in D /\ \A b \in D : IsPlaceOf(es, pos, b, i) <=> a[i] = b
  <2>1. i \in 1 .. Len(all)
    BY DEF LaidOut
  <2>2. \E b \in D : IsPlaceOf(es, pos, b, i)
    BY <2>1 DEF Layout, LaidOut, IsPlaceOf
  <2>3. ASSUME NEW b \in D, NEW c \in D, IsPlaceOf(es, pos, b, i), IsPlaceOf(es, pos, c, i)
        PROVE  b = c
    <3>1. PICK k \in 1 .. Len(es[b]) : i = pos[b] + k
      BY <2>3 DEF IsPlaceOf
    <3>2. PICK j \in 1 .. Len(es[c]) : i = pos[c] + j
      BY <2>3 DEF IsPlaceOf
    <3>3. pos[b] + k = pos[c] + j
      BY <3>1, <3>2
    <3> QED BY <3>3, LayoutUnique
  <2> QED BY <2>2, <2>3
<1> QED BY <1>1

\* s[b] adds up, in v[b], what w holds of b among the first q of all.
Summands(es, D, pos, q, w, v, s) ==
  /\ \A i \in 1 .. q : w[i] \in Int
  /\ \A b \in D : /\ \A k \in 1 .. Len(es[b]) : pos[b] + k <= q => v[b][k] = w[pos[b] + k]
                  /\ s[b] = SumFunctionOnSet(v[b], 1 .. Cut(es, pos, q, b))

\* Adding up the first q of all is adding up what is among them of every buyer.
LEMMA PrefixSum ==
  ASSUME NEW all, NEW es, NEW D, NEW pos, LaidOut(all, es, D, pos),
         NEW q \in Nat, q <= Len(all), NEW w, NEW v, NEW s,
         Summands(es, D, pos, q, w, v, s)
  PROVE  SumFunctionOnSet(w, 1 .. q) = SumFunctionOnSet(s, D)
<1> DEFINE I == 1 .. q
<1>1. PICK a : \A i \in I : /\ a[i] \in D
                            /\ \A b \in D : IsPlaceOf(es, pos, b, i) <=> a[i] = b
  BY OwnersOf
<1>3. \A b \in D : s[b] = SumFunctionOnSet(w, Fiber(I, a, b))
  <2> TAKE b \in D
  <2> DEFINE c == Cut(es, pos, q, b)
             u == v[b]
  <2>0. CutsAt(es, pos, q, b)
    BY CutFacts
  <2>1. /\ pos[b] \in Nat /\ c \in Nat /\ Len(es[b]) \in Nat /\ c <= Len(es[b])
        /\ \A k \in 1 .. Len(es[b]) : pos[b] + k <= q <=> k <= c
    BY <2>0 DEF CutsAt
  <2>2. Fiber(I, a, b) = (pos[b] + 1) .. (pos[b] + c)
    <3>1. Fiber(I, a, b) = Places(es, pos, q, b)
      BY <1>1 DEF Fiber, Places
    <3>2. Places(es, pos, q, b) = (pos[b] + 1) .. (pos[b] + Cut(es, pos, q, b))
      BY PlacesOf
    <3> QED BY <3>1, <3>2 DEF c
  <2> HIDE DEF c
  <2>3. Shifted(u, w, pos[b], c)
    <3> SUFFICES ASSUME NEW k \in 1 .. c PROVE u[k] \in Int /\ u[k] = w[pos[b] + k]
      BY DEF Shifted
    <3>1. k \in 1 .. Len(es[b]) /\ k <= c
      BY <2>1
    <3>2. pos[b] + k <= q
      BY <2>1, <3>1
    <3>3. u[k] = w[pos[b] + k]
      BY <3>1, <3>2 DEF Summands
    <3>4. pos[b] + k \in 1 .. q
      BY <2>1, <3>1, <3>2
    <3> QED BY <3>3, <3>4 DEF Summands
  <2>4. s[b] = SumFunctionOnSet(u, 1 .. c)
    BY DEF c, Summands
  <2> HIDE DEF u
  <2>5. SumFunctionOnSet(w, (pos[b] + 1) .. (pos[b] + c)) = SumFunctionOnSet(u, 1 .. c)
    BY <2>1, <2>3, SumShift
  <2> QED BY <2>2, <2>4, <2>5
<1>4. IsFiniteSet(I) /\ FiberOver(I, a, D) = I
  <2>1. IsFiniteSet(I)
    BY FS_Interval
  <2>2. \A i \in I : a[i] \in D
    BY <1>1
  <2> HIDE DEF I
  <2> QED BY <2>1, <2>2 DEF FiberOver
<1>5. \A i \in I : w[i] \in Int
  BY DEF Summands
<1>6. IsFiniteSet(D)
  BY DEF LaidOut
<1> HIDE DEF I
<1>7. SumFunctionOnSet(s, D) = SumFunctionOnSet(w, FiberOver(I, a, D))
  BY <1>3, <1>4, <1>5, <1>6, SumFibers
<1> QED BY <1>4, <1>7 DEF I

-----------------------------------------------------------------------------
(* The inductive invariant, over the entries of PURCHASES rather than over  *)
(* the flattened list.                                                      *)

Entry(es, b) == IF b \in DOMAIN es THEN es[b] ELSE << >>

PurchaseRecord == [token : Tokens, tax : Nat, fees : Nat, purchaser : Buyers]

SaleRecord ==
  [on : BOOLEAN, expiration : Nat, price : Nat, min : Nat, max : Nat,
   sold : Nat, toSend : Nat, transferred : Nat]

\* The entries of a buyer name that buyer.
Entries(es) ==
  /\ DOMAIN es \subseteq Buyers
  /\ \A b \in DOMAIN es :
       /\ es[b] \in Seq(PurchaseRecord)
       /\ \A k \in 1 .. Len(es[b]) : es[b][k].purchaser = b

TypeOK ==
  /\ now \in Nat
  /\ sale \in SaleRecord
  /\ numberAvailable \in Nat
  /\ available \subseteq Tokens
  /\ Entries(purchases)
  /\ owner \in [Tokens -> Int]
  /\ held \in Nat /\ stuck \in Nat
  /\ refunded \in [Buyers -> Nat]

\* Each purchase has a token of S to itself.
TokensKept(es, S) ==
  \A b, c \in DOMAIN es : \A k \in 1 .. Len(es[b]), j \in 1 .. Len(es[c]) :
    /\ es[b][k].token \in S
    /\ es[b][k].token = es[c][j].token => b = c /\ k = j

\* The number of purchases, their taxes and royalties, and what refunding all
\* of them takes.
CountOf(es) == SumFunctionOnSet([b \in Buyers |-> Len(Entry(es, b))], Buyers)
FeesOf(es) == SumFunctionOnSet([b \in Buyers |-> SumFees(Entry(es, b))], Buyers)
DebtOf(es, price) ==
  SumFunctionOnSet([b \in Buyers |-> price * Len(Entry(es, b)) + SumTax(Entry(es, b))], Buyers)

Kept ==
  /\ available \subseteq Held
  /\ ~Refunding => TokensKept(purchases, Held \ available)
  /\ ~sale.on => \A b \in DOMAIN purchases : purchases[b] = << >>

Counted ==
  /\ CountMatches
  /\ sale.on /\ ~Refunding => CountOf(purchases) = sale.sold - sale.transferred

\* Until the sale is over, sending the funds and paying the fees costs what
\* refunding everyone does.
Owed ==
  /\ held = stuck + IF Refunding THEN DebtOf(purchases, sale.price)
                                 ELSE sale.toSend + FeesOf(purchases)
  /\ sale.on /\ ~SaleOver => sale.toSend + FeesOf(purchases) = DebtOf(purchases, sale.price)
  /\ ~sale.on => sale.toSend = 0

IInv == TypeOK /\ Kept /\ Counted /\ Owed

-----------------------------------------------------------------------------
(* Taxes and fees of a sequence of purchases.                               *)

FeesIn(ps) == [i \in DOMAIN ps |-> ps[i].fees]
TaxIn(ps) == [i \in DOMAIN ps |-> ps[i].tax]

LEMMA RowsOf ==
  ASSUME NEW ps \in Seq(PurchaseRecord)
  PROVE  /\ Len(ps) \in Nat /\ DOMAIN ps = 1 .. Len(ps)
         /\ \A i \in 1 .. Len(ps) :
              /\ ps[i] \in PurchaseRecord
              /\ FeesIn(ps)[i] = ps[i].fees /\ ps[i].fees \in Nat
              /\ TaxIn(ps)[i] = ps[i].tax /\ ps[i].tax \in Nat
         /\ SumFees(ps) = SumFunctionOnSet(FeesIn(ps), 1 .. Len(ps))
         /\ SumTax(ps) = SumFunctionOnSet(TaxIn(ps), 1 .. Len(ps))
<1>1. Len(ps) \in Nat /\ DOMAIN ps = 1 .. Len(ps) /\ ps \in [1 .. Len(ps) -> PurchaseRecord]
  BY LenProperties
<1>2. \A i \in 1 .. Len(ps) : ps[i] \in PurchaseRecord
  BY <1>1
<1>3. \A r \in PurchaseRecord : r.fees \in Nat /\ r.tax \in Nat
  BY DEF PurchaseRecord
<1>4. DOMAIN FeesIn(ps) = 1 .. Len(ps) /\ DOMAIN TaxIn(ps) = 1 .. Len(ps)
  BY <1>1 DEF FeesIn, TaxIn
<1>5. SumFees(ps) = SumFunction(FeesIn(ps)) /\ SumTax(ps) = SumFunction(TaxIn(ps))
  BY DEF SumFees, SumTax, FeesIn, TaxIn
<1>6. SumFees(ps) = SumFunctionOnSet(FeesIn(ps), 1 .. Len(ps))
      /\ SumTax(ps) = SumFunctionOnSet(TaxIn(ps), 1 .. Len(ps))
  BY <1>4, <1>5 DEF SumFunction
<1>7. \A i \in 1 .. Len(ps) : FeesIn(ps)[i] = ps[i].fees /\ TaxIn(ps)[i] = ps[i].tax
  BY <1>1 DEF FeesIn, TaxIn
<1> QED BY <1>1, <1>2, <1>3, <1>6, <1>7

LEMMA RowSumsNat ==
  ASSUME NEW ps \in Seq(PurchaseRecord)
  PROVE  /\ SumFees(ps) \in Nat /\ SumTax(ps) \in Nat
         /\ Len(ps) = 0 => SumFees(ps) = 0 /\ SumTax(ps) = 0
<1>1. /\ Len(ps) \in Nat
      /\ \A i \in 1 .. Len(ps) : FeesIn(ps)[i] \in Nat /\ TaxIn(ps)[i] \in Nat
      /\ SumFees(ps) = SumFunctionOnSet(FeesIn(ps), 1 .. Len(ps))
      /\ SumTax(ps) = SumFunctionOnSet(TaxIn(ps), 1 .. Len(ps))
  BY RowsOf
<1>2. IsFiniteSet(1 .. Len(ps))
  BY <1>1, FS_Interval
<1>3. SumFees(ps) \in Nat /\ SumTax(ps) \in Nat
  BY <1>1, <1>2, SumNat
<1>4. ASSUME Len(ps) = 0 PROVE SumFees(ps) = 0 /\ SumTax(ps) = 0
  <2>1. 1 .. Len(ps) = {}
    BY <1>4
  <2> QED BY <1>1, <2>1, SumEmpty
<1> QED BY <1>3, <1>4

\* Two rows behind each other.
Joined(u, m, v, n, w) ==
  /\ \A i \in 1 .. (m + n) : w[i] \in Int
  /\ \A i \in 1 .. m : u[i] = w[i]
  /\ \A i \in 1 .. n : v[i] = w[m + i]

LEMMA SumConcat ==
  ASSUME NEW m \in Nat, NEW n \in Nat, NEW u, NEW v, NEW w, Joined(u, m, v, n, w)
  PROVE  SumFunctionOnSet(w, 1 .. (m + n))
           = SumFunctionOnSet(u, 1 .. m) + SumFunctionOnSet(v, 1 .. n)
<1> DEFINE S == 1 .. (m + n)
           R == 1 .. m
<1>1. IsFiniteSet(S) /\ R \in SUBSET S /\ S \ R = (m + 1) .. (m + n)
  <2>1. 1 \in Int /\ m + n \in Int
    OBVIOUS
  <2>2. IsFiniteSet(S)
    BY <2>1, FS_Interval
  <2>3. R \in SUBSET S /\ S \ R = (m + 1) .. (m + n)
    OBVIOUS
  <2> QED BY <2>2, <2>3
<1>0. IsFiniteSet(R)
  BY <1>1, FS_Subset
<1>2. \A i \in S : w[i] \in Int
  BY DEF Joined
<1>3. \A i \in R : w[i] \in Int /\ w[i] = u[i]
  <2>1. R \subseteq S
    OBVIOUS
  <2> QED BY <1>2, <2>1 DEF Joined
<1>4. Shifted(v, w, m, n)
  <2> SUFFICES ASSUME NEW i \in 1 .. n PROVE v[i] \in Int /\ v[i] = w[m + i]
    BY DEF Shifted
  <2>1. m + i \in 1 .. (m + n)
    OBVIOUS
  <2> QED BY <2>1 DEF Joined
<1>5. SumFunctionOnSet(w, (m + 1) .. (m + n)) = SumFunctionOnSet(v, 1 .. n)
  BY <1>4, SumShift
<1> HIDE DEF S, R
<1>6. SumFunctionOnSet(w, S) = SumFunctionOnSet(w, R) + SumFunctionOnSet(w, S \ R)
  BY <1>1, <1>2, SumPartition
<1>7. SumFunctionOnSet(w, R) = SumFunctionOnSet(u, R)
  BY <1>0, <1>3, SumCongruence
<1> QED BY <1>1, <1>5, <1>6, <1>7 DEF S, R

LEMMA RowsConcat ==
  ASSUME NEW s \in Seq(PurchaseRecord), NEW t \in Seq(PurchaseRecord)
  PROVE  /\ s \o t \in Seq(PurchaseRecord) /\ Len(s \o t) = Len(s) + Len(t)
         /\ SumFees(s \o t) = SumFees(s) + SumFees(t)
         /\ SumTax(s \o t) = SumTax(s) + SumTax(t)
<1> DEFINE c == s \o t
           m == Len(s)
           n == Len(t)
<1>1. c \in Seq(PurchaseRecord) /\ Len(c) = m + n /\ m \in Nat /\ n \in Nat
  BY ConcatProperties, LenProperties
<1>2. \A i \in 1 .. (m + n) : c[i] = IF i <= m THEN s[i] ELSE t[i - m]
  BY ConcatProperties
<1> HIDE DEF c
<1>3. /\ \A i \in 1 .. m : i \in 1 .. (m + n) /\ c[i] = s[i]
      /\ \A i \in 1 .. n : m + i \in 1 .. (m + n) /\ c[m + i] = t[i]
  <2>1. \A i \in 1 .. m : i \in 1 .. (m + n) /\ i <= m
    BY <1>1
  <2>2. \A i \in 1 .. n : m + i \in 1 .. (m + n) /\ ~(m + i <= m) /\ (m + i) - m = i
    BY <1>1
  <2> HIDE DEF m, n
  <2>3. \A i \in 1 .. n : c[m + i] = t[i]
    <3> TAKE i \in 1 .. n
    <3> QED BY <1>2, <2>2
  <2> QED BY <1>2, <2>1, <2>2, <2>3
<1>4. /\ \A i \in 1 .. (m + n) : FeesIn(c)[i] = c[i].fees /\ c[i].fees \in Nat
                                 /\ TaxIn(c)[i] = c[i].tax /\ c[i].tax \in Nat
      /\ SumFees(c) = SumFunctionOnSet(FeesIn(c), 1 .. (m + n))
      /\ SumTax(c) = SumFunctionOnSet(TaxIn(c), 1 .. (m + n))
  BY <1>1, RowsOf
<1>5. /\ \A i \in 1 .. m : FeesIn(s)[i] = s[i].fees /\ TaxIn(s)[i] = s[i].tax
      /\ SumFees(s) = SumFunctionOnSet(FeesIn(s), 1 .. m)
      /\ SumTax(s) = SumFunctionOnSet(TaxIn(s), 1 .. m)
  BY RowsOf
<1>6. /\ \A i \in 1 .. n : FeesIn(t)[i] = t[i].fees /\ TaxIn(t)[i] = t[i].tax
      /\ SumFees(t) = SumFunctionOnSet(FeesIn(t), 1 .. n)
      /\ SumTax(t) = SumFunctionOnSet(TaxIn(t), 1 .. n)
  BY RowsOf
<1> HIDE DEF m, n
<1>7. Joined(FeesIn(s), m, FeesIn(t), n, FeesIn(c))
  BY <1>3, <1>4, <1>5, <1>6 DEF Joined
<1>8. Joined(TaxIn(s), m, TaxIn(t), n, TaxIn(c))
  BY <1>3, <1>4, <1>5, <1>6 DEF Joined
<1>9. SumFees(c) = SumFees(s) + SumFees(t)
  <2>1. SumFunctionOnSet(FeesIn(c), 1 .. (m + n))
          = SumFunctionOnSet(FeesIn(s), 1 .. m) + SumFunctionOnSet(FeesIn(t), 1 .. n)
    BY <1>1, <1>7, SumConcat
  <2> QED BY <1>4, <1>5, <1>6, <2>1
<1>10. SumTax(c) = SumTax(s) + SumTax(t)
  <2>1. SumFunctionOnSet(TaxIn(c), 1 .. (m + n))
          = SumFunctionOnSet(TaxIn(s), 1 .. m) + SumFunctionOnSet(TaxIn(t), 1 .. n)
    BY <1>1, <1>8, SumConcat
  <2> QED BY <1>4, <1>5, <1>6, <2>1
<1> QED BY <1>1, <1>9, <1>10 DEF c, m, n

\* Purchases that ask the same.
LEMMA RowsAlike ==
  ASSUME NEW s \in Seq(PurchaseRecord), NEW x \in Nat, NEW y \in Nat,
         \A i \in 1 .. Len(s) : s[i].fees = x /\ s[i].tax = y
  PROVE  SumFees(s) = x * Len(s) /\ SumTax(s) = y * Len(s)
<1> DEFINE I == 1 .. Len(s)
<1>1. /\ Len(s) \in Nat
      /\ \A i \in I : FeesIn(s)[i] = x /\ TaxIn(s)[i] = y
      /\ SumFees(s) = SumFunctionOnSet(FeesIn(s), I)
      /\ SumTax(s) = SumFunctionOnSet(TaxIn(s), I)
  BY RowsOf
<1>2. IsFiniteSet(I) /\ Cardinality(I) = Len(s)
  <2>1. 1 \in Int /\ Len(s) \in Int /\ (IF 1 > Len(s) THEN 0 ELSE Len(s) - 1 + 1) = Len(s)
    BY <1>1
  <2> QED BY <2>1, FS_Interval
<1> HIDE DEF I
<1>3. /\ \A i \in I : FeesIn(s)[i] = IF i \in I THEN x ELSE 0
      /\ \A i \in I : TaxIn(s)[i] = IF i \in I THEN y ELSE 0
      /\ x \in Int /\ y \in Int /\ I \subseteq I
  BY <1>1
<1>4. SumFunctionOnSet(FeesIn(s), I) = x * Cardinality(I)
  BY <1>2, <1>3, SumIndicator
<1>5. SumFunctionOnSet(TaxIn(s), I) = y * Cardinality(I)
  BY <1>2, <1>3, SumIndicator
<1> QED BY <1>1, <1>2, <1>4, <1>5

\* What is left when the first c purchases are cut off.
LEMMA RowsCut ==
  ASSUME NEW s \in Seq(PurchaseRecord), NEW c \in Nat, c <= Len(s)
  PROVE  LET h == SubSeq(s, 1, c)
             r == SubSeq(s, c + 1, Len(s))
         IN  /\ h \in Seq(PurchaseRecord) /\ Len(h) = c
             /\ \A k \in 1 .. c : h[k] = s[k]
             /\ r \in Seq(PurchaseRecord) /\ Len(r) = Len(s) - c
             /\ \A k \in 1 .. Len(r) : r[k] = s[c + k] /\ c + k \in 1 .. Len(s)
             /\ SumFees(r) = SumFees(s) - SumFees(h)
             /\ SumTax(r) = SumTax(s) - SumTax(h)
<1> DEFINE h == SubSeq(s, 1, c)
           r == SubSeq(s, c + 1, Len(s))
           n == Len(s)
<1>1. n \in Nat /\ \A k \in 1 .. n : s[k] \in PurchaseRecord
  BY RowsOf
<1>2. h \in Seq(PurchaseRecord) /\ Len(h) = c /\ \A k \in 1 .. c : h[k] = s[k]
  <2>1. \A k \in 1 .. c : s[k] \in PurchaseRecord
    BY <1>1
  <2>2. /\ SubSeq(s, 1, c) \in Seq(PurchaseRecord)
        /\ Len(SubSeq(s, 1, c)) = (IF 1 <= c THEN c - 1 + 1 ELSE 0)
        /\ \A k \in 1 .. (c - 1 + 1) : SubSeq(s, 1, c)[k] = s[1 + k - 1]
    BY <2>1, SubSeqProperties
  <2>3. \A k \in 1 .. c : k \in 1 .. (c - 1 + 1) /\ 1 + k - 1 = k
    OBVIOUS
  <2> QED BY <2>2, <2>3
<1>3. /\ r \in Seq(PurchaseRecord) /\ Len(r) = n - c
      /\ \A k \in 1 .. (n - c) : r[k] = s[c + k] /\ c + k \in 1 .. n
  <2>1. \A k \in (c + 1) .. n : s[k] \in PurchaseRecord
    BY <1>1
  <2>2. /\ SubSeq(s, c + 1, n) \in Seq(PurchaseRecord)
        /\ Len(SubSeq(s, c + 1, n)) = (IF c + 1 <= n THEN n - (c + 1) + 1 ELSE 0)
        /\ \A k \in 1 .. (n - (c + 1) + 1) : SubSeq(s, c + 1, n)[k] = s[(c + 1) + k - 1]
    BY <1>1, <2>1, SubSeqProperties
  <2>3. \A k \in 1 .. (n - c) : /\ k \in 1 .. (n - (c + 1) + 1) /\ (c + 1) + k - 1 = c + k
                                /\ c + k \in 1 .. n
    BY <1>1
  <2>4. (IF c + 1 <= n THEN n - (c + 1) + 1 ELSE 0) = n - c
    BY <1>1
  <2> QED BY <2>2, <2>3, <2>4
<1>4. s = h \o r
  <2>1. SubSeq(s, 1, c) \o SubSeq(s, c + 1, n) = SubSeq(s, 1, n)
    <3>1. 1 \in 1 .. (Len(s) + 1) /\ c \in (1 - 1) .. Len(s) /\ Len(s) \in c .. Len(s)
      BY <1>1
    <3> QED BY <3>1, ConcatAdjacentSubSeq
  <2> QED BY <2>1, SubSeqFull
<1> HIDE DEF h, r
<1>5. SumFees(s) = SumFees(h) + SumFees(r) /\ SumTax(s) = SumTax(h) + SumTax(r)
  BY <1>2, <1>3, <1>4, RowsConcat
<1>6. SumFees(h) \in Nat /\ SumFees(r) \in Nat /\ SumTax(h) \in Nat /\ SumTax(r) \in Nat
  BY <1>2, <1>3, RowSumsNat
<1>7. SumFees(r) = SumFees(s) - SumFees(h) /\ SumTax(r) = SumTax(s) - SumTax(h)
  BY <1>5, <1>6
<1> QED BY <1>2, <1>3, <1>7 DEF h, r

-----------------------------------------------------------------------------
(* The books of a map of purchases.                                         *)

Owes(es, price) == [b \in Buyers |-> price * Len(Entry(es, b)) + SumTax(Entry(es, b))]
Fees(es) == [b \in Buyers |-> SumFees(Entry(es, b))]
Counts(es) == [b \in Buyers |-> Len(Entry(es, b))]

LEMMA BuyersFinite == IsFiniteSet(Buyers) /\ Buyers \subseteq Nat
BY CrowdfundAssumption

LEMMA EntryFacts ==
  ASSUME NEW es, Entries(es), NEW b \in Buyers, NEW price \in Nat
  PROVE  /\ Entry(es, b) \in Seq(PurchaseRecord)
         /\ \A k \in 1 .. Len(Entry(es, b)) : Entry(es, b)[k].purchaser = b
         /\ Len(Entry(es, b)) \in Nat /\ SumFees(Entry(es, b)) \in Nat
         /\ SumTax(Entry(es, b)) \in Nat
         /\ Counts(es)[b] = Len(Entry(es, b)) /\ Fees(es)[b] = SumFees(Entry(es, b))
         /\ Owes(es, price)[b] = price * Len(Entry(es, b)) + SumTax(Entry(es, b))
         /\ Owes(es, price)[b] \in Nat
         /\ Len(Entry(es, b)) = 0 => Counts(es)[b] = 0 /\ Fees(es)[b] = 0 /\ Owes(es, price)[b] = 0
<1>1. /\ Entry(es, b) \in Seq(PurchaseRecord)
      /\ \A k \in 1 .. Len(Entry(es, b)) : Entry(es, b)[k].purchaser = b
  <2>1. CASE b \in DOMAIN es
    BY <2>1 DEF Entry, Entries
  <2>2. CASE b \notin DOMAIN es
    BY <2>2, EmptySeq DEF Entry
  <2> QED BY <2>1, <2>2
<1> DEFINE ps == Entry(es, b)
<1>2. ps \in Seq(PurchaseRecord)
  BY <1>1
<1>3. Len(ps) \in Nat /\ SumFees(ps) \in Nat /\ SumTax(ps) \in Nat
      /\ (Len(ps) = 0 => SumFees(ps) = 0 /\ SumTax(ps) = 0)
  <2> HIDE DEF ps
  <2> QED BY <1>2, RowSumsNat, LenProperties
<1>4. Counts(es)[b] = Len(ps) /\ Fees(es)[b] = SumFees(ps)
      /\ Owes(es, price)[b] = price * Len(ps) + SumTax(ps)
  BY DEF Counts, Fees, Owes
<1> HIDE DEF ps
<1>5. price * Len(ps) + SumTax(ps) \in Nat
  BY <1>3
<1>6. Len(ps) = 0 => price * Len(ps) + SumTax(ps) = 0
  BY <1>3
<1> QED BY <1>1, <1>3, <1>4, <1>5, <1>6 DEF ps

LEMMA BooksNat ==
  ASSUME NEW es, Entries(es), NEW price \in Nat
  PROVE  /\ CountOf(es) = SumFunctionOnSet(Counts(es), Buyers) /\ CountOf(es) \in Nat
         /\ FeesOf(es) = SumFunctionOnSet(Fees(es), Buyers) /\ FeesOf(es) \in Nat
         /\ DebtOf(es, price) = SumFunctionOnSet(Owes(es, price), Buyers)
         /\ DebtOf(es, price) \in Nat
         /\ \A b \in Buyers : Counts(es)[b] <= CountOf(es)
<1>1. /\ CountOf(es) = SumFunctionOnSet(Counts(es), Buyers)
      /\ FeesOf(es) = SumFunctionOnSet(Fees(es), Buyers)
      /\ DebtOf(es, price) = SumFunctionOnSet(Owes(es, price), Buyers)
  BY DEF CountOf, FeesOf, DebtOf, Counts, Fees, Owes
<1>2. \A b \in Buyers : Counts(es)[b] \in Nat /\ Fees(es)[b] \in Nat /\ Owes(es, price)[b] \in Nat
  BY EntryFacts
<1> QED BY <1>1, <1>2, BuyersFinite, SumNat

\* Books without a purchase.
LEMMA BooksEmpty ==
  ASSUME NEW es, Entries(es), NEW price \in Nat
  PROVE  (CountOf(es) = 0 <=> \A b \in Buyers : Entry(es, b) = << >>)
         /\ (CountOf(es) = 0 => FeesOf(es) = 0 /\ DebtOf(es, price) = 0)
<1>1. /\ CountOf(es) = SumFunctionOnSet(Counts(es), Buyers) /\ CountOf(es) \in Nat
      /\ FeesOf(es) = SumFunctionOnSet(Fees(es), Buyers)
      /\ DebtOf(es, price) = SumFunctionOnSet(Owes(es, price), Buyers)
      /\ \A b \in Buyers : Counts(es)[b] <= CountOf(es)
  BY BooksNat
<1>2. \A b \in Buyers :
        /\ Entry(es, b) \in Seq(PurchaseRecord) /\ Len(Entry(es, b)) \in Nat
        /\ Counts(es)[b] = Len(Entry(es, b))
        /\ Len(Entry(es, b)) = 0 => Counts(es)[b] = 0 /\ Fees(es)[b] = 0 /\ Owes(es, price)[b] = 0
  BY EntryFacts
<1>3. \A b \in Buyers : Len(Entry(es, b)) = 0 <=> Entry(es, b) = << >>
  BY <1>2, EmptySeq
<1>4. ASSUME CountOf(es) = 0 PROVE \A b \in Buyers : Len(Entry(es, b)) = 0
  BY <1>1, <1>2, <1>4
<1>5. ASSUME \A b \in Buyers : Len(Entry(es, b)) = 0
      PROVE  CountOf(es) = 0 /\ FeesOf(es) = 0 /\ DebtOf(es, price) = 0
  <2>1. \A b \in Buyers : Counts(es)[b] = 0 /\ Fees(es)[b] = 0 /\ Owes(es, price)[b] = 0
    BY <1>2, <1>5
  <2> QED BY <1>1, <2>1, BuyersFinite, SumZero
<1> QED BY <1>3, <1>4, <1>5

\* One entry changes.
LEMMA BooksChange ==
  ASSUME NEW es, Entries(es), NEW new, Entries(new), NEW price \in Nat, NEW b \in Buyers,
         \A c \in Buyers \ {b} : Entry(new, c) = Entry(es, c)
  PROVE  /\ CountOf(new) = CountOf(es) - Len(Entry(es, b)) + Len(Entry(new, b))
         /\ FeesOf(new) = FeesOf(es) - SumFees(Entry(es, b)) + SumFees(Entry(new, b))
         /\ DebtOf(new, price) = DebtOf(es, price) - Owes(es, price)[b] + Owes(new, price)[b]
<1>1. \A c \in Buyers :
        /\ Counts(es)[c] \in Int /\ Counts(new)[c] \in Int
        /\ Fees(es)[c] \in Int /\ Fees(new)[c] \in Int
        /\ Owes(es, price)[c] \in Int /\ Owes(new, price)[c] \in Int
        /\ Counts(es)[c] = Len(Entry(es, c)) /\ Fees(es)[c] = SumFees(Entry(es, c))
        /\ Counts(new)[c] = Len(Entry(new, c)) /\ Fees(new)[c] = SumFees(Entry(new, c))
        /\ Owes(es, price)[c] = price * Len(Entry(es, c)) + SumTax(Entry(es, c))
        /\ Owes(new, price)[c] = price * Len(Entry(new, c)) + SumTax(Entry(new, c))
  <2> TAKE c \in Buyers
  <2>1. /\ Len(Entry(es, c)) \in Nat /\ SumFees(Entry(es, c)) \in Nat
        /\ Counts(es)[c] = Len(Entry(es, c)) /\ Fees(es)[c] = SumFees(Entry(es, c))
        /\ Owes(es, price)[c] = price * Len(Entry(es, c)) + SumTax(Entry(es, c))
        /\ Owes(es, price)[c] \in Nat
    BY EntryFacts
  <2>2. /\ Len(Entry(new, c)) \in Nat /\ SumFees(Entry(new, c)) \in Nat
        /\ Counts(new)[c] = Len(Entry(new, c)) /\ Fees(new)[c] = SumFees(Entry(new, c))
        /\ Owes(new, price)[c] = price * Len(Entry(new, c)) + SumTax(Entry(new, c))
        /\ Owes(new, price)[c] \in Nat
    BY EntryFacts
  <2>3. \A x \in Nat : x \in Int
    OBVIOUS
  <2> QED BY <2>1, <2>2, <2>3
<1>2. /\ \A c \in Buyers \ {b} : Counts(new)[c] = Counts(es)[c]
      /\ \A c \in Buyers \ {b} : Fees(new)[c] = Fees(es)[c]
      /\ \A c \in Buyers \ {b} : Owes(new, price)[c] = Owes(es, price)[c]
  BY <1>1
<1>3. SumFunctionOnSet(Counts(new), Buyers)
        = SumFunctionOnSet(Counts(es), Buyers) - Counts(es)[b] + Counts(new)[b]
  <2> DEFINE f == Counts(es)
             g == Counts(new)
  <2>1. \A c \in Buyers : f[c] \in Int /\ g[c] \in Int
    BY <1>1
  <2>2. \A c \in Buyers \ {b} : g[c] = f[c]
    BY <1>2
  <2>3. IsFiniteSet(Buyers)
    BY BuyersFinite
  <2> HIDE DEF f, g
  <2>4. SumFunctionOnSet(g, Buyers) = SumFunctionOnSet(f, Buyers) - f[b] + g[b]
    BY <2>1, <2>2, <2>3, SumChange
  <2> QED BY <2>4 DEF f, g
<1>4. SumFunctionOnSet(Fees(new), Buyers)
        = SumFunctionOnSet(Fees(es), Buyers) - Fees(es)[b] + Fees(new)[b]
  <2> DEFINE f == Fees(es)
             g == Fees(new)
  <2>1. \A c \in Buyers : f[c] \in Int /\ g[c] \in Int
    BY <1>1
  <2>2. \A c \in Buyers \ {b} : g[c] = f[c]
    BY <1>2
  <2>3. IsFiniteSet(Buyers)
    BY BuyersFinite
  <2> HIDE DEF f, g
  <2>4. SumFunctionOnSet(g, Buyers) = SumFunctionOnSet(f, Buyers) - f[b] + g[b]
    BY <2>1, <2>2, <2>3, SumChange
  <2> QED BY <2>4 DEF f, g
<1>5. SumFunctionOnSet(Owes(new, price), Buyers)
        = SumFunctionOnSet(Owes(es, price), Buyers) - Owes(es, price)[b] + Owes(new, price)[b]
  <2> DEFINE f == Owes(es, price)
             g == Owes(new, price)
  <2>1. \A c \in Buyers : f[c] \in Int /\ g[c] \in Int
    BY <1>1
  <2>2. \A c \in Buyers \ {b} : g[c] = f[c]
    BY <1>2
  <2>3. IsFiniteSet(Buyers)
    BY BuyersFinite
  <2> HIDE DEF f, g
  <2>4. SumFunctionOnSet(g, Buyers) = SumFunctionOnSet(f, Buyers) - f[b] + g[b]
    BY <2>1, <2>2, <2>3, SumChange
  <2> QED BY <2>4 DEF f, g
<1> QED BY <1>1, <1>3, <1>4, <1>5, BooksNat

LEMMA SumWithin ==
  ASSUME NEW S, IsFiniteSet(S), NEW f, \A x \in S : f[x] \in Int, NEW D \in SUBSET S,
         \A x \in S \ D : f[x] = 0
  PROVE  SumFunctionOnSet(f, S) = SumFunctionOnSet(f, D)
<1>1. IsFiniteSet(D) /\ IsFiniteSet(S \ D)
  BY FS_Subset
<1>2. SumFunctionOnSet(f, S) = SumFunctionOnSet(f, D) + SumFunctionOnSet(f, S \ D)
  BY SumPartition
<1>3. SumFunctionOnSet(f, S \ D) = 0
  BY <1>1, SumZero
<1>4. SumFunctionOnSet(f, D) \in Int
  BY <1>1, SumSplit
<1> QED BY <1>2, <1>3, <1>4

\* What of each buyer is among the first q of all, and the fees of that.
CutIn(es, pos, q) == [b \in Buyers |-> IF b \in DOMAIN es THEN Cut(es, pos, q, b) ELSE 0]
HeadFees(es, pos, q) ==
  [b \in Buyers |-> SumFees(SubSeq(Entry(es, b), 1, CutIn(es, pos, q)[b]))]

LEMMA AllPlaced ==
  ASSUME NEW es, Entries(es)
  PROVE  /\ AllOf(es) \in Seq(PurchaseRecord)
         /\ \E pos : LaidOut(AllOf(es), es, DOMAIN es, pos)
<1>1. IsFiniteSet(DOMAIN es) /\ DOMAIN es \subseteq Nat
  BY BuyersFinite, FS_Subset DEF Entries
<1>2. \A b \in DOMAIN es : es[b] \in Seq(PurchaseRecord)
  BY DEF Entries
<1>3. AllOf(es) \in Seq(PurchaseRecord) /\ \E pos : Layout(AllOf(es), es, DOMAIN es, pos)
  BY <1>1, <1>2, AllLaidOut
<1>4. Len(AllOf(es)) \in Nat /\ \A b \in DOMAIN es : Len(es[b]) \in Nat
  BY <1>2, <1>3, LenProperties
<1> QED BY <1>1, <1>3, <1>4 DEF LaidOut

\* An entry is cut in two.
CutSplits(es, pos, q, b) ==
  LET c == CutIn(es, pos, q)[b]
      s == Entry(es, b)
      h == SubSeq(s, 1, c)
      r == SubSeq(s, c + 1, Len(s))
  IN  /\ c \in Nat /\ c <= Len(s) /\ Len(s) \in Nat
      /\ h \in Seq(PurchaseRecord) /\ Len(h) = c
      /\ \A k \in 1 .. c : h[k] = s[k]
      /\ r \in Seq(PurchaseRecord) /\ Len(r) = Len(s) - c
      /\ \A k \in 1 .. Len(r) : r[k] = s[c + k] /\ c + k \in 1 .. Len(s)
      /\ SumFees(r) = SumFees(s) - SumFees(h)
      /\ SumTax(r) = SumTax(s) - SumTax(h)
      /\ HeadFees(es, pos, q)[b] = SumFees(h) /\ SumFees(h) \in Nat
      /\ SumTax(h) \in Nat

LEMMA CutInFacts ==
  ASSUME NEW es, Entries(es), NEW all, NEW pos, LaidOut(all, es, DOMAIN es, pos),
         NEW q \in Nat, NEW b \in Buyers
  PROVE  CutSplits(es, pos, q, b)
<1> DEFINE c == CutIn(es, pos, q)[b]
           s == Entry(es, b)
           h == SubSeq(s, 1, c)
           r == SubSeq(s, c + 1, Len(s))
<1>1. s \in Seq(PurchaseRecord) /\ Len(s) \in Nat
  BY EntryFacts
<1>2. c \in Nat /\ c <= Len(s)
  <2>1. CASE b \in DOMAIN es
    <3>1. CutsAt(es, pos, q, b) /\ s = es[b] /\ c = Cut(es, pos, q, b)
      BY <2>1, CutFacts DEF CutIn, Entry
    <3> HIDE DEF c, s
    <3> QED BY <3>1 DEF CutsAt
  <2>2. CASE b \notin DOMAIN es
    <3>1. c = 0
      BY <2>2 DEF CutIn
    <3> HIDE DEF c, s
    <3> QED BY <1>1, <3>1
  <2> QED BY <2>1, <2>2
<1>3. HeadFees(es, pos, q)[b] = SumFees(h)
  BY DEF HeadFees
<1> HIDE DEF c, s
<1>4. /\ h \in Seq(PurchaseRecord) /\ Len(h) = c
      /\ \A k \in 1 .. c : h[k] = s[k]
      /\ r \in Seq(PurchaseRecord) /\ Len(r) = Len(s) - c
      /\ \A k \in 1 .. Len(r) : r[k] = s[c + k] /\ c + k \in 1 .. Len(s)
      /\ SumFees(r) = SumFees(s) - SumFees(h)
      /\ SumTax(r) = SumTax(s) - SumTax(h)
  BY <1>1, <1>2, RowsCut
<1> HIDE DEF h, r
<1>5. SumFees(h) \in Nat /\ SumTax(h) \in Nat
  BY <1>4, RowSumsNat
<1> QED BY <1>1, <1>2, <1>3, <1>4, <1>5 DEF c, s, h, r, CutSplits

LEMMA PrefixBooks ==
  ASSUME NEW es, Entries(es), NEW all \in Seq(PurchaseRecord), NEW pos,
         LaidOut(all, es, DOMAIN es, pos), NEW q \in Nat, q <= Len(all)
  PROVE  /\ q = SumFunctionOnSet(CutIn(es, pos, q), Buyers)
         /\ SumFees(SubSeq(all, 1, q)) = SumFunctionOnSet(HeadFees(es, pos, q), Buyers)
<1> DEFINE D == DOMAIN es
           cut == CutIn(es, pos, q)
           heads == HeadFees(es, pos, q)
           batch == SubSeq(all, 1, q)
<1>0. IsFiniteSet(Buyers) /\ D \in SUBSET Buyers
  BY BuyersFinite DEF Entries
<1>1. batch \in Seq(PurchaseRecord) /\ Len(batch) = q /\ \A i \in 1 .. q : batch[i] = all[i]
  BY RowsCut
<1>2. \A b \in D : /\ cut[b] = Cut(es, pos, q, b) /\ cut[b] \in Nat /\ cut[b] <= Len(es[b])
                   /\ SubSeq(es[b], 1, cut[b]) \in Seq(PurchaseRecord)
                   /\ Len(SubSeq(es[b], 1, cut[b])) = cut[b]
                   /\ \A k \in 1 .. cut[b] : SubSeq(es[b], 1, cut[b])[k] = es[b][k]
                   /\ heads[b] = SumFees(SubSeq(es[b], 1, cut[b]))
  <2> TAKE b \in D
  <2>1. b \in Buyers /\ Entry(es, b) = es[b] /\ cut[b] = Cut(es, pos, q, b)
    BY <1>0 DEF Entry, CutIn
  <2>2. CutSplits(es, pos, q, b)
    BY <2>1, CutInFacts
  <2> HIDE DEF cut, heads
  <2> QED BY <2>1, <2>2 DEF CutSplits, cut, heads
<1>3. \A b \in Buyers : cut[b] \in Int /\ heads[b] \in Int
                        /\ (b \notin D => cut[b] = 0 /\ heads[b] = 0)
  <2> TAKE b \in Buyers
  <2>0. CutSplits(es, pos, q, b)
    BY CutInFacts
  <2>1. cut[b] \in Nat /\ heads[b] \in Nat
    BY <2>0 DEF CutSplits
  <2>2. ASSUME b \notin D PROVE cut[b] = 0 /\ heads[b] = 0
    <3>1. cut[b] = 0
      BY <2>2 DEF CutIn
    <3>2. /\ SubSeq(Entry(es, b), 1, cut[b]) \in Seq(PurchaseRecord)
          /\ Len(SubSeq(Entry(es, b), 1, cut[b])) = cut[b]
          /\ heads[b] = SumFees(SubSeq(Entry(es, b), 1, cut[b]))
      BY <2>0 DEF CutSplits
    <3> QED BY <3>1, <3>2, RowSumsNat
  <2> QED BY <2>1, <2>2
<1>4. \A b \in D : CutsAt(es, pos, q, b) /\ \A k \in 1 .. Len(es[b]) : all[pos[b] + k] = es[b][k]
  BY CutFacts DEF LaidOut, Layout
<1> HIDE DEF cut, heads, batch
<1>5. q = SumFunctionOnSet(cut, Buyers)
  <2> DEFINE w == [i \in 1 .. q |-> 1]
             v == [b \in D |-> [k \in 1 .. Len(es[b]) |-> 1]]
  <2>1. SumFunctionOnSet(w, 1 .. q) = q
    <3>1. IsFiniteSet(1 .. q) /\ Cardinality(1 .. q) = q
      <4>1. 1 \in Int /\ q \in Int /\ (IF 1 > q THEN 0 ELSE q - 1 + 1) = q
        OBVIOUS
      <4> QED BY <4>1, FS_Interval
    <3>2. \A i \in 1 .. q : w[i] = 1
      OBVIOUS
    <3> HIDE DEF w
    <3> QED BY <3>1, <3>2, SumOnes
  <2>2. Summands(es, D, pos, q, w, v, cut)
    <3>1. \A i \in 1 .. q : w[i] \in Int /\ w[i] = 1
      OBVIOUS
    <3>2. \A b \in D : \A k \in 1 .. Len(es[b]) : v[b][k] = 1
      OBVIOUS
    <3> HIDE DEF w, v
    <3>3. ASSUME NEW b \in D, NEW k \in 1 .. Len(es[b]), pos[b] + k <= q
          PROVE  v[b][k] = w[pos[b] + k]
      <4>1. pos[b] + k \in 1 .. q
        BY <1>4, <3>3 DEF CutsAt
      <4> QED BY <3>1, <3>2, <4>1
    <3>4. ASSUME NEW b \in D PROVE cut[b] = SumFunctionOnSet(v[b], 1 .. cut[b])
      <4> DEFINE c == cut[b]
                 f == v[b]
      <4>1. c \in Nat /\ \A k \in 1 .. c : k \in 1 .. Len(es[b])
        BY <1>2, <1>4 DEF CutsAt
      <4>2. \A k \in 1 .. c : f[k] = 1
        BY <3>2, <4>1
      <4> HIDE DEF c, f
      <4>3. 1 \in Int /\ c \in Int /\ (IF 1 > c THEN 0 ELSE c - 1 + 1) = c
        BY <4>1
      <4>4. IsFiniteSet(1 .. c) /\ Cardinality(1 .. c) = c
        BY <4>3, FS_Interval
      <4>5. SumFunctionOnSet(f, 1 .. c) = c
        BY <4>2, <4>4, SumOnes
      <4> QED BY <4>5 DEF c, f
    <3> QED BY <1>2, <3>1, <3>3, <3>4 DEF Summands
  <2> HIDE DEF w, v
  <2>3. SumFunctionOnSet(w, 1 .. q) = SumFunctionOnSet(cut, D)
    BY <2>2, PrefixSum
  <2>4. \A b \in Buyers : cut[b] \in Int
    BY <1>3
  <2>5. \A b \in Buyers \ D : cut[b] = 0
    BY <1>3
  <2>6. SumFunctionOnSet(cut, Buyers) = SumFunctionOnSet(cut, D)
    <3> HIDE DEF D
    <3> QED BY <1>0, <2>4, <2>5, SumWithin
  <2> QED BY <2>1, <2>3, <2>6
<1>6. SumFees(batch) = SumFunctionOnSet(heads, Buyers)
  <2> DEFINE w == FeesIn(batch)
             v == [b \in D |-> FeesIn(SubSeq(es[b], 1, cut[b]))]
  <2>1. /\ SumFees(batch) = SumFunctionOnSet(w, 1 .. q)
        /\ \A i \in 1 .. q : w[i] = batch[i].fees /\ w[i] \in Nat
    BY <1>1, RowsOf
  <2>2. \A b \in D : /\ heads[b] = SumFunctionOnSet(v[b], 1 .. cut[b])
                     /\ \A k \in 1 .. cut[b] : v[b][k] = es[b][k].fees
    <3> TAKE b \in D
    <3> DEFINE h == SubSeq(es[b], 1, cut[b])
    <3>1. /\ h \in Seq(PurchaseRecord) /\ Len(h) = cut[b] /\ heads[b] = SumFees(h)
          /\ \A k \in 1 .. cut[b] : h[k] = es[b][k]
      BY <1>2
    <3>2. v[b] = FeesIn(h)
      OBVIOUS
    <3> HIDE DEF h, v
    <3> QED BY <3>1, <3>2, RowsOf
  <2> HIDE DEF w, v
  <2>3. Summands(es, D, pos, q, w, v, heads)
    <3>1. ASSUME NEW b \in D, NEW k \in 1 .. Len(es[b]), pos[b] + k <= q
          PROVE  v[b][k] = w[pos[b] + k]
      <4>1. pos[b] + k \in 1 .. q /\ k \in 1 .. cut[b] /\ all[pos[b] + k] = es[b][k]
        BY <1>2, <1>4, <3>1 DEF CutsAt
      <4> QED BY <1>1, <2>1, <2>2, <4>1
    <3> QED BY <1>2, <2>1, <2>2, <3>1 DEF Summands
  <2>4. SumFunctionOnSet(w, 1 .. q) = SumFunctionOnSet(heads, D)
    BY <2>3, PrefixSum
  <2>5. \A b \in Buyers : heads[b] \in Int
    BY <1>3
  <2>6. \A b \in Buyers \ D : heads[b] = 0
    BY <1>3
  <2>7. SumFunctionOnSet(heads, Buyers) = SumFunctionOnSet(heads, D)
    <3> HIDE DEF D
    <3> QED BY <1>0, <2>5, <2>6, SumWithin
  <2> QED BY <2>1, <2>4, <2>7
<1> QED BY <1>5, <1>6 DEF cut, heads, batch

\* All purchases are as many, and ask as much, as those of every buyer.
LEMMA AllBooks ==
  ASSUME NEW es, Entries(es)
  PROVE  Len(AllOf(es)) = CountOf(es) /\ SumFees(AllOf(es)) = FeesOf(es)
<1> DEFINE all == AllOf(es)
           q == Len(all)
<1>1. all \in Seq(PurchaseRecord) /\ q \in Nat
  BY AllPlaced, LenProperties
<1>2. PICK pos : LaidOut(all, es, DOMAIN es, pos)
  BY AllPlaced
<1> DEFINE cut == CutIn(es, pos, q)
           heads == HeadFees(es, pos, q)
<1> HIDE DEF all
<1>3. SubSeq(all, 1, q) = all
  BY <1>1, SubSeqFull
<1>4. q = SumFunctionOnSet(cut, Buyers) /\ SumFees(all) = SumFunctionOnSet(heads, Buyers)
  <2>1. q <= Len(all) /\ q \in Nat
    BY <1>1
  <2> HIDE DEF q
  <2>2. /\ q = SumFunctionOnSet(CutIn(es, pos, q), Buyers)
        /\ SumFees(SubSeq(all, 1, q)) = SumFunctionOnSet(HeadFees(es, pos, q), Buyers)
    BY <1>1, <1>2, <2>1, PrefixBooks
  <2> QED BY <1>3, <2>2
<1>5. \A b \in Buyers : /\ cut[b] \in Int /\ cut[b] = Counts(es)[b]
                        /\ heads[b] \in Int /\ heads[b] = Fees(es)[b]
  <2> TAKE b \in Buyers
  <2> DEFINE s == Entry(es, b)
  <2>1. CutSplits(es, pos, q, b)
    BY <1>1, <1>2, CutInFacts
  <2>2. s \in Seq(PurchaseRecord) /\ Len(s) \in Nat /\ Counts(es)[b] = Len(s) /\ Fees(es)[b] = SumFees(s)
    BY EntryFacts
  <2>3. cut[b] = Len(s)
    <3>1. CASE b \in DOMAIN es
      <4>1. /\ cut[b] = Cut(es, pos, q, b) /\ s = es[b]
            /\ pos[b] \in Nat /\ pos[b] + Len(es[b]) <= q
        BY <1>2, <3>1 DEF LaidOut, Layout, CutIn, Entry
      <4> HIDE DEF q, s, cut
      <4> QED BY <1>1, <2>2, <4>1 DEF Cut
    <3>2. CASE b \notin DOMAIN es
      <4>1. cut[b] = 0 /\ s = << >>
        BY <3>2 DEF CutIn, Entry
      <4> HIDE DEF s, cut
      <4> QED BY <4>1
    <3> QED BY <3>1, <3>2
  <2>4. heads[b] = SumFees(SubSeq(s, 1, Len(s))) /\ heads[b] \in Nat /\ cut[b] \in Nat
    <3> HIDE DEF q
    <3> QED BY <2>1, <2>3 DEF CutSplits
  <2>5. SubSeq(s, 1, Len(s)) = s
    BY <2>2, SubSeqFull
  <2>6. SumFees(s) = Fees(es)[b]
    BY <2>2
  <2>7. heads[b] = SumFees(s)
    BY <2>4, <2>5
  <2> HIDE DEF s, cut, heads
  <2> QED BY <2>2, <2>3, <2>4, <2>6, <2>7
<1>6. /\ CountOf(es) = SumFunctionOnSet(Counts(es), Buyers)
      /\ FeesOf(es) = SumFunctionOnSet(Fees(es), Buyers)
  BY DEF CountOf, FeesOf, Counts, Fees
<1>7. IsFiniteSet(Buyers)
  BY BuyersFinite
<1> HIDE DEF cut, heads
<1>8. SumFunctionOnSet(cut, Buyers) = SumFunctionOnSet(Counts(es), Buyers)
  BY <1>5, <1>7, SumCongruence
<1>9. SumFunctionOnSet(heads, Buyers) = SumFunctionOnSet(Fees(es), Buyers)
  BY <1>5, <1>7, SumCongruence
<1> QED BY <1>4, <1>6, <1>8, <1>9 DEF all

\* New books, with the first q of all purchases cut off.
IsCut(es, pos, q, new) ==
  \A b \in Buyers :
    Entry(new, b) = SubSeq(Entry(es, b), CutIn(es, pos, q)[b] + 1, Len(Entry(es, b)))

LEMMA BooksCut ==
  ASSUME NEW es, Entries(es), NEW new, Entries(new), NEW all \in Seq(PurchaseRecord), NEW pos,
         LaidOut(all, es, DOMAIN es, pos), NEW q \in Nat, q <= Len(all),
         IsCut(es, pos, q, new)
  PROVE  /\ CountOf(new) = CountOf(es) - q
         /\ FeesOf(new) = FeesOf(es) - SumFees(SubSeq(all, 1, q))
<1> DEFINE cut == CutIn(es, pos, q)
           heads == HeadFees(es, pos, q)
<1>1. q = SumFunctionOnSet(cut, Buyers)
      /\ SumFees(SubSeq(all, 1, q)) = SumFunctionOnSet(heads, Buyers)
  BY PrefixBooks
<1>2. \A b \in Buyers :
        /\ Counts(es)[b] \in Int /\ cut[b] \in Int /\ Counts(new)[b] = Counts(es)[b] - cut[b]
        /\ Fees(es)[b] \in Int /\ heads[b] \in Int /\ Fees(new)[b] = Fees(es)[b] - heads[b]
  <2> TAKE b \in Buyers
  <2>1. CutSplits(es, pos, q, b)
    BY CutInFacts
  <2>2. /\ Counts(es)[b] = Len(Entry(es, b)) /\ Fees(es)[b] = SumFees(Entry(es, b))
        /\ Len(Entry(es, b)) \in Nat /\ SumFees(Entry(es, b)) \in Nat
    BY EntryFacts
  <2>3. Counts(new)[b] = Len(Entry(new, b)) /\ Fees(new)[b] = SumFees(Entry(new, b))
    BY EntryFacts
  <2> DEFINE s == Entry(es, b)
             r == Entry(new, b)
             c == cut[b]
  <2>4. r = SubSeq(s, c + 1, Len(s))
    BY DEF IsCut
  <2>5. /\ c \in Nat /\ Len(r) = Len(s) - c /\ heads[b] \in Nat
        /\ SumFees(r) = SumFees(s) - heads[b]
    <3> HIDE DEF r
    <3> QED BY <2>1, <2>4 DEF CutSplits
  <2> HIDE DEF s, r, cut, heads
  <2> QED BY <2>2, <2>3, <2>5 DEF s, r
<1>3. /\ CountOf(es) = SumFunctionOnSet(Counts(es), Buyers)
      /\ FeesOf(es) = SumFunctionOnSet(Fees(es), Buyers)
      /\ CountOf(new) = SumFunctionOnSet(Counts(new), Buyers)
      /\ FeesOf(new) = SumFunctionOnSet(Fees(new), Buyers)
  BY DEF CountOf, FeesOf, Counts, Fees
<1>4. IsFiniteSet(Buyers)
  BY BuyersFinite
<1> HIDE DEF cut, heads
<1>5. SumFunctionOnSet(Counts(new), Buyers)
        = SumFunctionOnSet(Counts(es), Buyers) - SumFunctionOnSet(cut, Buyers)
  <2>1. \A b \in Buyers : /\ Counts(es)[b] \in Int /\ cut[b] \in Int
                          /\ Counts(new)[b] = Counts(es)[b] - cut[b]
    BY <1>2
  <2> QED BY <1>4, <2>1, SumDifference
<1>6. SumFunctionOnSet(Fees(new), Buyers)
        = SumFunctionOnSet(Fees(es), Buyers) - SumFunctionOnSet(heads, Buyers)
  <2>1. \A b \in Buyers : /\ Fees(es)[b] \in Int /\ heads[b] \in Int
                          /\ Fees(new)[b] = Fees(es)[b] - heads[b]
    BY <1>2
  <2> QED BY <1>4, <2>1, SumDifference
<1> QED BY <1>1, <1>3, <1>5, <1>6

-----------------------------------------------------------------------------
(* A batch of deliveries takes the first limit of all purchases.            *)

TakenOf(all, limit) == SubSeq(all, 1, IF limit + 1 < Len(all) THEN limit + 1 ELSE Len(all))
LastOf(all, limit) ==
  TakenOf(all, limit)[IF Len(TakenOf(all, limit)) = 1 THEN 1
                      ELSE Len(TakenOf(all, limit)) - 1].purchaser
RemovesLast(all, limit) ==
  LastOf(all, limit) # TakenOf(all, limit)[Len(TakenOf(all, limit))].purchaser
BatchOf(all, limit) ==
  IF Len(TakenOf(all, limit)) = limit + 1 THEN Front(TakenOf(all, limit)) ELSE TakenOf(all, limit)
RemovedOf(all, limit) ==
  {BatchOf(all, limit)[i].purchaser : i \in DOMAIN BatchOf(all, limit)}
    \ (IF RemovesLast(all, limit) THEN {} ELSE {LastOf(all, limit)})
DoneOf(all, limit) ==
  Cardinality({i \in DOMAIN BatchOf(all, limit) :
                 BatchOf(all, limit)[i].purchaser = LastOf(all, limit)})
AfterBatch(es, all, limit) ==
  [b \in DOMAIN es \ RemovedOf(all, limit) |->
     IF b = LastOf(all, limit) THEN SubSeq(es[b], DoneOf(all, limit) + 1, Len(es[b])) ELSE es[b]]

LEMMA DeliverFacts ==
  ASSUME NEW limit \in Limits, DeliverBatch(limit)
  PROVE  LET all == AllOf(purchases)
             batch == BatchOf(all, limit)
         IN  /\ all # << >>
             /\ \A i \in DOMAIN batch : owner[batch[i].token] = Contract
             /\ held >= SumFees(batch)
             /\ purchases' = AfterBatch(purchases, all, limit)
             /\ owner' = [t \in Tokens |->
                  IF \E i \in DOMAIN batch : batch[i].token = t
                  THEN batch[CHOOSE i \in DOMAIN batch : batch[i].token = t].purchaser
                  ELSE owner[t]]
             /\ sale' = [sale EXCEPT !.transferred = @ + Len(batch)]
             /\ held' = held - SumFees(batch)
             /\ UNCHANGED <<numberAvailable, available, refunded>>
<1>1. AllPurchases = AllOf(purchases)
  BY DEF AllPurchases, AllOf
<1> DEFINE all == AllOf(purchases)
<1> HIDE DEF all
<1>2. AllPurchases = all
  BY <1>1 DEF all
<1> DEFINE batch == BatchOf(all, limit)
<1>0. DeliverFirst(all, limit)
  BY <1>2 DEF DeliverBatch
<1>3. all # << >> /\ UNCHANGED <<numberAvailable, available, refunded>>
  BY <1>0 DEF DeliverFirst
<1>4. \A i \in DOMAIN batch : owner[batch[i].token] = Contract
  BY <1>0 DEF DeliverFirst, BatchOf, TakenOf
<1>5. held >= SumFees(batch) /\ held' = held - SumFees(batch)
      /\ sale' = [sale EXCEPT !.transferred = @ + Len(batch)]
  BY <1>0 DEF DeliverFirst, BatchOf, TakenOf
<1>6. purchases' = AfterBatch(purchases, all, limit)
  BY <1>0 DEF DeliverFirst, AfterBatch, DoneOf, RemovedOf, BatchOf, RemovesLast, LastOf, TakenOf
<1>7. owner' = [t \in Tokens |->
                  IF \E i \in DOMAIN batch : batch[i].token = t
                  THEN batch[CHOOSE i \in DOMAIN batch : batch[i].token = t].purchaser
                  ELSE owner[t]]
  BY <1>0 DEF DeliverFirst, BatchOf, TakenOf
<1> QED BY <1>3, <1>4, <1>5, <1>6, <1>7 DEF all

SizeOf(all, limit) == IF limit < Len(all) THEN limit ELSE Len(all)

\* The batch is a beginning of all purchases; if some are left, the purchase
\* that was read beside the batch is the next.
LEMMA BatchIsPrefix ==
  ASSUME NEW all \in Seq(PurchaseRecord), all # << >>, NEW limit \in Nat, limit > 0
  PROVE  /\ SizeOf(all, limit) \in 1 .. Len(all) /\ Len(all) \in Nat
         /\ BatchOf(all, limit) = SubSeq(all, 1, SizeOf(all, limit))
         /\ \E i \in 1 .. SizeOf(all, limit) : LastOf(all, limit) = all[i].purchaser
         /\ SizeOf(all, limit) < Len(all) =>
              /\ LastOf(all, limit) = all[SizeOf(all, limit)].purchaser
              /\ RemovesLast(all, limit) <=>
                   LastOf(all, limit) # all[SizeOf(all, limit) + 1].purchaser
<1> DEFINE m == Len(all)
           q == SizeOf(all, limit)
           n == IF limit + 1 < m THEN limit + 1 ELSE m
           taken == TakenOf(all, limit)
<1>1. m \in Nat /\ m > 0
  BY EmptySeq, LenProperties
<1>2. q \in 1 .. m /\ n \in 1 .. m /\ n \in Nat /\ n > 0 /\ q = IF limit < m THEN limit ELSE m
  BY <1>1 DEF SizeOf
<1>3. /\ taken \in Seq(PurchaseRecord) /\ Len(taken) = n /\ \A i \in 1 .. n : taken[i] = all[i]
      /\ taken = SubSeq(all, 1, n)
  <2>1. taken = SubSeq(all, 1, n) /\ n <= Len(all)
    BY <1>2 DEF TakenOf
  <2> HIDE DEF n
  <2> QED BY <1>2, <2>1, RowsCut
<1> HIDE DEF q, taken
<1>4. BatchOf(all, limit) = SubSeq(all, 1, q)
  <2>1. CASE n = limit + 1
    <3>1. BatchOf(all, limit) = Front(taken)
      BY <1>3, <2>1 DEF BatchOf, taken
    <3>2. q = n - 1 /\ q \in 1 .. (n - 1 + 1) /\ 1 \in 1 .. m /\ 1 \in 1 .. (n - 1 + 1)
      BY <1>1, <1>2, <2>1
    <3>3. Front(taken) = SubSeq(SubSeq(all, 1, n), 1, q)
      BY <1>3, <3>2 DEF Front
    <3> HIDE DEF n
    <3>4. SubSeq(SubSeq(all, 1, n), 1, q) = SubSeq(all, 1 + 1 - 1, 1 + q - 1)
      BY <1>2, <3>2, SubSeqOfSubSeq
    <3>5. 1 + 1 - 1 = 1 /\ 1 + q - 1 = q
      BY <1>2
    <3> QED BY <3>1, <3>3, <3>4, <3>5
  <2>2. CASE n # limit + 1
    <3>1. BatchOf(all, limit) = taken
      BY <1>3, <2>2 DEF BatchOf, taken
    <3>2. q = n
      BY <1>1, <1>2, <2>2
    <3> QED BY <1>3, <3>1, <3>2
  <2> QED BY <2>1, <2>2
<1> DEFINE k == IF n = 1 THEN 1 ELSE n - 1
<1>k. /\ k \in 1 .. n /\ k \in 1 .. q
      /\ q < m => k = q /\ n = q + 1
  <2>1. n = (IF limit + 1 < m THEN limit + 1 ELSE m) /\ k = IF n = 1 THEN 1 ELSE n - 1
    OBVIOUS
  <2> HIDE DEF n, k, m
  <2>2. CASE limit < m
    <3>1. n = limit + 1 /\ q = limit
      BY <1>1, <1>2, <2>1, <2>2
    <3> QED BY <1>1, <2>1, <3>1
  <2>3. CASE ~(limit < m)
    <3>1. n = m /\ q = m
      BY <1>1, <1>2, <2>1, <2>3
    <3> QED BY <1>1, <2>1, <3>1
  <2> QED BY <2>2, <2>3
<1>5. LastOf(all, limit) = all[k].purchaser
  <2>1. k \in 1 .. n
    BY <1>k
  <2>2. LastOf(all, limit) = taken[k].purchaser
    BY <1>3 DEF LastOf, taken
  <2> HIDE DEF n, k
  <2> QED BY <1>3, <2>1, <2>2
<1>6. RemovesLast(all, limit) <=> LastOf(all, limit) # all[n].purchaser
  <2>1. RemovesLast(all, limit) <=> LastOf(all, limit) # taken[n].purchaser
    BY <1>3 DEF RemovesLast, taken
  <2>2. n \in 1 .. n
    BY <1>2
  <2> HIDE DEF n
  <2> QED BY <1>3, <2>1, <2>2
<1> HIDE DEF k, n
<1> QED BY <1>1, <1>2, <1>4, <1>5, <1>6, <1>k DEF q

\* The purchaser stored with a purchase is the buyer it is stored for.
LEMMA PlacePurchaser ==
  ASSUME NEW es, Entries(es), NEW all, NEW pos, LaidOut(all, es, DOMAIN es, pos),
         NEW q \in Nat, q <= Len(all), NEW i \in 1 .. q
  PROVE  /\ all[i].purchaser \in DOMAIN es
         /\ \A b \in DOMAIN es : IsPlaceOf(es, pos, b, i) <=> all[i].purchaser = b
<1>1. PICK a : \A j \in 1 .. q : /\ a[j] \in DOMAIN es
                                 /\ \A b \in DOMAIN es : IsPlaceOf(es, pos, b, j) <=> a[j] = b
  BY OwnersOf
<1>2. IsPlaceOf(es, pos, a[i], i) /\ a[i] \in DOMAIN es
  BY <1>1
<1>3. PICK k \in 1 .. Len(es[a[i]]) : i = pos[a[i]] + k
  BY <1>2 DEF IsPlaceOf
<1>4. all[i] = es[a[i]][k] /\ es[a[i]][k].purchaser = a[i]
  BY <1>2, <1>3, ZenonT(60) DEF LaidOut, Layout, Entries
<1> QED BY <1>1, <1>2, <1>4

\* DeliverBatch takes from every entry what is in the batch.
LEMMA BatchCuts ==
  ASSUME NEW es, Entries(es), NEW all \in Seq(PurchaseRecord), NEW pos,
         LaidOut(all, es, DOMAIN es, pos), all # << >>, NEW limit \in Nat, limit > 0
  PROVE  IsCut(es, pos, SizeOf(all, limit), AfterBatch(es, all, limit))
<1> DEFINE m == Len(all)
           q == SizeOf(all, limit)
           batch == BatchOf(all, limit)
           last == LastOf(all, limit)
           removed == RemovedOf(all, limit)
           done == DoneOf(all, limit)
           new == AfterBatch(es, all, limit)
<1>1. /\ q \in 1 .. m /\ m \in Nat /\ batch = SubSeq(all, 1, q)
      /\ \E i \in 1 .. q : last = all[i].purchaser
      /\ q < m => /\ last = all[q].purchaser
                  /\ RemovesLast(all, limit) <=> last # all[q + 1].purchaser
  BY BatchIsPrefix
<1>2. q \in Nat /\ q <= Len(all)
  BY <1>1
<1> HIDE DEF q
<1>3. Len(batch) = q /\ DOMAIN batch = 1 .. q /\ \A i \in 1 .. q : batch[i] = all[i]
  <2>1. SubSeq(all, 1, q) \in Seq(PurchaseRecord) /\ Len(SubSeq(all, 1, q)) = q
        /\ \A i \in 1 .. q : SubSeq(all, 1, q)[i] = all[i]
    BY <1>2, RowsCut
  <2> QED BY <1>1, <2>1, LenProperties
<1>4. \A i \in 1 .. q : /\ all[i].purchaser \in DOMAIN es
                        /\ \A b \in DOMAIN es : IsPlaceOf(es, pos, b, i) <=> all[i].purchaser = b
  BY <1>2, PlacePurchaser
<1>5. last \in DOMAIN es
  BY <1>1, <1>4
<1>6. removed = {all[i].purchaser : i \in 1 .. q} \ (IF RemovesLast(all, limit) THEN {} ELSE {last})
  BY <1>3 DEF RemovedOf
<1>7. done = Cardinality(Places(es, pos, q, last))
  <2>1. {i \in DOMAIN batch : batch[i].purchaser = last} = Places(es, pos, q, last)
    BY <1>3, <1>4, <1>5 DEF Places
  <2> QED BY <2>1 DEF DoneOf
<1> HIDE DEF m, batch, last, removed, done
<1>8. ASSUME NEW b \in DOMAIN es
      PROVE  LET c == Cut(es, pos, q, b)
             IN  /\ pos[b] \in Nat /\ c \in Nat /\ c <= Len(es[b]) /\ Len(es[b]) \in Nat
                 /\ \A k \in 1 .. Len(es[b]) : pos[b] + k <= q <=> k <= c
                 /\ pos[b] + Len(es[b]) <= m
                 /\ (\E i \in 1 .. q : all[i].purchaser = b) <=> c > 0
                 /\ Cardinality(Places(es, pos, q, b)) = c
  <2> DEFINE c == Cut(es, pos, q, b)
  <2>1. /\ pos[b] \in Nat /\ c \in Nat /\ c <= Len(es[b]) /\ Len(es[b]) \in Nat
        /\ \A k \in 1 .. Len(es[b]) : pos[b] + k <= q <=> k <= c
    <3>1. CutsAt(es, pos, q, b)
      BY <1>2, CutFacts
    <3> QED BY <3>1 DEF CutsAt
  <2>2. Places(es, pos, q, b) = (pos[b] + 1) .. (pos[b] + c)
    BY <1>2, PlacesOf
  <2> HIDE DEF c
  <2>3. Cardinality((pos[b] + 1) .. (pos[b] + c)) = c
    <3> DEFINE x == pos[b] + 1
               y == pos[b] + c
    <3>1. x \in Int /\ y \in Int /\ (IF x > y THEN 0 ELSE y - x + 1) = c
      BY <2>1
    <3> HIDE DEF x, y
    <3>2. Cardinality(x .. y) = c
      BY <3>1, FS_Interval
    <3> QED BY <3>2 DEF x, y
  <2>4. (\E i \in 1 .. q : all[i].purchaser = b) <=> c > 0
    <3>1. ASSUME NEW i \in 1 .. q, all[i].purchaser = b PROVE c > 0
      <4>1. i \in Places(es, pos, q, b)
        BY <1>4, <3>1 DEF Places
      <4> QED BY <2>1, <2>2, <4>1
    <3>2. ASSUME c > 0 PROVE \E i \in 1 .. q : all[i].purchaser = b
      <4>1. pos[b] + 1 \in Places(es, pos, q, b)
        BY <2>1, <2>2, <3>2
      <4> QED BY <1>4, <4>1 DEF Places
    <3> QED BY <3>1, <3>2
  <2>5. pos[b] + Len(es[b]) <= m
    BY DEF LaidOut, Layout, m
  <2> QED BY <2>1, <2>2, <2>3, <2>4, <2>5 DEF c

\* An entry that is removed is delivered whole.
<1>9. ASSUME NEW b \in removed PROVE b \in DOMAIN es /\ Cut(es, pos, q, b) = Len(es[b])
  <2>0. b \in DOMAIN es /\ \E i \in 1 .. q : all[i].purchaser = b
    BY <1>4, <1>6
  <2> DEFINE c == Cut(es, pos, q, b)
  <2>1. /\ pos[b] \in Nat /\ c \in Nat /\ c <= Len(es[b]) /\ Len(es[b]) \in Nat /\ c > 0
        /\ \A k \in 1 .. Len(es[b]) : pos[b] + k <= q <=> k <= c
        /\ pos[b] + Len(es[b]) <= m
    BY <1>8, <2>0
  <2> HIDE DEF c
  <2>2. CASE q = m
    <3>1. Len(es[b]) \in 1 .. Len(es[b]) /\ pos[b] + Len(es[b]) <= q
      BY <2>1, <2>2
    <3>2. Len(es[b]) <= c
      BY <2>1, <3>1
    <3> QED BY <2>0, <2>1, <3>2 DEF c
  <2>3. CASE q # m
    <3>1. q < m /\ last = all[q].purchaser /\ q \in 1 .. q
          /\ (RemovesLast(all, limit) <=> last # all[q + 1].purchaser)
      BY <1>1, <2>3
    <3>2. PICK k \in 1 .. Len(es[last]) : q = pos[last] + k
      BY <1>4, <1>5, <3>1 DEF IsPlaceOf
    <3>3. CASE b = last
      <4>1. last # all[q + 1].purchaser
        BY <1>6, <3>1, <3>3
      <4>2. ~ (k + 1 \in 1 .. Len(es[last]))
        <5> SUFFICES ASSUME k + 1 \in 1 .. Len(es[last]) PROVE FALSE
          OBVIOUS
        <5>1. q + 1 = pos[last] + (k + 1)
          <6>1. pos[last] \in Nat /\ k \in Nat /\ q = pos[last] + k
            BY <2>1, <3>2, <3>3
          <6> QED BY <6>1
        <5>2. q + 1 \in Nat /\ q + 1 <= Len(all) /\ q + 1 \in 1 .. (q + 1)
          BY <1>1, <1>2, <3>1 DEF m
        <5>3. IsPlaceOf(es, pos, last, q + 1)
          BY <5>1 DEF IsPlaceOf
        <5>4. all[q + 1].purchaser = last
          BY <1>5, <5>2, <5>3, PlacePurchaser
        <5> QED BY <4>1, <5>4
      <4>3. k = Len(es[b])
        BY <2>1, <3>2, <3>3, <4>2
      <4>4. k <= c
        <5>1. k \in 1 .. Len(es[b]) /\ q = pos[b] + k
          BY <3>2, <3>3
        <5>2. pos[b] + k <= q
          BY <1>2, <5>1
        <5> QED BY <2>1, <5>1, <5>2
      <4> QED BY <2>0, <2>1, <4>3, <4>4 DEF c
    <3>4. CASE b # last
      <4>1. pos[last] \in Nat /\ Len(es[last]) \in Nat
        BY <1>5, <1>8
      <4>2. /\ b \in Nat /\ last \in Nat
            /\ b < last => pos[b] + Len(es[b]) <= pos[last]
            /\ last < b => pos[last] + Len(es[last]) <= pos[b]
        BY <1>5, <2>0 DEF LaidOut, Layout
      <4>3. pos[b] + 1 <= q
        BY <2>1
      <4>4. ~(last < b)
        BY <1>2, <2>1, <3>2, <4>1, <4>2, <4>3
      <4>5. pos[b] + Len(es[b]) <= pos[last]
        BY <3>4, <4>2, <4>4
      <4>6. pos[b] + Len(es[b]) <= q /\ Len(es[b]) \in 1 .. Len(es[b])
        BY <1>2, <2>1, <3>2, <4>1, <4>5, SMTT(30)
      <4>7. Len(es[b]) <= c
        BY <2>1, <4>6
      <4> QED BY <2>0, <2>1, <4>7 DEF c
    <3> QED BY <3>3, <3>4
  <2> QED BY <2>2, <2>3
<1>10. DOMAIN new = DOMAIN es \ removed
       /\ \A b \in DOMAIN es \ removed :
            new[b] = IF b = last THEN SubSeq(es[b], done + 1, Len(es[b])) ELSE es[b]
  BY DEF AfterBatch, removed, last, done
<1> HIDE DEF new
<1>11. ASSUME NEW b \in Buyers
       PROVE  Entry(new, b) = SubSeq(Entry(es, b), CutIn(es, pos, q)[b] + 1, Len(Entry(es, b)))
  <2>1. CASE b \notin DOMAIN es
    <3>1. CutIn(es, pos, q)[b] = 0 /\ Entry(es, b) = << >> /\ Entry(new, b) = << >>
      BY <1>10, <2>1 DEF CutIn, Entry
    <3>2. SubSeq(<< >>, 0 + 1, Len(<< >>)) = << >>
      BY SubSeqEmpty
    <3> QED BY <3>1, <3>2
  <2>2. CASE b \in DOMAIN es
    <3> DEFINE c == Cut(es, pos, q, b)
    <3>1. CutIn(es, pos, q)[b] = c /\ Entry(es, b) = es[b]
      BY <2>2 DEF CutIn, Entry
    <3>2. /\ c \in Nat /\ c <= Len(es[b]) /\ Len(es[b]) \in Nat
          /\ (\E i \in 1 .. q : all[i].purchaser = b) <=> c > 0
          /\ Cardinality(Places(es, pos, q, b)) = c
          /\ es[b] \in Seq(PurchaseRecord)
      BY <1>8, <2>2 DEF Entries
    <3>3. CASE b \in removed
      <4>1. c = Len(es[b]) /\ Entry(new, b) = << >>
        BY <1>9, <1>10, <3>3 DEF Entry
      <4>2. SubSeq(es[b], Len(es[b]) + 1, Len(es[b])) = << >>
        BY <3>2, SubSeqEmpty
      <4> QED BY <3>1, <4>1, <4>2
    <3>4. CASE b \notin removed /\ b = last
      <4>1. done = c
        BY <1>7, <3>2, <3>4
      <4>2. Entry(new, b) = SubSeq(es[b], done + 1, Len(es[b]))
        BY <1>10, <2>2, <3>4 DEF Entry
      <4> HIDE DEF c
      <4> QED BY <3>1, <4>1, <4>2
    <3>5. CASE b \notin removed /\ b # last
      <4>1. ~ \E i \in 1 .. q : all[i].purchaser = b
        BY <1>6, <3>5
      <4>2. c = 0
        BY <3>2, <4>1
      <4>3. Entry(new, b) = es[b]
        BY <1>10, <2>2, <3>5 DEF Entry
      <4>4. SubSeq(es[b], 0 + 1, Len(es[b])) = es[b]
        BY <3>2, SubSeqFull
      <4> QED BY <3>1, <4>2, <4>3, <4>4
    <3> QED BY <3>3, <3>4, <3>5
  <2> QED BY <2>1, <2>2
<1> QED BY <1>11 DEF IsCut, new, q

LEMMA EntriesCut ==
  ASSUME NEW es, Entries(es), NEW all, NEW pos, LaidOut(all, es, DOMAIN es, pos),
         NEW q \in Nat, NEW new, IsCut(es, pos, q, new), DOMAIN new \subseteq DOMAIN es
  PROVE  Entries(new)
<1>1. DOMAIN new \subseteq Buyers
  BY DEF Entries
<1>2. ASSUME NEW b \in DOMAIN new
      PROVE  new[b] \in Seq(PurchaseRecord) /\ \A k \in 1 .. Len(new[b]) : new[b][k].purchaser = b
  <2> DEFINE s == Entry(es, b)
             c == CutIn(es, pos, q)[b]
             r == SubSeq(s, c + 1, Len(s))
  <2>0. b \in Buyers
    BY <1>1
  <2>1. new[b] = r
    BY <2>0 DEF IsCut, Entry
  <2>2. CutSplits(es, pos, q, b)
    BY <2>0, CutInFacts
  <2>3. \A k \in 1 .. Len(s) : s[k].purchaser = b
    BY <2>0, EntryFacts
  <2>4. r \in Seq(PurchaseRecord) /\ \A k \in 1 .. Len(r) : r[k] = s[c + k] /\ c + k \in 1 .. Len(s)
    BY <2>2 DEF CutSplits
  <2> HIDE DEF s, c, r
  <2> QED BY <2>1, <2>3, <2>4
<1> QED BY <1>1, <1>2 DEF Entries

LEMMA PlaceOf ==
  ASSUME NEW es, NEW all, NEW pos, LaidOut(all, es, DOMAIN es, pos), NEW i \in 1 .. Len(all)
  PROVE  \E b, k : b \in DOMAIN es /\ k \in 1 .. Len(es[b]) /\ i = pos[b] + k /\ all[i] = es[b][k]
<1>1. PICK b \in DOMAIN es : \E k \in 1 .. Len(es[b]) : i = pos[b] + k
  BY DEF LaidOut, Layout
<1>2. PICK k \in 1 .. Len(es[b]) : i = pos[b] + k
  BY <1>1
<1>3. all[i] = es[b][k]
  BY <1>2 DEF LaidOut, Layout
<1> QED BY <1>2, <1>3

\* The tokens delivered are those of the purchases cut off.
LEMMA CutTokens ==
  ASSUME NEW es, Entries(es), NEW all, NEW pos, LaidOut(all, es, DOMAIN es, pos),
         NEW q \in Nat, q <= Len(all), NEW new, IsCut(es, pos, q, new),
         DOMAIN new \subseteq DOMAIN es, NEW S, TokensKept(es, S)
  PROVE  /\ \A i \in 1 .. q : all[i].token \in S
         /\ TokensKept(new, S \ {all[i].token : i \in 1 .. q})
<1>0. \A i \in 1 .. q : i \in 1 .. Len(all)
  BY DEF LaidOut
<1>1. ASSUME NEW i \in 1 .. q PROVE all[i].token \in S
  <2>0. i \in 1 .. Len(all)
    BY <1>0
  <2>1. PICK b, k : b \in DOMAIN es /\ k \in 1 .. Len(es[b]) /\ i = pos[b] + k /\ all[i] = es[b][k]
    BY <2>0, PlaceOf
  <2> QED BY <2>1 DEF TokensKept
<1>2. ASSUME NEW b \in DOMAIN new, NEW k \in 1 .. Len(new[b])
      PROVE  /\ b \in DOMAIN es /\ Cut(es, pos, q, b) \in Nat
             /\ Cut(es, pos, q, b) + k \in 1 .. Len(es[b])
             /\ new[b][k] = es[b][Cut(es, pos, q, b) + k]
             /\ ~(pos[b] + (Cut(es, pos, q, b) + k) <= q)
  <2> DEFINE c == Cut(es, pos, q, b)
             s == es[b]
             r == SubSeq(s, c + 1, Len(s))
  <2>1. b \in DOMAIN es /\ b \in Buyers
    BY DEF Entries
  <2>2. Entry(es, b) = s /\ CutIn(es, pos, q)[b] = c
    BY <2>1 DEF Entry, CutIn
  <2>3. new[b] = r
    BY <2>1, <2>2 DEF IsCut, Entry
  <2>4. CutSplits(es, pos, q, b)
    BY <2>1, CutInFacts
  <2>5. CutsAt(es, pos, q, b)
    BY <2>1, CutFacts
  <2> HIDE DEF s, c
  <2>6. c \in Nat /\ \A j \in 1 .. Len(r) : r[j] = s[c + j] /\ c + j \in 1 .. Len(s)
    BY <2>2, <2>4 DEF CutSplits
  <2>7. \A j \in 1 .. Len(s) : pos[b] + j <= q <=> j <= c
    BY <2>5 DEF CutsAt, c, s
  <2> HIDE DEF r
  <2>8. c + k \in 1 .. Len(s) /\ new[b][k] = s[c + k] /\ k \in Nat /\ k > 0
    <3>1. k \in 1 .. Len(r)
      BY <2>3
    <3> QED BY <2>3, <2>6, <3>1
  <2>9. ~(c + k <= c)
    BY <2>6, <2>8
  <2> QED BY <2>1, <2>6, <2>7, <2>8, <2>9 DEF s, c
<1>3. ASSUME NEW b \in DOMAIN new, NEW k \in 1 .. Len(new[b])
      PROVE  new[b][k].token \in S \ {all[i].token : i \in 1 .. q}
  <2> DEFINE n == Cut(es, pos, q, b) + k
  <2>1. /\ b \in DOMAIN es /\ n \in 1 .. Len(es[b]) /\ new[b][k] = es[b][n]
        /\ ~(pos[b] + n <= q)
    BY <1>2
  <2> HIDE DEF n
  <2>2. new[b][k].token \in S
    BY <2>1 DEF TokensKept
  <2>3. ASSUME NEW i \in 1 .. q, all[i].token = new[b][k].token PROVE FALSE
    <3>0. i \in 1 .. Len(all)
      BY <1>0
    <3>1. PICK c, j : c \in DOMAIN es /\ j \in 1 .. Len(es[c]) /\ i = pos[c] + j /\ all[i] = es[c][j]
      BY <3>0, PlaceOf
    <3>2. c = b /\ j = n
      BY <2>1, <2>3, <3>1 DEF TokensKept
    <3>3. i <= q
      OBVIOUS
    <3> QED BY <2>1, <3>1, <3>2, <3>3
  <2> QED BY <2>2, <2>3
<1>4. ASSUME NEW b \in DOMAIN new, NEW k \in 1 .. Len(new[b]),
             NEW c \in DOMAIN new, NEW j \in 1 .. Len(new[c]),
             new[b][k].token = new[c][j].token
      PROVE  b = c /\ k = j
  <2> DEFINE x == Cut(es, pos, q, b)
             y == Cut(es, pos, q, c)
  <2>1. b \in DOMAIN es /\ x \in Nat /\ x + k \in 1 .. Len(es[b]) /\ new[b][k] = es[b][x + k]
    BY <1>2
  <2>2. c \in DOMAIN es /\ y \in Nat /\ y + j \in 1 .. Len(es[c]) /\ new[c][j] = es[c][y + j]
    BY <1>2
  <2>3. b = c => x = y
    OBVIOUS
  <2> HIDE DEF x, y
  <2>4. b = c /\ x + k = y + j
    <3> DEFINE m == x + k
               n == y + j
    <3>1. m \in 1 .. Len(es[b]) /\ n \in 1 .. Len(es[c]) /\ es[b][m].token = es[c][n].token
      BY <1>4, <2>1, <2>2
    <3> HIDE DEF m, n
    <3>2. b = c /\ m = n
      BY <2>1, <2>2, <3>1 DEF TokensKept
    <3> QED BY <3>2 DEF m, n
  <2>5. k \in Int /\ j \in Int
    OBVIOUS
  <2> QED BY <2>1, <2>2, <2>3, <2>4, <2>5
<1>5. TokensKept(new, S \ {all[i].token : i \in 1 .. q})
  <2> DEFINE R == S \ {all[i].token : i \in 1 .. q}
  <2>1. \A b \in DOMAIN new : \A k \in 1 .. Len(new[b]) : new[b][k].token \in R
    BY <1>3
  <2> HIDE DEF R
  <2>2. TokensKept(new, R)
    BY <1>4, <2>1 DEF TokensKept
  <2> QED BY <2>2 DEF R
<1> QED BY <1>1, <1>5

\* The same, of all purchases behind each other.
LEMMA KeptInOrder ==
  ASSUME NEW es, Entries(es), NEW S, TokensKept(es, S)
  PROVE  \A i \in DOMAIN AllOf(es) :
           /\ AllOf(es)[i].token \in S
           /\ \A j \in DOMAIN AllOf(es) : AllOf(es)[j].token = AllOf(es)[i].token => i = j
<1> DEFINE all == AllOf(es)
<1>1. all \in Seq(PurchaseRecord) /\ DOMAIN all = 1 .. Len(all)
  BY AllPlaced, LenProperties
<1>2. PICK pos : LaidOut(all, es, DOMAIN es, pos)
  BY AllPlaced
<1> HIDE DEF all
<1>3. ASSUME NEW i \in 1 .. Len(all), NEW j \in 1 .. Len(all)
      PROVE  all[i].token \in S /\ (all[j].token = all[i].token => i = j)
  <2>1. PICK b, k : b \in DOMAIN es /\ k \in 1 .. Len(es[b]) /\ i = pos[b] + k /\ all[i] = es[b][k]
    BY <1>2, PlaceOf
  <2>2. PICK c, l : c \in DOMAIN es /\ l \in 1 .. Len(es[c]) /\ j = pos[c] + l /\ all[j] = es[c][l]
    BY <1>2, PlaceOf
  <2> QED BY <2>1, <2>2 DEF TokensKept
<1> QED BY <1>1, <1>3 DEF all

-----------------------------------------------------------------------------
(* The invariant holds and every action preserves it.                       *)

LEMMA NothingBought ==
  ASSUME NEW es, Entries(es), NEW price \in Nat
  PROVE  /\ (CountOf(es) = 0 <=> \A b \in DOMAIN es : es[b] = << >>)
         /\ CountOf(es) = 0 =>
              FeesOf(es) = 0 /\ DebtOf(es, price) = 0 /\ \A S : TokensKept(es, S)
<1>1. (CountOf(es) = 0 <=> \A b \in Buyers : Entry(es, b) = << >>)
      /\ (CountOf(es) = 0 => FeesOf(es) = 0 /\ DebtOf(es, price) = 0)
  BY BooksEmpty
<1>2. (\A b \in Buyers : Entry(es, b) = << >>) <=> \A b \in DOMAIN es : es[b] = << >>
  BY DEF Entry, Entries
<1>3. ASSUME \A b \in DOMAIN es : es[b] = << >>, NEW S PROVE TokensKept(es, S)
  <2>1. \A b \in DOMAIN es : 1 .. Len(es[b]) = {}
    BY <1>3
  <2> QED BY <2>1 DEF TokensKept
<1> QED BY <1>1, <1>2, <1>3

LEMMA SaleFacts ==
  ASSUME TypeOK
  PROVE  /\ sale.on \in BOOLEAN /\ sale.expiration \in Nat /\ sale.price \in Nat
         /\ sale.min \in Nat /\ sale.max \in Nat /\ sale.sold \in Nat
         /\ sale.toSend \in Nat /\ sale.transferred \in Nat
BY DEF TypeOK, SaleRecord

LEMMA NoEntries == Entries([b \in {} |-> << >>])
BY DEF Entries

LEMMA InitInv == Init => IInv
<1> SUFFICES ASSUME Init PROVE IInv
  OBVIOUS
<1> USE DEF Init
<1>1. Entries(purchases) /\ DOMAIN purchases = {}
  BY NoEntries
<1>2. sale \in SaleRecord /\ ~sale.on /\ sale.toSend = 0 /\ sale.price = 0
  BY DEF NoSale, SaleRecord
<1>3. TypeOK
  <2>1. owner \in [Tokens -> Int] /\ available \subseteq Tokens /\ refunded \in [Buyers -> Nat]
    BY DEF Nobody
  <2>2. now \in Nat /\ numberAvailable \in Nat /\ held \in Nat /\ stuck \in Nat
    OBVIOUS
  <2> QED BY <1>1, <1>2, <2>1, <2>2 DEF TypeOK
<1>4. ~Refunding /\ ~SaleOver
  BY <1>2 DEF Refunding, SaleOver
<1>5. /\ \A b \in DOMAIN purchases : purchases[b] = << >>
      /\ FeesOf(purchases) = 0 /\ TokensKept(purchases, Held \ available)
  BY <1>1, NothingBought
<1>6. Kept
  BY <1>5 DEF Kept
<1>7. Counted
  BY <1>2, FS_EmptySet DEF Counted, CountMatches
<1>8. Owed
  BY <1>2, <1>4, <1>5 DEF Owed
<1> QED BY <1>3, <1>6, <1>7, <1>8 DEF IInv

LEMMA TickInv == IInv /\ Tick => IInv'
<1> SUFFICES ASSUME IInv, Tick PROVE IInv'
  OBVIOUS
<1>0. TypeOK /\ Kept /\ Counted /\ Owed
  BY DEF IInv
<1>1. now' = now + 1 /\ UNCHANGED <<sale, saleConducted, numberAvailable, available, purchases,
                                    owner, held, stuck, refunded, sales>>
  BY DEF Tick
<1>2. TypeOK'
  BY <1>0, <1>1 DEF TypeOK
<1>3. (SaleOver => SaleOver') /\ (Refunding => Refunding') /\ (Failed' <=> Failed) /\ Held' = Held
  BY <1>0, <1>1, SaleFacts DEF TypeOK, SaleOver, Expired, Refunding, Failed, Held
<1>4. Kept'
  BY <1>0, <1>1, <1>3 DEF Kept
<1>5. Counted'
  BY <1>0, <1>1, <1>3 DEF Counted, CountMatches
<1>6. Owed'
  <2>1. CASE Refunding' /\ ~Refunding
    <3>1. sale.on /\ ~SaleOver
      BY <1>1, <1>3, <2>1 DEF Refunding, SaleOver
    <3> QED BY <1>0, <1>1, <1>3, <2>1, <3>1 DEF Owed
  <2>2. CASE Refunding' <=> Refunding
    BY <1>0, <1>1, <1>3, <2>2 DEF Owed
  <2> QED BY <1>3, <2>1, <2>2
<1> QED BY <1>2, <1>4, <1>5, <1>6 DEF IInv

LEMMA MintInv ==
  ASSUME NEW T \in SUBSET Tokens, NEW S \in SUBSET T, IInv, Mint(T, S)
  PROVE  IInv'
<1>0. TypeOK /\ Kept /\ Counted /\ Owed
  BY DEF IInv
<1>1. /\ ~sale.on /\ \A t \in T : owner[t] = Nobody
      /\ owner' = [t \in Tokens |-> IF t \in S THEN Contract
                                    ELSE IF t \in T THEN Outside ELSE owner[t]]
      /\ available' = available \cup S
      /\ numberAvailable' = numberAvailable + Cardinality(S)
      /\ UNCHANGED <<now, sale, saleConducted, purchases, held, stuck, refunded, sales>>
  BY DEF Mint
<1>2. IsFiniteSet(S) /\ IsFiniteSet(available) /\ Cardinality(S) \in Nat
      /\ Cardinality(available) \in Nat
  <2>1. IsFiniteSet(Tokens) /\ S \subseteq Tokens /\ available \subseteq Tokens
    BY <1>0, CrowdfundAssumption DEF TypeOK
  <2> QED BY <2>1, FS_Subset, FS_CardinalityType
<1>3. TypeOK'
  <2>1. owner' \in [Tokens -> Int] /\ available' \subseteq Tokens
    BY <1>0, <1>1 DEF TypeOK, Contract, Outside
  <2>2. numberAvailable' \in Nat
    BY <1>0, <1>1, <1>2 DEF TypeOK
  <2> QED BY <1>0, <1>1, <2>1, <2>2 DEF TypeOK
<1>4. ~sale'.on /\ ~Refunding /\ ~Refunding' /\ ~SaleOver /\ ~SaleOver'
  BY <1>1 DEF Refunding, SaleOver
<1>5. available \cap S = {}
  BY <1>0, <1>1 DEF Kept, Held, Nobody, Contract
<1>6. Kept'
  <2>1. \A t \in available : owner'[t] = Contract
    BY <1>0, <1>1, <1>5 DEF Kept, Held, Nobody, Contract
  <2>2. available' \subseteq Held'
    BY <1>0, <1>1, <2>1 DEF TypeOK, Held
  <2>3. \A b \in DOMAIN purchases' : purchases'[b] = << >>
    BY <1>0, <1>1 DEF Kept
  <2>4. TokensKept(purchases', Held' \ available')
    BY <1>3, <2>3, NothingBought DEF TypeOK
  <2> QED BY <2>2, <2>3, <2>4 DEF Kept
<1>7. Counted'
  <2>1. Cardinality(available \cup S) = Cardinality(available) + Cardinality(S)
    <3>1. Cardinality(available \cap S) = 0
      BY <1>5, FS_EmptySet
    <3>2. Cardinality(available \cup S)
            = Cardinality(available) + Cardinality(S) - Cardinality(available \cap S)
      BY <1>2, FS_Union
    <3> QED BY <1>2, <3>1, <3>2
  <2>2. numberAvailable = Cardinality(available)
    BY <1>0, <1>4 DEF Counted, CountMatches
  <2>3. CountMatches'
    BY <1>1, <1>2, <2>1, <2>2 DEF CountMatches
  <2> QED BY <1>4, <2>3 DEF Counted
<1>8. Owed'
  BY <1>0, <1>1, <1>4 DEF Owed
<1> QED BY <1>3, <1>6, <1>7, <1>8 DEF IInv

LEMMA StartSaleInv ==
  ASSUME NEW expiration \in Expirations, NEW price \in Prices, NEW min \in MinTokens,
         NEW max \in WalletLimits, IInv, StartSale(expiration, price, min, max)
  PROVE  IInv'
<1>0. TypeOK /\ Kept /\ Counted /\ Owed
  BY DEF IInv
<1>1. /\ ~sale.on
      /\ sale' = [on |-> TRUE, expiration |-> expiration, price |-> price, min |-> min,
                  max |-> max, sold |-> 0, toSend |-> 0, transferred |-> 0]
      /\ UNCHANGED <<now, numberAvailable, available, purchases, owner, held, stuck, refunded>>
  BY DEF StartSale
<1>2. expiration \in Nat /\ price \in Nat /\ min \in Nat /\ max \in Nat
  BY CrowdfundAssumption
<1>3. TypeOK'
  <2>1. sale' \in SaleRecord
    BY <1>1, <1>2 DEF SaleRecord
  <2> QED BY <1>0, <1>1, <2>1 DEF TypeOK
<1>4. ~Refunding /\ ~SaleOver /\ sale'.sold = 0 /\ sale'.transferred = 0 /\ sale'.toSend = 0
      /\ sale'.on /\ sale'.price = price
  BY <1>1 DEF Refunding, SaleOver
<1>5. \A b \in DOMAIN purchases : purchases[b] = << >>
  BY <1>0, <1>1 DEF Kept
<1>6. /\ CountOf(purchases) = 0 /\ FeesOf(purchases) = 0 /\ DebtOf(purchases, price) = 0
      /\ \A S : TokensKept(purchases, S)
  BY <1>0, <1>2, <1>5, NothingBought DEF TypeOK
<1>7. Kept'
  <2>1. Held' = Held
    BY <1>1 DEF Held
  <2> QED BY <1>0, <1>1, <1>4, <1>6, <2>1 DEF Kept
<1>8. Counted'
  <2>1. numberAvailable = Cardinality(available) /\ numberAvailable \in Nat
    BY <1>0, <1>4 DEF Counted, CountMatches, TypeOK
  <2> QED BY <1>1, <1>4, <1>6, <2>1 DEF Counted, CountMatches
<1>9. Owed'
  <2>1. held = stuck
    BY <1>0, <1>1, <1>4, <1>6 DEF Owed, TypeOK
  <2> QED BY <1>0, <1>1, <1>4, <1>6, <2>1 DEF Owed, TypeOK
<1> QED BY <1>3, <1>7, <1>8, <1>9 DEF IInv

\* Tokens from among those available, each once.
Chosen(ids) ==
  /\ ids \in Seq(Tokens)
  /\ \A i \in 1 .. Len(ids) : ids[i] \in available
  /\ \A i, j \in 1 .. Len(ids) : ids[i] = ids[j] => i = j

LEMMA ChosenCount ==
  ASSUME NEW ids, Chosen(ids)
  PROVE  /\ Len(ids) \in Nat /\ DOMAIN ids = 1 .. Len(ids)
         /\ ToSet(ids) \subseteq available /\ Cardinality(ToSet(ids)) = Len(ids)
<1> DEFINE n == Len(ids)
           I == 1 .. n
<1>1. n \in Nat /\ DOMAIN ids = I /\ ids \in [I -> Tokens]
  BY LenProperties DEF Chosen
<1>2. IsFiniteSet(I) /\ Cardinality(I) = n
  <2>1. 1 \in Int /\ n \in Int /\ (IF 1 > n THEN 0 ELSE n - 1 + 1) = n
    BY <1>1
  <2> HIDE DEF n
  <2> QED BY <2>1, FS_Interval
<1> HIDE DEF I
<1>3. ids \in Surjection(I, ToSet(ids)) /\ ids \in Injection(I, ToSet(ids))
  BY <1>1 DEF ToSet, Surjection, Injection, IsInjective, Chosen, I
<1>4. Cardinality(ToSet(ids)) = Cardinality(I)
  BY <1>2, <1>3, FS_Surjection
<1>5. ToSet(ids) \subseteq available
  BY <1>1 DEF ToSet, Chosen, I
<1> QED BY <1>1, <1>2, <1>4, <1>5 DEF I

LEMMA RowsBought ==
  ASSUME NEW b \in Buyers, NEW ids, Chosen(ids), NEW tax \in Nat, NEW royalty \in Nat, NEW rows,
         rows = [i \in DOMAIN ids |->
                   [token |-> ids[i], tax |-> tax, fees |-> royalty + tax, purchaser |-> b]]
  PROVE  /\ rows \in Seq(PurchaseRecord) /\ Len(rows) = Len(ids)
         /\ \A i \in 1 .. Len(ids) : rows[i].token = ids[i] /\ rows[i].purchaser = b
         /\ SumFees(rows) = (royalty + tax) * Len(ids)
         /\ SumTax(rows) = tax * Len(ids)
<1> DEFINE n == Len(ids)
<1>1. n \in Nat /\ DOMAIN ids = 1 .. n /\ \A i \in 1 .. n : ids[i] \in Tokens
  BY ChosenCount DEF Chosen
<1> HIDE DEF n
<1>2. \A i \in 1 .. n : /\ rows[i].token = ids[i] /\ rows[i].purchaser = b
                        /\ rows[i].fees = royalty + tax /\ rows[i].tax = tax
                        /\ rows[i] \in PurchaseRecord
  BY <1>1 DEF PurchaseRecord
<1>3. rows \in [1 .. n -> PurchaseRecord]
  BY <1>1, <1>2
<1>4. rows \in Seq(PurchaseRecord) /\ Len(rows) = n
  BY <1>1, <1>3
<1>5. royalty + tax \in Nat
  OBVIOUS
<1>6. SumFees(rows) = (royalty + tax) * n /\ SumTax(rows) = tax * n
  <2> DEFINE x == royalty + tax
  <2>1. \A i \in 1 .. Len(rows) : rows[i].fees = x /\ rows[i].tax = tax
    BY <1>2, <1>4
  <2> HIDE DEF x
  <2>2. SumFees(rows) = x * Len(rows) /\ SumTax(rows) = tax * Len(rows)
    BY <1>4, <1>5, <2>1, RowsAlike, ZenonT(60) DEF x
  <2> QED BY <1>4, <2>2 DEF x
<1> QED BY <1>2, <1>4, <1>6 DEF n

\* One entry is extended.
Extended(es, b, rows, new) ==
  /\ DOMAIN new = DOMAIN es \cup {b}
  /\ \A c \in DOMAIN new : new[c] = IF c = b THEN Entry(es, b) \o rows ELSE es[c]

Grown(es, b, rows, new) ==
  \A i \in 1 .. Len(new[b]) :
    \/ b \in DOMAIN es /\ i \in 1 .. Len(es[b]) /\ new[b][i] = es[b][i]
    \/ \E k \in 1 .. Len(rows) : i = Len(Entry(es, b)) + k /\ new[b][i] = rows[k]

LEMMA EntryExtended ==
  ASSUME NEW es, Entries(es), NEW b \in Buyers, NEW rows \in Seq(PurchaseRecord),
         \A i \in 1 .. Len(rows) : rows[i].purchaser = b,
         NEW new, Extended(es, b, rows, new)
  PROVE  /\ Entries(new) /\ Entry(new, b) = Entry(es, b) \o rows
         /\ \A c \in Buyers \ {b} : Entry(new, c) = Entry(es, c)
         /\ Grown(es, b, rows, new)
<1> DEFINE s == Entry(es, b)
           m == Len(s)
           n == Len(rows)
<1>1. /\ s \in Seq(PurchaseRecord) /\ m \in Nat /\ n \in Nat
      /\ \A i \in 1 .. m : s[i].purchaser = b
  BY EntryFacts, LenProperties
<1>2. new[b] = s \o rows /\ Entry(new, b) = s \o rows
  BY DEF Entry, Extended
<1>3. (b \in DOMAIN es /\ s = es[b]) \/ m = 0
  BY DEF Entry
<1> HIDE DEF s
<1>4. /\ s \o rows \in Seq(PurchaseRecord) /\ Len(s \o rows) = m + n
      /\ \A i \in 1 .. (m + n) : (s \o rows)[i] = IF i <= m THEN s[i] ELSE rows[i - m]
  BY <1>1, ConcatProperties
<1> HIDE DEF m, n
<1>5. ASSUME NEW i \in 1 .. (m + n)
      PROVE  \/ i \in 1 .. m /\ new[b][i] = s[i]
             \/ i - m \in 1 .. n /\ i = m + (i - m) /\ new[b][i] = rows[i - m]
  <2>1. CASE i <= m
    <3>1. i \in 1 .. m
      BY <1>1, <2>1
    <3>2. (s \o rows)[i] = s[i]
      BY <1>4, <2>1
    <3> QED BY <1>2, <3>1, <3>2
  <2>2. CASE ~(i <= m)
    <3>1. i - m \in 1 .. n /\ i = m + (i - m)
      BY <1>1, <2>2
    <3> QED BY <1>2, <1>4, <2>2, <3>1
  <2> QED BY <2>1, <2>2
<1>6. new[b] \in Seq(PurchaseRecord) /\ Len(new[b]) = m + n
      /\ \A i \in 1 .. Len(new[b]) : new[b][i].purchaser = b
  <2>1. new[b] \in Seq(PurchaseRecord) /\ Len(new[b]) = m + n
    BY <1>2, <1>4
  <2>2. ASSUME NEW i \in 1 .. (m + n) PROVE new[b][i].purchaser = b
    BY <1>1, <1>5 DEF n
  <2> QED BY <2>1, <2>2
<1>7. Entries(new)
  <2>1. DOMAIN new \subseteq Buyers
    BY DEF Entries, Extended
  <2>2. \A c \in DOMAIN new : c # b => new[c] = es[c] /\ c \in DOMAIN es
    BY DEF Extended
  <2> QED BY <1>6, <2>1, <2>2 DEF Entries
<1>8. \A c \in Buyers \ {b} : Entry(new, c) = Entry(es, c)
  BY DEF Entry, Extended
<1>9. \A i \in 1 .. Len(new[b]) :
        \/ b \in DOMAIN es /\ i \in 1 .. Len(es[b]) /\ new[b][i] = es[b][i]
        \/ \E k \in 1 .. Len(rows) : i = m + k /\ new[b][i] = rows[k]
  <2> TAKE i \in 1 .. Len(new[b])
  <2>1. CASE i \in 1 .. m /\ new[b][i] = s[i]
    BY <1>3, <2>1 DEF m
  <2>2. CASE i - m \in 1 .. n /\ i = m + (i - m) /\ new[b][i] = rows[i - m]
    BY <2>2 DEF n
  <2> QED BY <1>5, <1>6, <2>1, <2>2
<1> QED BY <1>2, <1>7, <1>8, <1>9 DEF s, m, Grown

\* Each purchase has its token to itself, the new ones included.
LEMMA KeptExtended ==
  ASSUME NEW es, Entries(es), NEW b \in Buyers, NEW rows \in Seq(PurchaseRecord),
         NEW new, Extended(es, b, rows, new), Grown(es, b, rows, new),
         NEW S, NEW T, T \cap S = {}, TokensKept(es, S),
         \A i \in 1 .. Len(rows) : rows[i].token \in T,
         \A i, j \in 1 .. Len(rows) : rows[i].token = rows[j].token => i = j
  PROVE  TokensKept(new, S \cup T)
<1> DEFINE Old(c, i) == c \in DOMAIN es /\ i \in 1 .. Len(es[c]) /\ new[c][i] = es[c][i]
           New(c, i, k) == c = b /\ k \in 1 .. Len(rows) /\ i = Len(Entry(es, b)) + k
                             /\ new[c][i] = rows[k]
<1>1. ASSUME NEW c \in DOMAIN new, NEW i \in 1 .. Len(new[c])
      PROVE  Old(c, i) \/ \E k : New(c, i, k)
  <2>1. CASE c = b
    BY <1>1, <2>1 DEF Grown
  <2>2. CASE c # b
    <3>1. c \in DOMAIN es /\ new[c] = es[c]
      BY <1>1, <2>2 DEF Extended
    <3> QED BY <1>1, <3>1
  <2> QED BY <2>1, <2>2
<1>2. ASSUME NEW c, NEW i, Old(c, i) PROVE new[c][i].token \in S
  BY <1>2 DEF TokensKept
<1>3. ASSUME NEW c, NEW i, NEW k, New(c, i, k) PROVE new[c][i].token \in T
  BY <1>3
<1>4. ASSUME NEW c, NEW i, Old(c, i), NEW d, NEW j, Old(d, j), new[c][i].token = new[d][j].token
      PROVE  c = d /\ i = j
  BY <1>4 DEF TokensKept
<1>5. ASSUME NEW c, NEW i, NEW k, New(c, i, k), NEW d, NEW j, NEW l, New(d, j, l),
             new[c][i].token = new[d][j].token
      PROVE  c = d /\ i = j
  BY <1>5
<1> HIDE DEF Old, New
<1>6. ASSUME NEW c \in DOMAIN new, NEW i \in 1 .. Len(new[c]),
             NEW d \in DOMAIN new, NEW j \in 1 .. Len(new[d])
      PROVE  /\ new[c][i].token \in S \cup T
             /\ new[c][i].token = new[d][j].token => c = d /\ i = j
  <2>1. (Old(c, i) \/ \E k : New(c, i, k)) /\ (Old(d, j) \/ \E k : New(d, j, k))
    BY <1>1
  <2>2. CASE Old(c, i) /\ Old(d, j)
    <3>1. new[c][i].token \in S
      BY <1>2, <2>2
    <3>2. new[c][i].token = new[d][j].token => c = d /\ i = j
      BY <1>4, <2>2
    <3> QED BY <3>1, <3>2
  <2>3. CASE Old(c, i) /\ \E k : New(d, j, k)
    <3>1. new[c][i].token \in S /\ new[d][j].token \in T
      BY <1>2, <1>3, <2>3
    <3> QED BY <3>1
  <2>4. CASE Old(d, j) /\ \E k : New(c, i, k)
    <3>1. new[d][j].token \in S /\ new[c][i].token \in T
      BY <1>2, <1>3, <2>4
    <3> QED BY <3>1
  <2>5. CASE (\E k : New(c, i, k)) /\ \E k : New(d, j, k)
    <3>1. new[c][i].token \in T
      BY <1>3, <2>5
    <3>2. new[c][i].token = new[d][j].token => c = d /\ i = j
      BY <1>5, <2>5
    <3> QED BY <3>1, <3>2
  <2> QED BY <2>1, <2>2, <2>3, <2>4, <2>5
<1>7. \A c, d \in DOMAIN new : \A i \in 1 .. Len(new[c]), j \in 1 .. Len(new[d]) :
        /\ new[c][i].token \in S \cup T
        /\ new[c][i].token = new[d][j].token => c = d /\ i = j
  BY <1>6
<1> QED BY <1>7 DEF TokensKept

\* What the books say of n more purchases.
LEMMA BooksBought ==
  ASSUME NEW es, Entries(es), NEW new, Entries(new), NEW b \in Buyers,
         NEW rows \in Seq(PurchaseRecord), Entry(new, b) = Entry(es, b) \o rows,
         \A c \in Buyers \ {b} : Entry(new, c) = Entry(es, c), NEW price \in Nat
  PROVE  /\ CountOf(new) = CountOf(es) + Len(rows)
         /\ FeesOf(new) = FeesOf(es) + SumFees(rows)
         /\ DebtOf(new, price) = DebtOf(es, price) + (price * Len(rows) + SumTax(rows))
<1> DEFINE s == Entry(es, b)
           m == Len(s)
           n == Len(rows)
<1>1. /\ CountOf(new) = CountOf(es) - Len(s) + Len(Entry(new, b))
      /\ FeesOf(new) = FeesOf(es) - SumFees(s) + SumFees(Entry(new, b))
      /\ DebtOf(new, price) = DebtOf(es, price) - Owes(es, price)[b] + Owes(new, price)[b]
  BY BooksChange
<1>2. CountOf(es) \in Nat /\ FeesOf(es) \in Nat /\ DebtOf(es, price) \in Nat
  BY BooksNat
<1>3. s \in Seq(PurchaseRecord) /\ m \in Nat /\ SumFees(s) \in Nat /\ SumTax(s) \in Nat
      /\ Owes(es, price)[b] = price * m + SumTax(s)
  BY EntryFacts
<1>4. Owes(new, price)[b] = price * Len(Entry(new, b)) + SumTax(Entry(new, b))
  BY EntryFacts
<1>5. n \in Nat /\ SumFees(rows) \in Nat /\ SumTax(rows) \in Nat
  BY RowSumsNat, LenProperties
<1> HIDE DEF s
<1>6. /\ Len(s \o rows) = m + n /\ SumFees(s \o rows) = SumFees(s) + SumFees(rows)
      /\ SumTax(s \o rows) = SumTax(s) + SumTax(rows)
  BY <1>3, RowsConcat
<1>7. Entry(new, b) = s \o rows
  BY DEF s
<1> HIDE DEF m, n
<1>8. price * (m + n) = price * m + price * n /\ price * m \in Nat /\ price * n \in Nat
  BY <1>3, <1>5
<1>9. CountOf(new) = CountOf(es) + n /\ FeesOf(new) = FeesOf(es) + SumFees(rows)
  <2>1. /\ m \in Nat /\ n \in Nat /\ SumFees(s) \in Nat /\ SumFees(rows) \in Nat
        /\ Len(Entry(new, b)) = m + n /\ SumFees(Entry(new, b)) = SumFees(s) + SumFees(rows)
    BY <1>3, <1>5, <1>6, <1>7
  <2>2. /\ CountOf(new) = CountOf(es) - m + (m + n)
        /\ FeesOf(new) = FeesOf(es) - SumFees(s) + (SumFees(s) + SumFees(rows))
    BY <1>1, <2>1 DEF m
  <2>3. \A x, y, z \in Nat : x - y + (y + z) = x + z
    OBVIOUS
  <2> QED BY <1>2, <2>1, <2>2, <2>3
<1>10. DebtOf(new, price) = DebtOf(es, price) + (price * n + SumTax(rows))
  <2>1. Owes(new, price)[b] = price * m + price * n + (SumTax(s) + SumTax(rows))
    BY <1>4, <1>6, <1>7, <1>8
  <2> DEFINE x == price * m
             y == price * n
  <2> HIDE DEF x, y
  <2>2. x \in Nat /\ y \in Nat /\ Owes(es, price)[b] = x + SumTax(s)
        /\ Owes(new, price)[b] = x + y + (SumTax(s) + SumTax(rows))
    BY <1>3, <1>8, <2>1 DEF x, y
  <2>3. DebtOf(new, price)
          = DebtOf(es, price) - (x + SumTax(s)) + (x + y + (SumTax(s) + SumTax(rows)))
    BY <1>1, <2>2
  <2>4. \A d, u, v, p, t \in Nat : d - (u + p) + (u + v + (p + t)) = d + (v + t)
    OBVIOUS
  <2>5. SumTax(s) \in Nat /\ SumTax(rows) \in Nat /\ DebtOf(es, price) \in Nat
    BY <1>2, <1>3, <1>5
  <2>6. DebtOf(new, price) = DebtOf(es, price) + (y + SumTax(rows))
    BY <2>2, <2>3, <2>4, <2>5
  <2> QED BY <2>6 DEF y
<1> QED BY <1>9, <1>10 DEF n

LEMMA Plus == \A x, y \in Nat : x + y \in Nat
OBVIOUS

LEMMA BoughtInv ==
  ASSUME NEW b \in Buyers, NEW ids, Chosen(ids), NEW tax \in Nat, NEW royalty \in Nat,
         NEW excess \in Nat, IInv, SaleOpen, PurchaseTokens(b, ids, tax, royalty, excess),
         stuck' = stuck + excess, UNCHANGED <<now, owner, refunded>>
  PROVE  IInv'
<1>0. TypeOK /\ Kept /\ Counted /\ Owed
  BY DEF IInv
<1> DEFINE n == Len(ids)
           rows == [i \in DOMAIN ids |->
                      [token |-> ids[i], tax |-> tax, fees |-> royalty + tax, purchaser |-> b]]
           more == n * (sale.price - royalty)
           paid == n * (sale.price + tax)
           Price == sale.price * n
<1>1. /\ ids # << >> /\ royalty <= sale.price
      /\ Extended(purchases, b, rows, purchases')
      /\ sale' = [sale EXCEPT !.toSend = @ + more, !.sold = @ + n]
      /\ available' = available \ ToSet(ids)
      /\ numberAvailable' = numberAvailable - n
      /\ held' = held + paid + excess
  BY DEF PurchaseTokens, EntryOf, Entry, Extended
<1>2. /\ n \in Nat /\ n > 0 /\ DOMAIN ids = 1 .. n
      /\ ToSet(ids) \subseteq available /\ Cardinality(ToSet(ids)) = n
  <2>1. /\ n \in Nat /\ DOMAIN ids = 1 .. n
        /\ ToSet(ids) \subseteq available /\ Cardinality(ToSet(ids)) = n
    BY ChosenCount
  <2>2. n # 0
    BY <1>1, <2>1, EmptySeq DEF Chosen
  <2> QED BY <2>1, <2>2
<1>3. /\ rows \in Seq(PurchaseRecord) /\ Len(rows) = n
      /\ \A i \in 1 .. n : rows[i].token = ids[i] /\ rows[i].purchaser = b
      /\ SumFees(rows) = (royalty + tax) * n /\ SumTax(rows) = tax * n
  BY RowsBought
<1> HIDE DEF rows, more, paid, n, Price
<1>4. /\ Entries(purchases') /\ Entry(purchases', b) = Entry(purchases, b) \o rows
      /\ \A c \in Buyers \ {b} : Entry(purchases', c) = Entry(purchases, c)
      /\ Grown(purchases, b, rows, purchases')
  <2>1. Entries(purchases) /\ \A i \in 1 .. Len(rows) : rows[i].purchaser = b
    BY <1>0, <1>3 DEF TypeOK
  <2> QED BY <1>1, <1>3, <2>1, EntryExtended
<1>5. /\ sale.price \in Nat /\ sale.sold \in Nat /\ sale.toSend \in Nat
      /\ sale.transferred \in Nat /\ sale.min \in Nat /\ sale.on /\ ~Expired
  BY <1>0, SaleFacts DEF SaleOpen
<1>6. /\ sale'.sold = sale.sold + n /\ sale'.toSend = sale.toSend + more
      /\ sale'.on = sale.on /\ sale'.expiration = sale.expiration /\ sale'.price = sale.price
      /\ sale'.min = sale.min /\ sale'.max = sale.max /\ sale'.transferred = sale.transferred
  BY <1>0, <1>1 DEF TypeOK, SaleRecord
<1>7. more \in Nat /\ paid \in Nat /\ more + SumFees(rows) = paid
      /\ paid = Price + SumTax(rows) /\ SumFees(rows) \in Nat
  <2> DEFINE P == sale.price * n
             R == royalty * n
             X == tax * n
  <2>1. P \in Nat /\ R \in Nat /\ X \in Nat
    BY <1>2, <1>5
  <2>2. paid = P + X
    BY <1>2, <1>5, SMTT(30) DEF paid
  <2>3. more = P - R
    BY <1>2, <1>5, SMTT(30) DEF more
  <2>4. SumFees(rows) = R + X /\ SumTax(rows) = X
    BY <1>2, <1>3, SMTT(30)
  <2>5. more \in Nat
    <3>1. sale.price - royalty \in Nat
      BY <1>1, <1>5
    <3> QED BY <1>2, <3>1 DEF more
  <2> HIDE DEF P, R, X
  <2>6. more \in Nat /\ paid \in Nat /\ more + SumFees(rows) = paid
        /\ paid = P + SumTax(rows) /\ SumFees(rows) \in Nat
    BY <2>1, <2>2, <2>3, <2>4, <2>5
  <2> QED BY <2>6 DEF P, Price
<1>8. IsFiniteSet(available) /\ Cardinality(available) \in Nat
  <2>1. IsFiniteSet(Tokens) /\ available \subseteq Tokens
    BY <1>0, CrowdfundAssumption DEF TypeOK
  <2> QED BY <2>1, FS_Subset, FS_CardinalityType
<1>9. Cardinality(available') = Cardinality(available) - n
  <2>1. available \cap ToSet(ids) = ToSet(ids)
    BY <1>2
  <2>2. Cardinality(available \ ToSet(ids)) = Cardinality(available) - Cardinality(available \cap ToSet(ids))
    BY <1>8, FS_Difference
  <2> QED BY <1>1, <1>2, <2>1, <2>2
<1>10. n <= Cardinality(available)
  <2>1. available' \subseteq available
    BY <1>1
  <2>2. Cardinality(available') \in Nat
    BY <1>8, <2>1, FS_Subset, FS_CardinalityType
  <2> QED BY <1>2, <1>8, <1>9, <2>2
<1>11. ~SaleOver /\ ~Refunding /\ numberAvailable = Cardinality(available)
  <2>1. Cardinality(available) <= numberAvailable /\ numberAvailable \in Nat
    BY <1>0 DEF Counted, CountMatches, TypeOK
  <2>2. numberAvailable # 0
    BY <1>2, <1>8, <1>10, <2>1
  <2>3. ~SaleOver
    BY <1>5, <2>2 DEF SaleOver
  <2> QED BY <1>0, <2>3 DEF Counted, CountMatches, Refunding
<1>12. TypeOK'
  <2>1. sale' \in SaleRecord
    <3>1. sale.toSend + more \in Nat /\ sale.sold + n \in Nat
      BY <1>2, <1>5, <1>7, Plus
    <3> QED BY <1>0, <1>1, <3>1 DEF TypeOK, SaleRecord
  <2>2. numberAvailable' \in Nat
    BY <1>1, <1>2, <1>8, <1>10, <1>11
  <2>3. available' \subseteq Tokens
    BY <1>0, <1>1 DEF TypeOK
  <2>4. held' \in Nat /\ stuck' \in Nat
    BY <1>0, <1>1, <1>7, Plus DEF TypeOK
  <2>5. now' \in Nat /\ owner' \in [Tokens -> Int] /\ refunded' \in [Buyers -> Nat]
    BY <1>0 DEF TypeOK
  <2> QED BY <1>4, <2>1, <2>2, <2>3, <2>4, <2>5 DEF TypeOK
<1>13. Kept'
  <2>1. Held' = Held /\ available \subseteq Held /\ TokensKept(purchases, Held \ available)
    BY <1>0, <1>11 DEF Held, Kept
  <2> DEFINE S == Held \ available
             T == ToSet(ids)
  <2>2. S \cap T = {} /\ S \cup T = Held' \ available'
    BY <1>1, <1>2, <2>1
  <2>3. TokensKept(purchases', S \cup T)
    <3>2. \A i \in 1 .. Len(rows) : rows[i].token \in T
      BY <1>2, <1>3 DEF ToSet
    <3>3. \A i, j \in 1 .. Len(rows) : rows[i].token = rows[j].token => i = j
      BY <1>3 DEF Chosen, n
    <3>4. TokensKept(purchases, S) /\ T \cap S = {} /\ Entries(purchases)
      BY <1>0, <2>1, <2>2 DEF TypeOK
    <3> HIDE DEF S, T
    <3> QED BY <1>1, <1>3, <1>4, <3>2, <3>3, <3>4, KeptExtended
  <2>4. available' \subseteq Held'
    BY <1>1, <2>1
  <2> HIDE DEF S, T
  <2> QED BY <1>5, <1>6, <2>2, <2>3, <2>4 DEF Kept
<1>14. /\ CountOf(purchases') = CountOf(purchases) + n
       /\ FeesOf(purchases') = FeesOf(purchases) + SumFees(rows)
       /\ DebtOf(purchases', sale.price) = DebtOf(purchases, sale.price) + paid
       /\ CountOf(purchases) \in Nat /\ FeesOf(purchases) \in Nat
       /\ DebtOf(purchases, sale.price) \in Nat
  <2>1. Entries(purchases)
    BY <1>0 DEF TypeOK
  <2>2. CountOf(purchases) \in Nat /\ FeesOf(purchases) \in Nat /\ DebtOf(purchases, sale.price) \in Nat
    BY <1>5, <2>1, BooksNat
  <2>3. /\ CountOf(purchases') = CountOf(purchases) + Len(rows)
        /\ FeesOf(purchases') = FeesOf(purchases) + SumFees(rows)
        /\ DebtOf(purchases', sale.price)
             = DebtOf(purchases, sale.price) + (sale.price * Len(rows) + SumTax(rows))
    <3> DEFINE new == purchases'
               price == sale.price
    <3>1. /\ Entries(new) /\ Entry(new, b) = Entry(purchases, b) \o rows /\ price \in Nat
          /\ \A c \in Buyers \ {b} : Entry(new, c) = Entry(purchases, c)
      BY <1>4, <1>5
    <3> HIDE DEF new, price
    <3>2. /\ CountOf(new) = CountOf(purchases) + Len(rows)
          /\ FeesOf(new) = FeesOf(purchases) + SumFees(rows)
          /\ DebtOf(new, price)
               = DebtOf(purchases, price) + (price * Len(rows) + SumTax(rows))
      BY <1>3, <2>1, <3>1, BooksBought, ZenonT(60)
    <3> QED BY <3>2 DEF new, price
  <2> QED BY <1>3, <1>7, <2>2, <2>3 DEF Price
<1>15. Counted'
  <2>1. CountMatches'
    BY <1>1, <1>2, <1>8, <1>9, <1>11 DEF CountMatches
  <2>2. CountOf(purchases') = sale'.sold - sale'.transferred
    BY <1>0, <1>2, <1>5, <1>6, <1>11, <1>14, SMTT(30) DEF Counted
  <2> QED BY <2>1, <2>2 DEF Counted
<1>16. Owed'
  <2>1. held = stuck + (sale.toSend + FeesOf(purchases))
        /\ sale.toSend + FeesOf(purchases) = DebtOf(purchases, sale.price)
    BY <1>0, <1>5, <1>11 DEF Owed
  <2>2. sale'.toSend + FeesOf(purchases') = DebtOf(purchases', sale'.price)
    BY <1>5, <1>6, <1>7, <1>14, <2>1
  <2>3. held' = stuck' + DebtOf(purchases', sale'.price)
    <3>1. \A s, d, p, e \in Nat : (s + d) + p + e = (s + e) + (d + p)
      OBVIOUS
    <3>2. stuck \in Nat /\ held = stuck + DebtOf(purchases, sale.price)
      BY <1>0, <2>1 DEF TypeOK
    <3>3. (stuck + DebtOf(purchases, sale.price)) + paid + excess
            = (stuck + excess) + (DebtOf(purchases, sale.price) + paid)
      BY <1>7, <1>14, <3>1, <3>2
    <3> QED BY <1>1, <1>6, <1>14, <3>2, <3>3
  <2> QED BY <1>5, <1>6, <2>2, <2>3 DEF Owed
<1> QED BY <1>12, <1>13, <1>15, <1>16 DEF IInv

LEMMA ChosenFirst ==
  ASSUME TypeOK, NEW n \in Nat
  PROVE  Chosen(Ascending(FirstOf(available, n)))
<1> DEFINE S == FirstOf(available, n)
           ids == Ascending(S)
           m == Cardinality(S)
<1>1. S \subseteq available /\ IsFiniteSet(S) /\ S \subseteq Nat /\ S \subseteq Tokens
  <2>1. IsFiniteSet(available) /\ available \subseteq Nat /\ available \subseteq Tokens
    BY CrowdfundAssumption, FS_Subset DEF TypeOK
  <2> QED BY <2>1, FirstOfFacts
<1> HIDE DEF S
<1>2. m \in Nat /\ ids \in [1 .. m -> S] /\ Increasing(ids, m)
  BY <1>1, AscendingFacts
<1> HIDE DEF ids, m
<1>3. ids \in Seq(Tokens) /\ Len(ids) = m
  <2>1. ids \in [1 .. m -> Tokens]
    BY <1>1, <1>2
  <2> QED BY <1>2, <2>1
<1>4. \A i \in 1 .. m : ids[i] \in available /\ ids[i] \in Nat
  BY <1>1, <1>2
<1>5. ASSUME NEW i \in 1 .. m, NEW j \in 1 .. m, ids[i] = ids[j] PROVE i = j
  <2>1. ~(i < j) /\ ~(j < i)
    BY <1>2, <1>4, <1>5 DEF Increasing
  <2> QED BY <1>2, <2>1
<1> QED BY <1>3, <1>4, <1>5 DEF Chosen, ids, S

LEMMA PurchaseInv ==
  ASSUME NEW b \in Buyers, NEW tax \in Taxes, NEW royalty \in Royalties, NEW n \in 1 .. sale.max,
         IInv, Purchase(b, n, tax, royalty)
  PROVE  IInv'
<1> DEFINE possible == sale.max - Len(EntryOf(b))
           wanted == IF n < possible THEN n ELSE possible
           ids == Ascending(FirstOf(available, wanted))
<1>1. /\ SaleOpen /\ possible > 0 /\ PurchaseTokens(b, ids, tax, royalty, 0)
      /\ UNCHANGED <<now, saleConducted, owner, stuck, refunded, sales>>
  BY DEF Purchase
<1>2. TypeOK /\ tax \in Nat /\ royalty \in Nat /\ stuck \in Nat
  <2>1. TypeOK
    BY DEF IInv
  <2>2. stuck \in Nat
    BY <2>1 DEF TypeOK
  <2>3. tax \in Nat /\ royalty \in Nat
    BY CrowdfundAssumption
  <2> QED BY <2>1, <2>2, <2>3
<1>3. wanted \in Nat
  <2>1. EntryOf(b) = Entry(purchases, b)
    BY DEF EntryOf, Entry
  <2>2. Len(EntryOf(b)) \in Nat /\ sale.max \in Nat
    BY <1>2, <2>1, EntryFacts, SaleFacts DEF TypeOK
  <2> QED BY <1>1, <2>2
<1> HIDE DEF wanted
<1>4. Chosen(ids)
  BY <1>2, <1>3, ChosenFirst
<1> HIDE DEF ids
<1>5. stuck' = stuck + 0 /\ UNCHANGED <<now, owner, refunded>> /\ 0 \in Nat
  <2>1. stuck' = stuck /\ UNCHANGED <<now, owner, refunded>>
    BY <1>1
  <2>2. stuck = stuck + 0
    BY <1>2
  <2> QED BY <2>1, <2>2
<1> QED BY <1>1, <1>2, <1>4, <1>5, BoughtInv

LEMMA PurchaseByTokenIdInv ==
  ASSUME NEW b \in Buyers, NEW t \in Tokens, NEW tax \in Taxes, NEW royalty \in Royalties,
         NEW excess \in Excess, IInv, PurchaseByTokenId(b, t, tax, royalty, excess)
  PROVE  IInv'
<1>1. /\ SaleOpen /\ t \in available /\ PurchaseTokens(b, <<t>>, tax, royalty, excess)
      /\ stuck' = stuck + excess /\ UNCHANGED <<now, owner, refunded>>
  BY DEF PurchaseByTokenId
<1>2. tax \in Nat /\ royalty \in Nat /\ excess \in Nat
  BY CrowdfundAssumption
<1>3. Chosen(<<t>>)
  BY <1>1 DEF Chosen
<1> QED BY <1>1, <1>2, <1>3, BoughtInv

\* The entries of R are removed.
Without(es, R) == Restrict(es, DOMAIN es \ R)

LEMMA EntriesRemoved ==
  ASSUME NEW es, Entries(es), NEW R
  PROVE  /\ Entries(Without(es, R))
         /\ \A b \in R : Entry(Without(es, R), b) = << >>
         /\ \A b \in Buyers \ R : Entry(Without(es, R), b) = Entry(es, b)
<1> DEFINE new == Without(es, R)
<1>1. DOMAIN new = DOMAIN es \ R /\ \A b \in DOMAIN es \ R : new[b] = es[b]
  BY DEF Restrict, Without
<1> HIDE DEF new
<1>2. Entries(new)
  BY <1>1 DEF Entries
<1>3. /\ \A b \in R : Entry(new, b) = << >>
      /\ \A b \in Buyers \ R : Entry(new, b) = Entry(es, b)
  BY <1>1 DEF Entry
<1> QED BY <1>2, <1>3 DEF new

RefundsTo(es, R, price) ==
  [b \in Buyers |-> IF b \in R THEN price * Len(es[b]) + SumTax(es[b]) ELSE 0]

LEMMA BooksRefunded ==
  ASSUME NEW es, Entries(es), NEW R \in SUBSET DOMAIN es, NEW new, new = Without(es, R),
         NEW price \in Nat, NEW back,
         back = RefundsTo(es, R, price)
  PROVE  /\ DebtOf(new, price) = DebtOf(es, price) - SumFunction(back)
         /\ SumFunction(back) \in Nat
         /\ \A b \in Buyers : back[b] \in Nat
<1>1. /\ Entries(new) /\ \A b \in R : Entry(new, b) = << >>
      /\ \A b \in Buyers \ R : Entry(new, b) = Entry(es, b)
  BY EntriesRemoved
<1>2. \A b \in Buyers : /\ Owes(es, price)[b] \in Nat /\ back[b] \in Nat
                        /\ Owes(new, price)[b] = Owes(es, price)[b] - back[b]
  <2> TAKE b \in Buyers
  <2>1. /\ Owes(es, price)[b] = price * Len(Entry(es, b)) + SumTax(Entry(es, b))
        /\ Owes(es, price)[b] \in Nat
    BY EntryFacts
  <2>2. /\ Owes(new, price)[b] = price * Len(Entry(new, b)) + SumTax(Entry(new, b))
        /\ Len(Entry(new, b)) = 0 => Owes(new, price)[b] = 0
    BY <1>1, EntryFacts
  <2>3. CASE b \in R
    <3>1. Entry(es, b) = es[b] /\ Entry(new, b) = << >>
      BY <1>1, <2>3 DEF Entry
    <3>2. back[b] = Owes(es, price)[b] /\ Owes(new, price)[b] = 0
      BY <2>1, <2>2, <2>3, <3>1 DEF RefundsTo
    <3> DEFINE x == Owes(es, price)[b]
    <3>3. x \in Nat /\ 0 = x - x
      BY <2>1
    <3> QED BY <3>2, <3>3
  <2>4. CASE b \notin R
    <3>1. back[b] = 0 /\ Owes(new, price)[b] = Owes(es, price)[b]
      BY <1>1, <2>1, <2>2, <2>4 DEF RefundsTo
    <3> DEFINE x == Owes(es, price)[b]
    <3>2. x \in Nat /\ x = x - 0
      BY <2>1
    <3> QED BY <3>1, <3>2
  <2> QED BY <2>3, <2>4
<1>3. SumFunction(back) = SumFunctionOnSet(back, Buyers)
  BY DEF SumFunction, RefundsTo
<1>4. /\ DebtOf(es, price) = SumFunctionOnSet(Owes(es, price), Buyers)
      /\ DebtOf(new, price) = SumFunctionOnSet(Owes(new, price), Buyers)
  BY DEF DebtOf, Owes
<1>5. SumFunctionOnSet(Owes(new, price), Buyers)
        = SumFunctionOnSet(Owes(es, price), Buyers) - SumFunctionOnSet(back, Buyers)
  <2> DEFINE f == Owes(es, price)
             h == Owes(new, price)
  <2>1. \A b \in Buyers : f[b] \in Int /\ back[b] \in Int /\ h[b] = f[b] - back[b]
    <3> TAKE b \in Buyers
    <3>1. f[b] \in Nat /\ back[b] \in Nat /\ h[b] = f[b] - back[b]
      BY <1>2
    <3> HIDE DEF f, h
    <3> QED BY <3>1
  <2>2. IsFiniteSet(Buyers)
    BY BuyersFinite
  <2> HIDE DEF f, h
  <2>3. SumFunctionOnSet(h, Buyers) = SumFunctionOnSet(f, Buyers) - SumFunctionOnSet(back, Buyers)
    BY <2>1, <2>2, SumDifference
  <2> QED BY <2>3 DEF f, h
<1>6. SumFunctionOnSet(back, Buyers) \in Nat
  BY <1>2, BuyersFinite, SumNat
<1> QED BY <1>2, <1>3, <1>4, <1>5, <1>6

LEMMA ClaimRefundInv ==
  ASSUME NEW b \in Buyers, IInv, ClaimRefund(b)
  PROVE  IInv'
<1>0. TypeOK /\ Kept /\ Counted /\ Owed
  BY DEF IInv
<1> DEFINE owed == RefundOf(purchases[b])
<1>1. /\ sale.on /\ Expired /\ Failed /\ EntryOf(b) # << >> /\ held >= owed
      /\ purchases' = Without(purchases, {b})
      /\ held' = held - owed /\ refunded' = [refunded EXCEPT ![b] = @ + owed]
      /\ UNCHANGED <<now, sale, saleConducted, numberAvailable, available, owner, stuck, sales>>
  BY DEF ClaimRefund, Without
<1>2. Entries(purchases) /\ sale.price \in Nat /\ b \in DOMAIN purchases
  BY <1>0, <1>1, SaleFacts DEF TypeOK, EntryOf
<1>3. /\ Entries(purchases') /\ Entry(purchases', b) = << >>
      /\ \A c \in Buyers \ {b} : Entry(purchases', c) = Entry(purchases, c)
  BY <1>1, <1>2, EntriesRemoved
<1>4. owed = Owes(purchases, sale.price)[b] /\ owed \in Nat
  <2>1. /\ Owes(purchases, sale.price)[b]
             = sale.price * Len(Entry(purchases, b)) + SumTax(Entry(purchases, b))
        /\ Owes(purchases, sale.price)[b] \in Nat
    BY <1>2, EntryFacts
  <2>2. Entry(purchases, b) = purchases[b]
    BY <1>2 DEF Entry
  <2> QED BY <2>1, <2>2 DEF RefundOf
<1>5. DebtOf(purchases', sale.price) = DebtOf(purchases, sale.price) - owed
  <2> DEFINE new == purchases'
             price == sale.price
  <2>1. Entries(new) /\ price \in Nat /\ \A c \in Buyers \ {b} : Entry(new, c) = Entry(purchases, c)
    BY <1>2, <1>3
  <2>2. Entry(new, b) = << >> /\ owed = Owes(purchases, price)[b]
    BY <1>3, <1>4
  <2> HIDE DEF new, price, owed
  <2>3. DebtOf(new, price) = DebtOf(purchases, price) - Owes(purchases, price)[b] + Owes(new, price)[b]
    BY <1>2, <2>1, BooksChange
  <2>4. Owes(new, price)[b] = 0
    BY <2>1, <2>2, EntryFacts
  <2>5. DebtOf(purchases, price) \in Nat
    BY <1>2, <2>1, BooksNat
  <2>6. DebtOf(new, price) = DebtOf(purchases, price) - owed
    BY <1>4, <2>2, <2>3, <2>4, <2>5
  <2> QED BY <2>6 DEF new, price
<1> HIDE DEF owed
<1>6. Refunding /\ Refunding' /\ SaleOver /\ SaleOver' /\ sale.on /\ Held' = Held
  BY <1>1 DEF Refunding, SaleOver, Failed, Expired, Held
<1>7. TypeOK'
  <2>1. held' \in Nat
    BY <1>0, <1>1, <1>4 DEF TypeOK
  <2>2. refunded' \in [Buyers -> Nat]
    BY <1>0, <1>1, <1>4 DEF TypeOK
  <2> QED BY <1>0, <1>1, <1>3, <2>1, <2>2 DEF TypeOK
<1>8. Kept'
  BY <1>0, <1>1, <1>6 DEF Kept
<1>9. Counted'
  BY <1>0, <1>1, <1>6 DEF Counted, CountMatches
<1>10. Owed'
  <2>1. held = stuck + DebtOf(purchases, sale.price) /\ stuck \in Nat /\ DebtOf(purchases, sale.price) \in Nat
    BY <1>0, <1>2, <1>6, BooksNat DEF Owed, TypeOK
  <2>2. held' = stuck' + DebtOf(purchases', sale'.price)
    BY <1>1, <1>4, <1>5, <2>1
  <2> QED BY <1>1, <1>6, <2>2 DEF Owed
<1> QED BY <1>7, <1>8, <1>9, <1>10 DEF IInv

LEMMA BurnFacts ==
  ASSUME TypeOK, available \subseteq Held, NEW burned, Burn(burned)
  PROVE  /\ owner' \in [Tokens -> Int] /\ available' \subseteq available
         /\ available' \subseteq Held'
         /\ Cardinality(available') \in Nat /\ Cardinality(available) \in Nat
         /\ Cardinality(available') <= Cardinality(available)
<1>1. owner' \in [Tokens -> Int] /\ available' \subseteq available
  BY DEF Burn, TypeOK, Nobody
<1>2. available' \subseteq Held'
  <2> SUFFICES ASSUME NEW t \in available' PROVE t \in Held'
    OBVIOUS
  <2>1. t \in Tokens /\ owner[t] = Contract /\ t \notin burned
    BY DEF Burn, Held
  <2> QED BY <2>1 DEF Burn, Held
<1>3. IsFiniteSet(available)
  BY CrowdfundAssumption, FS_Subset DEF TypeOK
<1> QED BY <1>1, <1>2, <1>3, FS_Subset, FS_CardinalityType

\* Nothing is taken from the front of a set only if the set is empty.
LEMMA NothingFirst ==
  ASSUME TypeOK, NEW limit \in Limits
  PROVE  /\ FirstOf(Held, limit) = {} => Held = {}
         /\ FirstOf(DOMAIN purchases, limit) = {} => DOMAIN purchases = {}
         /\ FirstOf(DOMAIN purchases, limit) \subseteq DOMAIN purchases
<1>1. limit \in Nat /\ limit > 0
  BY CrowdfundAssumption
<1>2. Held \subseteq Nat /\ IsFiniteSet(Held)
  BY CrowdfundAssumption, FS_Subset DEF Held
<1>3. DOMAIN purchases \subseteq Nat /\ IsFiniteSet(DOMAIN purchases)
  BY BuyersFinite, FS_Subset DEF TypeOK, Entries
<1> QED BY <1>1, <1>2, <1>3, FirstOfFacts

LEMMA NoSaleFacts ==
  NoSale \in SaleRecord /\ ~NoSale.on /\ NoSale.toSend = 0
BY DEF NoSale, SaleRecord

LEMMA RefundBatchInv ==
  ASSUME NEW limit \in Limits, IInv, SaleOver, Failed, RefundBatch(limit),
         UNCHANGED <<now, stuck>>
  PROVE  IInv'
<1>0. TypeOK /\ Kept /\ Counted /\ Owed
  BY DEF IInv
<1> DEFINE batch == FirstOf(DOMAIN purchases, limit)
           burned == FirstOf(Held, limit)
           back == [b \in Buyers |-> IF b \in batch THEN RefundOf(purchases[b]) ELSE 0]
<1>1. /\ held >= SumFunction(back) /\ held' = held - SumFunction(back)
      /\ refunded' = [b \in Buyers |-> refunded[b] + back[b]]
      /\ purchases' = Without(purchases, batch) /\ Burn(burned)
      /\ IF burned = {} /\ batch = {} THEN ClearState ELSE UNCHANGED <<sale, numberAvailable>>
  BY DEF RefundBatch, Without
<1>2. Entries(purchases) /\ sale.price \in Nat /\ sale.on
  BY <1>0, SaleFacts DEF TypeOK, SaleOver
<1>3. /\ batch \subseteq DOMAIN purchases /\ (batch = {} => DOMAIN purchases = {})
      /\ burned = {} => Held = {}
  BY <1>0, NothingFirst
<1>4. back = RefundsTo(purchases, batch, sale.price)
  BY DEF RefundOf, RefundsTo
<1> HIDE DEF batch, burned, back
<1>5. /\ DebtOf(purchases', sale.price) = DebtOf(purchases, sale.price) - SumFunction(back)
      /\ SumFunction(back) \in Nat /\ \A b \in Buyers : back[b] \in Nat
  <2> DEFINE new == purchases'
             price == sale.price
  <2>1. new = Without(purchases, batch) /\ price \in Nat /\ batch \in SUBSET DOMAIN purchases
    BY <1>1, <1>2, <1>3
  <2>2. back = RefundsTo(purchases, batch, price)
    BY <1>4
  <2> HIDE DEF new, price
  <2>3. /\ DebtOf(new, price) = DebtOf(purchases, price) - SumFunction(back)
        /\ SumFunction(back) \in Nat /\ \A b \in Buyers : back[b] \in Nat
    BY <1>2, <2>1, <2>2, BooksRefunded
  <2> QED BY <2>3 DEF new, price
<1>6. Entries(purchases')
  BY <1>1, <1>2, EntriesRemoved
<1>7. /\ owner' \in [Tokens -> Int] /\ available' \subseteq available /\ available' \subseteq Held'
      /\ Cardinality(available') \in Nat /\ Cardinality(available) \in Nat
      /\ Cardinality(available') <= Cardinality(available)
  BY <1>0, <1>1, BurnFacts DEF Kept
<1>8. TypeOK'
  <2>1. held' \in Nat
    BY <1>0, <1>1, <1>5 DEF TypeOK
  <2>2. refunded' \in [Buyers -> Nat]
    BY <1>0, <1>1, <1>5 DEF TypeOK
  <2>3. sale' \in SaleRecord /\ numberAvailable' \in Nat
    BY <1>0, <1>1, NoSaleFacts DEF TypeOK, ClearState
  <2>4. available' \subseteq Tokens
    BY <1>0, <1>7 DEF TypeOK
  <2> QED BY <1>0, <1>6, <1>7, <2>1, <2>2, <2>3, <2>4 DEF TypeOK
<1>9. held = stuck + DebtOf(purchases, sale.price) /\ stuck \in Nat
      /\ DebtOf(purchases, sale.price) \in Nat
  BY <1>0, <1>2, BooksNat DEF Owed, TypeOK, Refunding
<1>10. held' = stuck' + DebtOf(purchases', sale.price)
  <2>1. \A s, d, x \in Nat : (s + d) - x = s + (d - x)
    OBVIOUS
  <2> QED BY <1>1, <1>5, <1>9, <2>1
<1>11. CASE burned = {} /\ batch = {}
  <2>1. sale' = NoSale /\ numberAvailable' = 0 /\ Held = {} /\ DOMAIN purchases = {}
    BY <1>1, <1>3, <1>11 DEF ClearState
  <2>2. available' = {}
    BY <1>0, <1>7, <2>1 DEF Kept
  <2>3. \A b \in DOMAIN purchases' : purchases'[b] = << >>
    BY <1>1, <2>1 DEF Without, Restrict
  <2>4. /\ FeesOf(purchases') = 0 /\ DebtOf(purchases', sale.price) = 0
        /\ TokensKept(purchases', Held' \ available')
    BY <1>2, <1>6, <2>3, NothingBought
  <2>5. ~sale'.on /\ sale'.toSend = 0 /\ ~Refunding' /\ ~SaleOver'
    BY <2>1, NoSaleFacts DEF Refunding, SaleOver
  <2>6. Kept'
    BY <1>7, <2>3, <2>4, <2>5 DEF Kept
  <2>7. Counted'
    BY <2>1, <2>2, <2>5, FS_EmptySet DEF Counted, CountMatches
  <2>8. Owed'
    BY <1>9, <1>10, <2>4, <2>5 DEF Owed
  <2> QED BY <1>8, <2>6, <2>7, <2>8 DEF IInv
<1>12. CASE ~(burned = {} /\ batch = {})
  <2>1. UNCHANGED <<sale, numberAvailable>>
    BY <1>1, <1>12
  <2>2. Refunding' /\ SaleOver' /\ sale'.on
    BY <1>2, <2>1 DEF Refunding, SaleOver, Failed, Expired
  <2>3. Kept'
    BY <1>7, <2>2 DEF Kept
  <2>4. Cardinality(available) <= numberAvailable /\ numberAvailable \in Nat
    BY <1>0 DEF Counted, CountMatches, TypeOK
  <2>5. Counted'
    BY <1>7, <2>1, <2>2, <2>4 DEF Counted, CountMatches
  <2>6. Owed'
    BY <1>10, <2>1, <2>2 DEF Owed
  <2> QED BY <1>8, <2>3, <2>5, <2>6 DEF IInv
<1> QED BY <1>11, <1>12

LEMMA PayAndBurnInv ==
  ASSUME NEW limit \in Limits, IInv, SaleOver, ~Failed, sale.transferred = sale.sold,
         PayAndBurn(limit), UNCHANGED <<now, stuck>>
  PROVE  IInv'
<1>0. TypeOK /\ Kept /\ Counted /\ Owed
  BY DEF IInv
<1> DEFINE burned == FirstOf(Held, limit)
<1>1. /\ held >= sale.toSend /\ held' = held - sale.toSend /\ Burn(burned)
      /\ IF burned = {} THEN ClearState
         ELSE sale' = [sale EXCEPT !.toSend = 0] /\ UNCHANGED numberAvailable
      /\ UNCHANGED <<purchases, refunded>>
  BY DEF PayAndBurn
<1>2. Entries(purchases) /\ sale.price \in Nat /\ sale.on /\ ~Refunding
      /\ sale.toSend \in Nat /\ sale.sold \in Nat
  BY <1>0, SaleFacts DEF TypeOK, SaleOver, Refunding
<1>3. burned = {} => Held = {}
  BY <1>0, NothingFirst
<1> HIDE DEF burned
<1>4. /\ CountOf(purchases) = 0 /\ \A b \in DOMAIN purchases : purchases[b] = << >>
      /\ FeesOf(purchases) = 0 /\ \A S : TokensKept(purchases, S)
  <2>1. CountOf(purchases) = 0
    BY <1>0, <1>2 DEF Counted
  <2> QED BY <1>2, <2>1, NothingBought
<1>5. /\ owner' \in [Tokens -> Int] /\ available' \subseteq available /\ available' \subseteq Held'
      /\ Cardinality(available') \in Nat /\ Cardinality(available) \in Nat
      /\ Cardinality(available') <= Cardinality(available)
  BY <1>0, <1>1, BurnFacts DEF Kept
<1>6. held' = stuck' + 0 /\ stuck' \in Nat
  <2>1. held = stuck + (sale.toSend + 0) /\ stuck \in Nat /\ held \in Nat
    BY <1>0, <1>2, <1>4 DEF Owed, TypeOK
  <2> QED BY <1>1, <1>2, <2>1
<1>7. TypeOK'
  <2>1. sale' \in SaleRecord /\ numberAvailable' \in Nat
    BY <1>0, <1>1, NoSaleFacts DEF TypeOK, ClearState, SaleRecord
  <2>2. held' \in Nat
    BY <1>6
  <2>3. available' \subseteq Tokens
    BY <1>0, <1>5 DEF TypeOK
  <2> QED BY <1>0, <1>1, <1>5, <1>6, <2>1, <2>2, <2>3 DEF TypeOK
<1>8. Kept'
  BY <1>1, <1>4, <1>5 DEF Kept
<1>9. CASE burned = {}
  <2>1. sale' = NoSale /\ numberAvailable' = 0 /\ Held = {}
    BY <1>1, <1>3, <1>9 DEF ClearState
  <2>2. available' = {}
    BY <1>0, <1>5, <2>1 DEF Kept
  <2>3. ~sale'.on /\ sale'.toSend = 0 /\ ~Refunding' /\ ~SaleOver'
    BY <2>1, NoSaleFacts DEF Refunding, SaleOver
  <2>4. Counted'
    BY <2>1, <2>2, <2>3, FS_EmptySet DEF Counted, CountMatches
  <2>5. Owed'
    BY <1>1, <1>4, <1>6, <2>3 DEF Owed
  <2> QED BY <1>7, <1>8, <2>4, <2>5 DEF IInv
<1>10. CASE burned # {}
  <2>1. sale' = [sale EXCEPT !.toSend = 0] /\ numberAvailable' = numberAvailable
    BY <1>1, <1>10
  <2>2. /\ sale'.toSend = 0 /\ sale'.on = sale.on /\ sale'.expiration = sale.expiration
        /\ sale'.min = sale.min /\ sale'.sold = sale.sold /\ sale'.transferred = sale.transferred
    BY <1>0, <2>1 DEF TypeOK, SaleRecord
  <2>3. sale'.on /\ SaleOver' /\ ~Refunding'
    BY <1>2, <2>1, <2>2 DEF Refunding, SaleOver, Failed, Expired
  <2>4. Cardinality(available) <= numberAvailable /\ numberAvailable \in Nat
    BY <1>0 DEF Counted, CountMatches, TypeOK
  <2>5. Counted'
    <3>1. CountMatches'
      BY <1>5, <2>1, <2>3, <2>4 DEF CountMatches
    <3>2. CountOf(purchases') = sale'.sold - sale'.transferred
      BY <1>1, <1>2, <1>4, <2>2
    <3> QED BY <3>1, <3>2 DEF Counted
  <2>6. Owed'
    BY <1>1, <1>4, <1>6, <2>2, <2>3 DEF Owed
  <2> QED BY <1>7, <1>8, <2>5, <2>6 DEF IInv
<1> QED BY <1>9, <1>10

\* What a batch of deliveries does, in terms of the first q of all purchases.
GivenOf(all, q) == {all[i].token : i \in 1 .. q}

Delivers(all, pos, q) ==
  /\ all \in Seq(PurchaseRecord) /\ LaidOut(all, purchases, DOMAIN purchases, pos)
  /\ q \in Nat /\ q > 0 /\ q <= Len(all)
  /\ IsCut(purchases, pos, q, purchases') /\ DOMAIN purchases' \subseteq DOMAIN purchases
  /\ held >= SumFees(SubSeq(all, 1, q)) /\ SumFees(SubSeq(all, 1, q)) \in Nat
  /\ held' = held - SumFees(SubSeq(all, 1, q))
  /\ sale' = [sale EXCEPT !.transferred = @ + q]
  /\ \A t \in Tokens \cap GivenOf(all, q) :
       \E i \in 1 .. q : all[i].token = t /\ owner'[t] = all[i].purchaser
  /\ \A t \in Tokens \ GivenOf(all, q) : owner'[t] = owner[t]
  /\ owner' = [t \in Tokens |-> owner'[t]]
  /\ UNCHANGED <<numberAvailable, available, refunded>>

LEMMA DeliverStep ==
  ASSUME NEW limit \in Limits, Entries(purchases), DeliverBatch(limit)
  PROVE  \E all, pos, q : Delivers(all, pos, q)
<1> DEFINE all == AllOf(purchases)
           batch == BatchOf(all, limit)
           q == SizeOf(all, limit)
<1>1. /\ all # << >> /\ held >= SumFees(batch)
      /\ purchases' = AfterBatch(purchases, all, limit)
      /\ owner' = [t \in Tokens |->
           IF \E i \in DOMAIN batch : batch[i].token = t
           THEN batch[CHOOSE i \in DOMAIN batch : batch[i].token = t].purchaser
           ELSE owner[t]]
      /\ sale' = [sale EXCEPT !.transferred = @ + Len(batch)]
      /\ held' = held - SumFees(batch)
      /\ UNCHANGED <<numberAvailable, available, refunded>>
  BY DeliverFacts
<1>2. limit \in Nat /\ limit > 0
  BY CrowdfundAssumption
<1>3. all \in Seq(PurchaseRecord) /\ \E pos : LaidOut(all, purchases, DOMAIN purchases, pos)
  BY AllPlaced
<1>4. PICK pos : LaidOut(all, purchases, DOMAIN purchases, pos)
  BY <1>3
<1>5. all # << >>
  BY <1>1
<1> HIDE DEF all
<1>6. q \in 1 .. Len(all) /\ q \in Nat /\ q > 0 /\ q <= Len(all) /\ batch = SubSeq(all, 1, q)
  <2>1. q \in 1 .. Len(all) /\ Len(all) \in Nat /\ batch = SubSeq(all, 1, q)
    BY <1>2, <1>3, <1>5, BatchIsPrefix
  <2> HIDE DEF q
  <2> QED BY <2>1
<1>7. IsCut(purchases, pos, q, purchases') /\ DOMAIN purchases' \subseteq DOMAIN purchases
  <2>1. IsCut(purchases, pos, SizeOf(all, limit), AfterBatch(purchases, all, limit))
    BY <1>2, <1>3, <1>4, <1>5, BatchCuts
  <2>2. DOMAIN AfterBatch(purchases, all, limit) \subseteq DOMAIN purchases
    BY DEF AfterBatch
  <2> QED BY <1>1, <2>1, <2>2
<1> HIDE DEF batch, q
<1>8. /\ Len(batch) = q /\ DOMAIN batch = 1 .. q /\ \A i \in 1 .. q : batch[i] = all[i]
      /\ SumFees(batch) \in Nat
  <2>1. batch \in Seq(PurchaseRecord) /\ Len(batch) = q /\ \A i \in 1 .. q : batch[i] = all[i]
    BY <1>3, <1>6, RowsCut
  <2> QED BY <2>1, RowsOf, RowSumsNat
<1>9. \A t : t \in GivenOf(all, q) <=> \E i \in DOMAIN batch : batch[i].token = t
  BY <1>8 DEF GivenOf
<1>10. ASSUME NEW t \in Tokens \cap GivenOf(all, q)
       PROVE  \E i \in 1 .. q : all[i].token = t /\ owner'[t] = all[i].purchaser
  <2> DEFINE i == CHOOSE k \in DOMAIN batch : batch[k].token = t
  <2>1. i \in DOMAIN batch /\ batch[i].token = t
    BY <1>9
  <2>2. owner'[t] = batch[i].purchaser
    BY <1>1, <1>9
  <2> QED BY <1>8, <2>1, <2>2
<1>11. \A t \in Tokens \ GivenOf(all, q) : owner'[t] = owner[t]
  BY <1>1, <1>9
<1>12. owner' = [t \in Tokens |-> owner'[t]]
  BY <1>1
<1>13. /\ held >= SumFees(SubSeq(all, 1, q)) /\ SumFees(SubSeq(all, 1, q)) \in Nat
       /\ held' = held - SumFees(SubSeq(all, 1, q))
       /\ sale' = [sale EXCEPT !.transferred = @ + q]
       /\ UNCHANGED <<numberAvailable, available, refunded>>
  BY <1>1, <1>6, <1>8
<1> QED BY <1>3, <1>4, <1>6, <1>7, <1>10, <1>11, <1>12, <1>13 DEF Delivers

\* A batch of deliveries: its tokens leave the contract, and its fees are paid.
LEMMA DeliverBatchInv ==
  ASSUME NEW limit \in Limits, IInv, SaleOver, ~Failed, DeliverBatch(limit),
         UNCHANGED <<now, stuck>>
  PROVE  IInv'
<1>0. TypeOK /\ Kept /\ Counted /\ Owed
  BY DEF IInv
<1>1. /\ Entries(purchases) /\ sale.price \in Nat /\ sale.on /\ ~Refunding /\ sale.toSend \in Nat
      /\ sale.sold \in Nat /\ sale.transferred \in Nat
  BY <1>0, SaleFacts DEF TypeOK, SaleOver, Refunding
<1>2. PICK all, pos, q : Delivers(all, pos, q)
  BY <1>1, DeliverStep
<1> DEFINE fees == SumFees(SubSeq(all, 1, q))
<1>3. /\ all \in Seq(PurchaseRecord) /\ LaidOut(all, purchases, DOMAIN purchases, pos)
      /\ q \in Nat /\ q <= Len(all)
      /\ held >= fees /\ fees \in Nat /\ held' = held - fees
      /\ UNCHANGED <<numberAvailable, available, refunded>>
  BY <1>2 DEF Delivers
<1>4. IsCut(purchases, pos, q, purchases') /\ DOMAIN purchases' \subseteq DOMAIN purchases
  BY <1>2 DEF Delivers
<1> HIDE DEF fees
<1>5. /\ Entries(purchases')
      /\ CountOf(purchases') = CountOf(purchases) - q
      /\ FeesOf(purchases') = FeesOf(purchases) - fees
  <2> DEFINE new == purchases'
  <2>1. IsCut(purchases, pos, q, new) /\ DOMAIN new \subseteq DOMAIN purchases
    BY <1>4
  <2> HIDE DEF new
  <2>2. Entries(new)
    BY <1>1, <1>3, <2>1, EntriesCut
  <2>3. CountOf(new) = CountOf(purchases) - q
        /\ FeesOf(new) = FeesOf(purchases) - SumFees(SubSeq(all, 1, q))
    BY <1>1, <1>3, <2>1, <2>2, BooksCut
  <2> QED BY <2>2, <2>3 DEF new, fees
<1> DEFINE given == GivenOf(all, q)
<1>6. /\ available \subseteq Held
      /\ \A t \in given : t \in Held \ available
      /\ TokensKept(purchases', (Held \ available) \ given)
  <2> DEFINE S == Held \ available
             new == purchases'
  <2>1. TokensKept(purchases, S) /\ available \subseteq Held
    BY <1>0, <1>1 DEF Kept
  <2>2. IsCut(purchases, pos, q, new) /\ DOMAIN new \subseteq DOMAIN purchases
    BY <1>4
  <2>3. /\ all \in Seq(PurchaseRecord) /\ LaidOut(all, purchases, DOMAIN purchases, pos)
        /\ q \in Nat /\ q <= Len(all) /\ Entries(purchases)
    BY <1>1, <1>3
  <2> HIDE DEF S, new
  <2>4. /\ \A i \in 1 .. q : all[i].token \in S
        /\ TokensKept(new, S \ {all[i].token : i \in 1 .. q})
    BY <2>1, <2>2, <2>3, CutTokens
  <2> QED BY <2>1, <2>4 DEF S, new, GivenOf, given
<1>7. /\ \A t \in Tokens : t \in given => owner'[t] \in Buyers
      /\ \A t \in Tokens \ given : owner'[t] = owner[t]
      /\ owner' \in [Tokens -> Int]
  <2>1. \A i \in 1 .. q : all[i].purchaser \in Buyers
    <3> TAKE i \in 1 .. q
    <3>1. all[i].purchaser \in DOMAIN purchases
      BY <1>1, <1>3, PlacePurchaser
    <3> QED BY <1>1, <3>1 DEF Entries
  <2> HIDE DEF given
  <2>2. \A t \in Tokens : t \in given => owner'[t] \in Buyers
    BY <1>2, <2>1 DEF Delivers, given
  <2>3. \A t \in Tokens \ given : owner'[t] = owner[t]
    BY <1>2 DEF Delivers, given
  <2>4. \A t \in Tokens : owner'[t] \in Int
    <3> TAKE t \in Tokens
    <3>1. \A b \in Buyers : b \in Int
      BY BuyersFinite
    <3>2. owner[t] \in Int
      BY <1>0 DEF TypeOK
    <3> QED BY <2>2, <2>3, <3>1, <3>2
  <2>5. owner' = [t \in Tokens |-> owner'[t]]
    BY <1>2 DEF Delivers
  <2> QED BY <2>2, <2>3, <2>4, <2>5
<1> HIDE DEF given
<1>8. Held' = Held \ given
  <2>1. \A b \in Buyers : b # Contract
    BY BuyersFinite DEF Contract
  <2>2. \A t \in Tokens : owner'[t] = Contract <=> owner[t] = Contract /\ t \notin given
    BY <1>7, <2>1
  <2> QED BY <2>2 DEF Held
<1>9. /\ sale'.on = sale.on /\ sale'.expiration = sale.expiration /\ sale'.price = sale.price
      /\ sale'.min = sale.min /\ sale'.max = sale.max /\ sale'.sold = sale.sold
      /\ sale'.toSend = sale.toSend /\ sale'.transferred = sale.transferred + q
      /\ sale' \in SaleRecord
  <2>1. sale' = [sale EXCEPT !.transferred = sale.transferred + q]
    BY <1>2 DEF Delivers
  <2>2. sale.transferred + q \in Nat
    BY <1>1, <1>3
  <2> QED BY <1>0, <2>1, <2>2 DEF TypeOK, SaleRecord
<1>10. SaleOver' /\ ~Refunding' /\ sale'.on
  BY <1>1, <1>3, <1>9 DEF SaleOver, Refunding, Failed, Expired
<1>11. TypeOK'
  <2>1. held' \in Nat
    BY <1>0, <1>3 DEF TypeOK
  <2> QED BY <1>0, <1>3, <1>5, <1>7, <1>9, <2>1 DEF TypeOK
<1>12. Kept'
  <2>1. \A t \in available : t \in Held /\ t \notin given
    BY <1>6
  <2>2. available' \subseteq Held'
    BY <1>3, <1>8, <2>1
  <2>3. Held' \ available' = (Held \ available) \ given
    BY <1>3, <1>8
  <2>4. TokensKept(purchases', Held' \ available')
    BY <1>6, <2>3
  <2> QED BY <1>10, <2>2, <2>4 DEF Kept
<1>13. Counted'
  <2>1. CountMatches'
    BY <1>0, <1>3, <1>10 DEF Counted, CountMatches
  <2>2. CountOf(purchases) = sale.sold - sale.transferred
    BY <1>0, <1>1 DEF Counted
  <2>3. CountOf(purchases') = sale'.sold - sale'.transferred
    BY <1>1, <1>3, <1>5, <1>9, <2>2
  <2> QED BY <2>1, <2>3 DEF Counted
<1>14. Owed'
  <2>1. held = stuck + (sale.toSend + FeesOf(purchases)) /\ stuck \in Nat /\ FeesOf(purchases) \in Nat
    BY <1>0, <1>1, BooksNat DEF Owed, TypeOK
  <2>2. held' = stuck' + (sale'.toSend + FeesOf(purchases'))
    <3>1. (stuck + (sale.toSend + FeesOf(purchases))) - fees
            = stuck + (sale.toSend + (FeesOf(purchases) - fees))
      <4> DEFINE t == sale.toSend
                 f == FeesOf(purchases)
      <4>1. stuck \in Nat /\ t \in Nat /\ f \in Nat /\ fees \in Nat
        BY <1>1, <1>3, <2>1
      <4> HIDE DEF t, f
      <4>2. (stuck + (t + f)) - fees = stuck + (t + (f - fees))
        BY <4>1
      <4> QED BY <4>2 DEF t, f
    <3>2. held' = (stuck + (sale.toSend + FeesOf(purchases))) - fees /\ stuck' = stuck
      BY <1>3, <2>1
    <3> QED BY <1>5, <1>9, <3>1, <3>2
  <2> QED BY <1>10, <2>2 DEF Owed
<1> QED BY <1>11, <1>12, <1>13, <1>14 DEF IInv

LEMMA EndSaleInv ==
  ASSUME NEW limit \in Limits, IInv, EndSale(limit)
  PROVE  IInv'
<1>1. SaleOver /\ UNCHANGED <<now, stuck>>
  BY DEF EndSale
<1>2. CASE Failed /\ RefundBatch(limit)
  BY <1>1, <1>2, RefundBatchInv
<1>3. CASE ~Failed /\ sale.transferred = sale.sold /\ PayAndBurn(limit)
  BY <1>1, <1>3, PayAndBurnInv
<1>4. CASE ~Failed /\ sale.transferred # sale.sold /\ DeliverBatch(limit)
  BY <1>1, <1>4, DeliverBatchInv
<1> QED BY <1>2, <1>3, <1>4 DEF EndSale

LEMMA NextInv == IInv /\ [Next]_vars => IInv'
<1> SUFFICES ASSUME IInv, [Next]_vars PROVE IInv'
  OBVIOUS
<1>1. CASE Tick
  BY <1>1, TickInv
<1>2. CASE \E T \in SUBSET Tokens : \E S \in SUBSET T : Mint(T, S)
  BY <1>2, MintInv
<1>3. CASE \E expiration \in Expirations, price \in Prices, min \in MinTokens,
              max \in WalletLimits : StartSale(expiration, price, min, max)
  BY <1>3, StartSaleInv
<1>4. ASSUME NEW b \in Buyers, NEW tax \in Taxes, NEW royalty \in Royalties,
             \/ \E n \in 1 .. sale.max : Purchase(b, n, tax, royalty)
             \/ \E t \in Tokens, excess \in Excess : PurchaseByTokenId(b, t, tax, royalty, excess)
      PROVE  IInv'
  BY <1>4, PurchaseInv, PurchaseByTokenIdInv
<1>5. CASE \E b \in Buyers : ClaimRefund(b)
  BY <1>5, ClaimRefundInv
<1>6. CASE \E limit \in Limits : EndSale(limit)
  BY <1>6, EndSaleInv
<1>7. CASE UNCHANGED vars
  <2>1. UNCHANGED <<now, sale, numberAvailable, available, purchases, owner, held, stuck, refunded>>
    BY <1>7 DEF vars
  <2>2. TypeOK'
    BY <2>1 DEF IInv, TypeOK
  <2>3. (Refunding' <=> Refunding) /\ (SaleOver' <=> SaleOver) /\ Held' = Held
    BY <2>1 DEF Refunding, SaleOver, Failed, Expired, Held
  <2>4. Kept' /\ Counted' /\ Owed'
    BY <2>1, <2>3 DEF IInv, Kept, Counted, CountMatches, Owed
  <2> QED BY <2>2, <2>4 DEF IInv
<1> QED BY <1>1, <1>2, <1>3, <1>4, <1>5, <1>6, <1>7 DEF Next

LEMMA Invariant == Spec => []IInv
BY InitInv, NextInv, PTL DEF Spec

-----------------------------------------------------------------------------
\* The entries of PURCHASES name the buyer they are kept for, the balances and
\* counters stay naturals: no subtraction of the contract underflows.
THEOREM TypeCorrect == Spec => []TypeOK
<1>1. IInv => TypeOK
  BY DEF IInv
<1> QED BY <1>1, Invariant, PTL

LEMMA InvSalesMatch == IInv => SalesMatch
<1> SUFFICES ASSUME IInv PROVE SalesMatch
  OBVIOUS
<1> DEFINE all == AllOf(purchases)
<1>1. AllPurchases = all
  BY DEF AllPurchases, AllOf
<1>2. TypeOK /\ Kept /\ Counted /\ Entries(purchases)
  BY DEF IInv, TypeOK
<1>3. Len(all) = CountOf(purchases)
  BY <1>2, AllBooks
<1>4. PurchasedTokensKept
  <2>1. available \subseteq Held
    BY <1>2 DEF Kept
  <2>2. ASSUME ~Refunding
        PROVE  \A i \in DOMAIN all :
                 /\ all[i].token \in Held \ available
                 /\ \A j \in DOMAIN all : all[j].token = all[i].token => i = j
    <3> DEFINE S == Held \ available
    <3>1. TokensKept(purchases, S)
      BY <1>2, <2>2 DEF Kept
    <3> HIDE DEF S
    <3>2. \A i \in DOMAIN AllOf(purchases) :
            /\ AllOf(purchases)[i].token \in S
            /\ \A j \in DOMAIN AllOf(purchases) :
                 AllOf(purchases)[j].token = AllOf(purchases)[i].token => i = j
      BY <1>2, <3>1, KeptInOrder
    <3> QED BY <3>2 DEF S
  <2>3. ASSUME ~sale.on PROVE all = << >>
    <3>1. CountOf(purchases) = 0
      <4>1. \A b \in DOMAIN purchases : purchases[b] = << >>
        BY <1>2, <2>3 DEF Kept
      <4>2. sale.price \in Nat
        BY <1>2, SaleFacts
      <4> QED BY <1>2, <4>1, <4>2, NothingBought
    <3>2. all \in Seq(PurchaseRecord)
      BY <1>2, AllPlaced
    <3> HIDE DEF all
    <3> QED BY <1>3, <3>1, <3>2, EmptySeq
  <2> HIDE DEF all
  <2> QED BY <1>1, <2>1, <2>2, <2>3 DEF PurchasedTokensKept
<1>5. SoldMatches
  BY <1>1, <1>2, <1>3 DEF SoldMatches, Counted
<1> QED BY <1>2, <1>4, <1>5 DEF SalesMatch, Counted

\* Through every batch of EndSale, and whatever is bought, refunded and burned,
\* the purchases still stored, the tokens the contract holds, AVAILABLE_TOKENS
\* and its counter, and amount_sold and amount_transferred agree.
THEOREM SalesAlwaysMatch == Spec => []SalesMatch
BY Invariant, InvSalesMatch, PTL

LEMMA InvSolvent == IInv => Solvent
<1> SUFFICES ASSUME IInv PROVE Solvent
  OBVIOUS
<1>1. TypeOK /\ Owed /\ Entries(purchases)
  BY DEF IInv, TypeOK
<1>2. SumFees(AllPurchases) = FeesOf(purchases)
  <2>1. AllPurchases = AllOf(purchases)
    BY DEF AllPurchases, AllOf
  <2> QED BY <1>1, <2>1, AllBooks
<1>3. SumFunction([b \in Buyers |-> RefundOf(EntryOf(b))]) = DebtOf(purchases, sale.price)
  BY DEF SumFunction, RefundOf, EntryOf, Entry, DebtOf
<1> QED BY <1>1, <1>2, <1>3 DEF Solvent, Owed

\* The contract holds, to the coin, what it owes: every refund of a failed sale,
\* and otherwise the funds to send and the fees of what is still to deliver.
THEOREM AlwaysSolvent == Spec => []Solvent
BY Invariant, InvSolvent, PTL

-----------------------------------------------------------------------------
(* The contract keeps the promise of SaleOutcome.                            *)

TokensIn(ps) == {ps[k].token : k \in 1 .. Len(ps)}
Goods(es) == [b \in Buyers |-> TokensIn(Entry(es, b))]

Mapping == Bought = Goods(purchases) /\ Escrow = Owes(purchases, sale.price)

LEMMA Mapped == TypeOK => Mapping
<1> SUFFICES ASSUME TypeOK PROVE Mapping
  OBVIOUS
<1>1. ASSUME NEW b \in Buyers
      PROVE  /\ {EntryOf(b)[i].token : i \in DOMAIN EntryOf(b)} = TokensIn(Entry(purchases, b))
             /\ RefundOf(EntryOf(b)) = sale.price * Len(Entry(purchases, b)) + SumTax(Entry(purchases, b))
  <2>1. EntryOf(b) = Entry(purchases, b)
    BY DEF EntryOf, Entry
  <2> DEFINE s == Entry(purchases, b)
  <2>2. s \in Seq(PurchaseRecord)
    BY EntryFacts DEF TypeOK
  <2> HIDE DEF s
  <2>3. DOMAIN s = 1 .. Len(s)
    BY <2>2, LenProperties
  <2>4. {s[i].token : i \in DOMAIN s} = TokensIn(s)
    BY <2>3 DEF TokensIn
  <2> QED BY <2>1, <2>4 DEF s, RefundOf
<1>2. Bought = Goods(purchases)
  BY <1>1 DEF Bought, Goods
<1>3. Escrow = Owes(purchases, sale.price)
  BY <1>1 DEF Escrow, Owes
<1> QED BY <1>2, <1>3 DEF Mapping

FateIs ==
  /\ ~sale.on <=> Fate = "none"
  /\ sale.on /\ ~SaleOver <=> Fate = "open"
  /\ Refunding <=> Fate = "refunding"
  /\ SaleOver /\ ~Failed <=> Fate = "delivering"
  /\ Fate \in {"none", "open", "delivering", "refunding"}

LEMMA FateFacts == FateIs
BY DEF Fate, FateIs, Refunding, SaleOver

\* What the promise is about, before a step and after it.
LEMMA StepMapped ==
  ASSUME IInv, IInv'
  PROVE  /\ Entries(purchases) /\ Entries(purchases') /\ sale.price \in Nat /\ sale'.price \in Nat
         /\ Bought = Goods(purchases) /\ Escrow = Owes(purchases, sale.price)
         /\ Bought' = Goods(purchases') /\ Escrow' = Owes(purchases', sale'.price)
         /\ FateIs /\ FateIs'
<1>1. TypeOK /\ TypeOK'
  BY DEF IInv
<1>2. Mapping /\ Mapping' /\ FateIs /\ FateIs'
  BY <1>1, Mapped, FateFacts, PTL
<1>3. sale.price \in Nat /\ sale'.price \in Nat
  BY <1>1 DEF TypeOK, SaleRecord
<1> QED BY <1>1, <1>2, <1>3 DEF Mapping, TypeOK

LEMMA SameBooks ==
  ASSUME IInv, IInv', purchases' = purchases, sale'.price = sale.price
  PROVE  Bought' = Bought /\ Escrow' = Escrow
BY StepMapped

\* Entries without purchases: nothing to deliver and nothing to refund.
LEMMA NothingOwed ==
  ASSUME NEW es, Entries(es), \A b \in DOMAIN es : es[b] = << >>, NEW price \in Nat
  PROVE  Goods(es) = [b \in Buyers |-> {}] /\ Owes(es, price) = [b \in Buyers |-> 0]
<1>1. ASSUME NEW b \in Buyers
      PROVE  TokensIn(Entry(es, b)) = {} /\ price * Len(Entry(es, b)) + SumTax(Entry(es, b)) = 0
  <2>1. Entry(es, b) = << >>
    BY DEF Entry
  <2>2. Len(Entry(es, b)) = 0
    BY <2>1, EmptySeq
  <2>3. Owes(es, price)[b] = 0 /\ Owes(es, price)[b] = price * Len(Entry(es, b)) + SumTax(Entry(es, b))
    BY <2>2, EntryFacts
  <2>4. TokensIn(Entry(es, b)) = {}
    BY <2>2 DEF TokensIn
  <2> QED BY <2>3, <2>4
<1> QED BY <1>1 DEF Goods, Owes

LEMMA SameState ==
  ASSUME Fate' = Fate, available' = available, Bought' = Bought, Escrow' = Escrow,
         refunded' = refunded, owner' = owner
  PROVE  UNCHANGED Promise!vars
BY DEF Promise!vars

LEMMA TickPromise ==
  ASSUME IInv, IInv', Tick
  PROVE  Promise!Next \/ UNCHANGED Promise!vars
<1>1. /\ UNCHANGED <<sale, numberAvailable, available, purchases, owner, refunded>>
      /\ Bought' = Bought /\ Escrow' = Escrow
  BY SameBooks DEF Tick
<1>2. FateIs /\ FateIs' /\ (SaleOver => SaleOver') /\ (Failed' <=> Failed)
  BY StepMapped, SaleFacts DEF Tick, IInv, TypeOK, SaleOver, Expired, Failed
<1>3. CASE Fate' = Fate
  BY <1>1, <1>3, SameState
<1>4. CASE Fate' # Fate
  <2>1. Fate = "open" /\ Fate' \in {"delivering", "refunding"}
    BY <1>1, <1>2, <1>4 DEF FateIs, Refunding, SaleOver
  <2>2. Promise!End
    BY <1>1, <2>1 DEF Promise!End, Promise!Ended
  <2> QED BY <2>2 DEF Promise!Next
<1> QED BY <1>3, <1>4

LEMMA MintPromise ==
  ASSUME NEW T \in SUBSET Tokens, NEW S \in SUBSET T, IInv, IInv', Mint(T, S)
  PROVE  Promise!Next
<1>1. /\ ~sale.on /\ \A t \in T : owner[t] = Nobody
      /\ owner' = [t \in Tokens |-> IF t \in S THEN Contract
                                    ELSE IF t \in T THEN Outside ELSE owner[t]]
      /\ available' = available \cup S /\ UNCHANGED <<sale, purchases, refunded>>
  BY DEF Mint
<1>2. Bought' = Bought /\ Escrow' = Escrow /\ Fate = "none" /\ Fate' = Fate
  BY <1>1, SameBooks, StepMapped DEF FateIs
<1>3. S \in SUBSET {t \in Tokens : owner[t] = Nobody}
  BY <1>1
<1>4. \A t \in Tokens : /\ t \in S => owner'[t] = Contract
                        /\ owner[t] = Nobody /\ t \notin S => owner'[t] \in {Outside, Nobody}
                        /\ owner[t] # Nobody => owner'[t] = owner[t]
  BY <1>1
<1>5. Promise!Mint
  BY <1>1, <1>2, <1>3, <1>4 DEF Promise!Mint
<1> QED BY <1>5 DEF Promise!Next

LEMMA StartSalePromise ==
  ASSUME NEW expiration \in Expirations, NEW price \in Prices, NEW min \in MinTokens,
         NEW max \in WalletLimits, IInv, IInv', StartSale(expiration, price, min, max)
  PROVE  Promise!Next
<1>1. /\ ~sale.on /\ expiration > now /\ expiration \in Nat /\ now \in Nat /\ now' = now
      /\ sale'.on /\ sale'.expiration = expiration
      /\ UNCHANGED <<numberAvailable, available, purchases, owner, refunded>>
  BY CrowdfundAssumption DEF StartSale, IInv, TypeOK
<1>2. \A b \in DOMAIN purchases : purchases[b] = << >>
  BY <1>1 DEF IInv, Kept
<1>3. Bought' = Bought /\ Escrow' = Escrow
  <2> DEFINE old == sale.price
             new == sale'.price
  <2>1. /\ Entries(purchases) /\ old \in Nat /\ new \in Nat
        /\ Bought = Goods(purchases) /\ Escrow = Owes(purchases, old)
        /\ Bought' = Goods(purchases) /\ Escrow' = Owes(purchases, new)
    BY <1>1, StepMapped
  <2> HIDE DEF old, new
  <2>2. Owes(purchases, old) = [b \in Buyers |-> 0] /\ Owes(purchases, new) = [b \in Buyers |-> 0]
    BY <1>2, <2>1, NothingOwed
  <2> QED BY <2>1, <2>2
<1>4. Fate = "none" /\ Fate' \in {"open", "delivering", "refunding"}
      /\ (Fate' # "open" => SaleOver')
  BY <1>1, StepMapped DEF FateIs
<1>5. ASSUME SaleOver' PROVE available = {}
  <2>1. numberAvailable = 0
    BY <1>1, <1>5 DEF SaleOver, Expired
  <2>2. numberAvailable = Cardinality(available)
    BY <1>1 DEF IInv, Counted, CountMatches, SaleOver
  <2>3. IsFiniteSet(available)
    BY CrowdfundAssumption, FS_Subset DEF IInv, TypeOK
  <2> QED BY <2>1, <2>2, <2>3, FS_EmptySet
<1>6. Promise!Open
  BY <1>1, <1>3, <1>4, <1>5 DEF Promise!Open, Promise!Ended
<1> QED BY <1>6 DEF Promise!Next

LEMMA BuyPromise ==
  ASSUME NEW b \in Buyers, NEW ids, Chosen(ids), NEW tax \in Nat, NEW royalty \in Nat,
         NEW excess \in Nat, IInv, IInv', SaleOpen, PurchaseTokens(b, ids, tax, royalty, excess),
         UNCHANGED <<now, owner, refunded>>
  PROVE  Promise!Next
<1> DEFINE n == Len(ids)
           rows == [i \in DOMAIN ids |->
                      [token |-> ids[i], tax |-> tax, fees |-> royalty + tax, purchaser |-> b]]
           T == ToSet(ids)
<1>1. /\ ids # << >> /\ Extended(purchases, b, rows, purchases')
      /\ sale' = [sale EXCEPT !.toSend = @ + n * (sale.price - royalty), !.sold = @ + n]
      /\ available' = available \ T
  BY DEF PurchaseTokens, EntryOf, Entry, Extended
<1>2. n \in Nat /\ n > 0 /\ DOMAIN ids = 1 .. n /\ T \subseteq available
  <2>1. n \in Nat /\ DOMAIN ids = 1 .. n /\ T \subseteq available
    BY ChosenCount
  <2>2. n # 0
    BY <1>1, <2>1, EmptySeq DEF Chosen
  <2> QED BY <2>1, <2>2
<1>3. /\ rows \in Seq(PurchaseRecord) /\ Len(rows) = n
      /\ \A i \in 1 .. n : rows[i].token = ids[i] /\ rows[i].purchaser = b
  BY RowsBought
<1>4. sale'.on /\ sale'.expiration = sale.expiration /\ sale'.price = sale.price
  BY <1>1 DEF IInv, TypeOK, SaleRecord, SaleOpen
<1>5. T # {} /\ T = {ids[i] : i \in 1 .. n}
  BY <1>2 DEF ToSet
<1> HIDE DEF rows, n, T
<1>6. /\ Entries(purchases) /\ sale.price \in Nat
      /\ Bought = Goods(purchases) /\ Escrow = Owes(purchases, sale.price)
      /\ Bought' = Goods(purchases') /\ Escrow' = Owes(purchases', sale.price)
      /\ FateIs /\ FateIs'
  BY <1>4, StepMapped
<1>7. /\ Entry(purchases', b) = Entry(purchases, b) \o rows /\ Entries(purchases')
      /\ \A c \in Buyers \ {b} : Entry(purchases', c) = Entry(purchases, c)
  <2>1. \A i \in 1 .. Len(rows) : rows[i].purchaser = b
    BY <1>3
  <2> QED BY <1>1, <1>3, <1>6, <2>1, EntryExtended
<1>8. TokensIn(Entry(purchases', b)) = TokensIn(Entry(purchases, b)) \cup T
  <2> DEFINE s == Entry(purchases, b)
  <2>1. s \in Seq(PurchaseRecord)
    BY <1>6, EntryFacts
  <2>2. Entry(purchases', b) = s \o rows
    BY <1>7
  <2> HIDE DEF s
  <2>3. /\ Len(s) \in Nat /\ Len(s \o rows) = Len(s) + n
        /\ \A i \in 1 .. Len(s) : (s \o rows)[i] = s[i]
        /\ \A i \in 1 .. n : (s \o rows)[Len(s) + i] = rows[i]
    BY <1>2, <1>3, <2>1, LenProperties
  <2>4. \A i \in 1 .. (Len(s) + n) : i \in 1 .. Len(s) \/ (i - Len(s) \in 1 .. n /\ i = Len(s) + (i - Len(s)))
    BY <1>2, <2>3
  <2>5. \A i \in 1 .. n : Len(s) + i \in 1 .. (Len(s) + n)
    BY <1>2, <2>3
  <2>6. \A i \in 1 .. Len(s) : i \in 1 .. (Len(s) + n)
    BY <1>2, <2>3
  <2>7. ASSUME NEW i \in 1 .. (Len(s) + n) PROVE (s \o rows)[i].token \in TokensIn(s) \cup T
    <3>1. CASE i \in 1 .. Len(s)
      BY <2>3, <3>1 DEF TokensIn
    <3>2. CASE i - Len(s) \in 1 .. n /\ i = Len(s) + (i - Len(s))
      <4> DEFINE j == i - Len(s)
      <4>1. j \in 1 .. n /\ (s \o rows)[i] = rows[j]
        BY <2>3, <3>2
      <4> HIDE DEF j
      <4> QED BY <1>3, <1>5, <4>1
    <3> QED BY <2>4, <3>1, <3>2
  <2>8. ASSUME NEW x \in TokensIn(s) PROVE x \in TokensIn(s \o rows)
    <3>1. PICK i \in 1 .. Len(s) : x = s[i].token
      BY DEF TokensIn
    <3>2. i \in 1 .. Len(s \o rows) /\ x = (s \o rows)[i].token
      BY <2>3, <2>6, <3>1
    <3> QED BY <3>2 DEF TokensIn
  <2>9. ASSUME NEW x \in T PROVE x \in TokensIn(s \o rows)
    <3>1. PICK i \in 1 .. n : x = ids[i]
      BY <1>5
    <3>2. Len(s) + i \in 1 .. Len(s \o rows) /\ x = (s \o rows)[Len(s) + i].token
      BY <1>3, <2>3, <2>5, <3>1
    <3> QED BY <3>2 DEF TokensIn
  <2>10. TokensIn(s \o rows) = TokensIn(s) \cup T
    BY <2>3, <2>7, <2>8, <2>9 DEF TokensIn
  <2> QED BY <2>2, <2>10 DEF s
<1>9. Bought' = [Bought EXCEPT ![b] = @ \cup T]
  BY <1>6, <1>7, <1>8 DEF Goods
<1>10. Escrow'[b] >= Escrow[b] /\ \A c \in Buyers \ {b} : Escrow'[c] = Escrow[c]
  <2> DEFINE new == purchases'
             price == sale.price
             s == Entry(purchases, b)
  <2>1. /\ Entries(new) /\ price \in Nat /\ Entry(new, b) = s \o rows
        /\ \A c \in Buyers \ {b} : Entry(new, c) = Entry(purchases, c)
        /\ Escrow = Owes(purchases, price) /\ Escrow' = Owes(new, price)
    BY <1>6, <1>7
  <2> HIDE DEF new, price, s
  <2>2. /\ s \in Seq(PurchaseRecord) /\ Len(s) \in Nat /\ SumTax(s) \in Nat
        /\ Owes(purchases, price)[b] = price * Len(s) + SumTax(s)
        /\ Owes(new, price)[b] = price * Len(s \o rows) + SumTax(s \o rows)
    <3>1. s \in Seq(PurchaseRecord)
      BY <1>6, EntryFacts DEF s
    <3>2. Len(s) \in Nat /\ SumTax(s) \in Nat
      BY <3>1, RowSumsNat, LenProperties
    <3>3. Owes(purchases, price)[b] = price * Len(s) + SumTax(s)
      BY DEF Owes, s
    <3>4. Owes(new, price)[b] = price * Len(s \o rows) + SumTax(s \o rows)
      BY <2>1 DEF Owes
    <3> QED BY <3>1, <3>2, <3>3, <3>4
  <2>3. Len(s \o rows) = Len(s) + n /\ SumTax(s \o rows) = SumTax(s) + SumTax(rows)
        /\ SumTax(rows) \in Nat
    BY <1>3, <2>2, RowsConcat, RowSumsNat
  <2>4. price * (Len(s) + n) >= price * Len(s) /\ price * (Len(s) + n) \in Nat /\ price * Len(s) \in Nat
    <3>1. price * (Len(s) + n) = price * Len(s) + price * n
      BY <1>2, <2>1, <2>2, SMTT(30)
    <3>2. price * Len(s) \in Nat /\ price * n \in Nat
      BY <1>2, <2>1, <2>2
    <3> QED BY <3>1, <3>2
  <2>5. Owes(new, price)[b] >= Owes(purchases, price)[b]
    <3> DEFINE x == price * (Len(s) + n)
               y == price * Len(s)
               u == SumTax(s)
               v == SumTax(rows)
    <3>1. /\ x \in Nat /\ y \in Nat /\ u \in Nat /\ v \in Nat /\ x >= y
          /\ Owes(purchases, price)[b] = y + u /\ Owes(new, price)[b] = x + (u + v)
      BY <2>2, <2>3, <2>4
    <3> HIDE DEF x, y, u, v
    <3> QED BY <3>1
  <2>6. \A c \in Buyers \ {b} : Owes(new, price)[c] = Owes(purchases, price)[c]
    BY <2>1 DEF Owes
  <2> QED BY <2>1, <2>5, <2>6
<1>11. Fate = "open"
  <2>1. IsFiniteSet(available) /\ available # {}
    BY <1>2, <1>5, CrowdfundAssumption, FS_Subset DEF IInv, TypeOK
  <2>2. Cardinality(available) # 0 /\ Cardinality(available) \in Nat
    BY <2>1, FS_EmptySet, FS_CardinalityType
  <2>3. numberAvailable # 0
    BY <2>2 DEF IInv, Counted, CountMatches
  <2> QED BY <1>6, <2>3 DEF FateIs, SaleOver, SaleOpen
<1>12. /\ Fate' \in {"open", "delivering", "refunding"}
       /\ Fate' # "open" => available' = {}
  <2>1. /\ Fate' \in {"open", "delivering", "refunding"} /\ (Fate' # "open" => SaleOver')
    BY <1>4, <1>6 DEF FateIs
  <2>2. ASSUME SaleOver' PROVE available' = {}
    <3>1. numberAvailable' = 0
      BY <1>4, <2>2 DEF SaleOver, Expired, SaleOpen
    <3>2. IsFiniteSet(available') /\ Cardinality(available') <= numberAvailable'
      BY CrowdfundAssumption, FS_Subset DEF IInv, TypeOK, Counted, CountMatches
    <3>3. Cardinality(available') = 0
      BY <3>1, <3>2, FS_CardinalityType
    <3> QED BY <3>2, <3>3, FS_EmptySet
  <2> QED BY <2>1, <2>2
<1>13. Promise!Buy(b)
  <2>1. T \in (SUBSET available) \ {{}}
    BY <1>2, <1>5
  <2> QED BY <1>1, <1>9, <1>10, <1>11, <1>12, <2>1 DEF Promise!Buy, Promise!Ended
<1> QED BY <1>13 DEF Promise!Next

LEMMA PurchasePromise ==
  ASSUME NEW b \in Buyers, NEW tax \in Taxes, NEW royalty \in Royalties, NEW n \in 1 .. sale.max,
         IInv, IInv', Purchase(b, n, tax, royalty)
  PROVE  Promise!Next
<1> DEFINE possible == sale.max - Len(EntryOf(b))
           wanted == IF n < possible THEN n ELSE possible
           ids == Ascending(FirstOf(available, wanted))
<1>1. /\ SaleOpen /\ possible > 0 /\ PurchaseTokens(b, ids, tax, royalty, 0)
      /\ UNCHANGED <<now, owner, refunded>>
  BY DEF Purchase
<1>2. TypeOK /\ tax \in Nat /\ royalty \in Nat
  BY CrowdfundAssumption DEF IInv
<1>3. wanted \in Nat
  <2>1. EntryOf(b) = Entry(purchases, b)
    BY DEF EntryOf, Entry
  <2>2. Len(EntryOf(b)) \in Nat /\ sale.max \in Nat
    BY <1>2, <2>1, EntryFacts, SaleFacts DEF TypeOK
  <2> QED BY <1>1, <2>2
<1> HIDE DEF wanted
<1>4. Chosen(ids)
  BY <1>2, <1>3, ChosenFirst
<1> HIDE DEF ids
<1> QED BY <1>1, <1>2, <1>4, BuyPromise

LEMMA PurchaseByTokenIdPromise ==
  ASSUME NEW b \in Buyers, NEW t \in Tokens, NEW tax \in Taxes, NEW royalty \in Royalties,
         NEW excess \in Excess, IInv, IInv', PurchaseByTokenId(b, t, tax, royalty, excess)
  PROVE  Promise!Next
<1>1. /\ SaleOpen /\ t \in available /\ PurchaseTokens(b, <<t>>, tax, royalty, excess)
      /\ UNCHANGED <<now, owner, refunded>>
  BY DEF PurchaseByTokenId
<1>2. tax \in Nat /\ royalty \in Nat /\ excess \in Nat
  BY CrowdfundAssumption
<1>3. Chosen(<<t>>)
  BY <1>1 DEF Chosen
<1> QED BY <1>1, <1>2, <1>3, BuyPromise

\* Some buyers are refunded, and some tokens are burned.
LEMMA RefundPromise ==
  ASSUME IInv, IInv', Refunding, Refunding', NEW B \in SUBSET DOMAIN purchases,
         purchases' = Without(purchases, B), sale'.price = sale.price,
         refunded' = [b \in Buyers |-> IF b \in B THEN refunded[b] + RefundOf(purchases[b])
                                                  ELSE refunded[b]],
         NEW Z \in SUBSET Held, available' = available \ Z,
         owner' = [t \in Tokens |-> IF t \in Z THEN Nobody ELSE owner[t]]
  PROVE  Promise!Next
<1>1. /\ Entries(purchases) /\ sale.price \in Nat
      /\ Bought = Goods(purchases) /\ Escrow = Owes(purchases, sale.price)
      /\ Bought' = Goods(purchases') /\ Escrow' = Owes(purchases', sale.price)
      /\ Fate = "refunding" /\ Fate' = "refunding"
  BY StepMapped DEF FateIs
<1>2. B \in SUBSET Buyers
  BY <1>1 DEF Entries
<1> DEFINE new == purchases'
           price == sale.price
<1>3. /\ \A b \in B : Entry(new, b) = << >>
      /\ \A b \in Buyers \ B : Entry(new, b) = Entry(purchases, b)
  BY <1>1, EntriesRemoved
<1>4. Entries(new) /\ price \in Nat /\ Bought' = Goods(new)
      /\ Escrow = Owes(purchases, price) /\ Escrow' = Owes(new, price)
  BY <1>1, EntriesRemoved
<1>5. \A b \in B : RefundOf(purchases[b]) = Escrow[b]
  BY <1>1, <1>2 DEF RefundOf, Owes, Entry
<1> HIDE DEF new, price
<1>6. \A b \in B : Goods(new)[b] = {} /\ Owes(new, price)[b] = 0
  <2> TAKE b \in B
  <2>1. Len(Entry(new, b)) = 0 /\ b \in Buyers
    BY <1>2, <1>3, EmptySeq
  <2>2. Owes(new, price)[b] = 0
    <3>1. Entries(new) /\ price \in Nat
      BY <1>4
    <3> QED BY <2>1, <3>1, EntryFacts
  <2>3. TokensIn(Entry(new, b)) = {}
    BY <2>1 DEF TokensIn
  <2> QED BY <2>1, <2>2, <2>3 DEF Goods
<1>7. \A b \in Buyers \ B : Goods(new)[b] = Goods(purchases)[b]
                            /\ Owes(new, price)[b] = Owes(purchases, price)[b]
  BY <1>3 DEF Goods, Owes
<1>8. Bought' = [b \in Buyers |-> IF b \in B THEN {} ELSE Bought[b]]
  BY <1>1, <1>4, <1>6, <1>7 DEF Goods
<1>9. Escrow' = [b \in Buyers |-> IF b \in B THEN 0 ELSE Escrow[b]]
  BY <1>4, <1>6, <1>7 DEF Owes
<1>10. refunded' = [b \in Buyers |-> IF b \in B THEN refunded[b] + Escrow[b] ELSE refunded[b]]
  BY <1>5
<1>11. Z \in SUBSET Promise!ContractTokens
  BY DEF Promise!ContractTokens, Held
<1>12. Promise!Refund
  BY <1>1, <1>2, <1>8, <1>9, <1>10, <1>11 DEF Promise!Refund
<1> QED BY <1>12 DEF Promise!Next

LEMMA ClaimRefundPromise ==
  ASSUME NEW b \in Buyers, IInv, IInv', ClaimRefund(b)
  PROVE  Promise!Next
<1>1. /\ Refunding /\ Refunding' /\ b \in DOMAIN purchases
      /\ purchases' = Without(purchases, {b}) /\ sale' = sale
      /\ available' = available /\ owner' = owner
      /\ refunded' = [refunded EXCEPT ![b] = @ + RefundOf(purchases[b])]
  BY DEF ClaimRefund, Without, Refunding, SaleOver, Failed, Expired, EntryOf
<1>2. owner \in [Tokens -> Int] /\ refunded \in [Buyers -> Nat]
  BY DEF IInv, TypeOK
<1>3. /\ refunded' = [c \in Buyers |-> IF c \in {b} THEN refunded[c] + RefundOf(purchases[c])
                                                    ELSE refunded[c]]
      /\ owner' = [t \in Tokens |-> IF t \in {} THEN Nobody ELSE owner[t]]
      /\ available' = available \ {}
  BY <1>1, <1>2
<1>4. {b} \in SUBSET DOMAIN purchases /\ {} \in SUBSET Held
  BY <1>1
<1> QED BY <1>1, <1>3, <1>4, RefundPromise

\* A sale is cleared.
LEMMA ClosePromise ==
  ASSUME IInv, IInv', SaleOver, Held = {}, \A b \in DOMAIN purchases : purchases[b] = << >>,
         sale' = NoSale, refunded' = refunded, Burn({})
  PROVE  Promise!Next
<1>1. ~sale'.on /\ \A b \in DOMAIN purchases' : purchases'[b] = << >>
  BY NoSaleFacts DEF IInv, Kept
<1>2. /\ Entries(purchases) /\ Entries(purchases') /\ sale.price \in Nat /\ sale'.price \in Nat
      /\ Bought = Goods(purchases) /\ Escrow = Owes(purchases, sale.price)
      /\ Bought' = Goods(purchases') /\ Escrow' = Owes(purchases', sale'.price)
      /\ Fate \in {"delivering", "refunding"} /\ Fate' = "none"
  BY <1>1, StepMapped DEF FateIs, SaleOver
<1>3. Bought = [b \in Buyers |-> {}] /\ Escrow = [b \in Buyers |-> 0]
  BY <1>2, NothingOwed
<1>4. Bought' = [b \in Buyers |-> {}] /\ Escrow' = [b \in Buyers |-> 0]
  <2> DEFINE new == purchases'
             price == sale'.price
  <2>1. Entries(new) /\ price \in Nat /\ \A b \in DOMAIN new : new[b] = << >>
    BY <1>1, <1>2
  <2> HIDE DEF new, price
  <2>2. Goods(new) = [b \in Buyers |-> {}] /\ Owes(new, price) = [b \in Buyers |-> 0]
    BY <2>1, NothingOwed
  <2> QED BY <1>2, <2>2 DEF new, price
<1>5. available = {} /\ available' = available /\ owner' = owner
  BY DEF IInv, Kept, TypeOK, Burn
<1>6. Promise!ContractTokens = {}
  BY DEF Promise!ContractTokens, Held
<1>7. Promise!Close
  BY <1>2, <1>3, <1>4, <1>5, <1>6 DEF Promise!Close, Promise!Ended
<1> QED BY <1>7 DEF Promise!Next

LEMMA RefundBatchPromise ==
  ASSUME NEW limit \in Limits, IInv, IInv', SaleOver, Failed, RefundBatch(limit),
         UNCHANGED <<now, stuck>>
  PROVE  Promise!Next
<1> DEFINE batch == FirstOf(DOMAIN purchases, limit)
           burned == FirstOf(Held, limit)
           back == [b \in Buyers |-> IF b \in batch THEN RefundOf(purchases[b]) ELSE 0]
<1>1. /\ refunded' = [b \in Buyers |-> refunded[b] + back[b]]
      /\ purchases' = Without(purchases, batch) /\ Burn(burned)
      /\ IF burned = {} /\ batch = {} THEN ClearState ELSE UNCHANGED <<sale, numberAvailable>>
  BY DEF RefundBatch, Without
<1>2. TypeOK /\ batch \subseteq DOMAIN purchases /\ burned \subseteq Held
  BY NothingFirst DEF IInv, FirstOf
<1>3. \A b \in Buyers : back[b] = IF b \in batch THEN RefundOf(purchases[b]) ELSE 0
  OBVIOUS
<1>4. (batch = {} => DOMAIN purchases = {}) /\ (burned = {} => Held = {})
  BY <1>2, NothingFirst
<1> HIDE DEF batch, burned, back
<1>5. refunded \in [Buyers -> Nat]
  BY <1>2 DEF TypeOK
<1>6. refunded' = [b \in Buyers |-> IF b \in batch THEN refunded[b] + RefundOf(purchases[b])
                                                   ELSE refunded[b]]
  <2>1. \A b \in Buyers : refunded[b] + 0 = refunded[b]
    BY <1>5
  <2> QED BY <1>1, <1>3, <2>1
<1>7. CASE burned = {} /\ batch = {}
  <2>1. sale' = NoSale /\ Held = {} /\ \A b \in DOMAIN purchases : purchases[b] = << >>
    BY <1>1, <1>4, <1>7 DEF ClearState
  <2>2. refunded' = refunded
    BY <1>5, <1>6, <1>7
  <2>3. Burn({})
    BY <1>1, <1>7
  <2> QED BY <2>1, <2>2, <2>3, ClosePromise
<1>8. CASE ~(burned = {} /\ batch = {})
  <2>1. sale' = sale /\ numberAvailable' = numberAvailable
    BY <1>1, <1>8
  <2>2. Refunding /\ Refunding'
    BY <2>1 DEF Refunding, SaleOver, Failed, Expired
  <2>3. available' = available \ burned
        /\ owner' = [t \in Tokens |-> IF t \in burned THEN Nobody ELSE owner[t]]
    BY <1>1 DEF Burn
  <2>4. batch \in SUBSET DOMAIN purchases /\ burned \in SUBSET Held /\ sale'.price = sale.price
    BY <1>2, <2>1
  <2> QED BY <1>1, <1>6, <2>2, <2>3, <2>4, RefundPromise
<1> QED BY <1>7, <1>8

LEMMA PayAndBurnPromise ==
  ASSUME NEW limit \in Limits, IInv, IInv', SaleOver, ~Failed, sale.transferred = sale.sold,
         PayAndBurn(limit), UNCHANGED <<now, stuck>>
  PROVE  Promise!Next
<1> DEFINE burned == FirstOf(Held, limit)
<1>1. /\ Burn(burned) /\ UNCHANGED <<purchases, refunded>>
      /\ IF burned = {} THEN ClearState
         ELSE sale' = [sale EXCEPT !.toSend = 0] /\ UNCHANGED numberAvailable
  BY DEF PayAndBurn
<1>2. TypeOK /\ burned \subseteq Held /\ (burned = {} => Held = {})
  BY NothingFirst DEF IInv, FirstOf
<1> HIDE DEF burned
<1>3. \A b \in DOMAIN purchases : purchases[b] = << >>
  <2>1. sale.on /\ ~Refunding /\ sale.sold \in Nat /\ Entries(purchases)
    BY <1>2, SaleFacts DEF SaleOver, Refunding, TypeOK
  <2>2. CountOf(purchases) = 0
    BY <2>1 DEF IInv, Counted
  <2>3. 0 \in Nat
    OBVIOUS
  <2> QED BY <2>1, <2>2, <2>3, NothingBought
<1>4. CASE burned = {}
  <2>1. sale' = NoSale /\ Held = {} /\ Burn({}) /\ refunded' = refunded
    BY <1>1, <1>2, <1>4 DEF ClearState
  <2> QED BY <1>3, <2>1, ClosePromise
<1>5. CASE burned # {}
  <2>1. /\ sale'.on = sale.on /\ sale'.expiration = sale.expiration /\ sale'.price = sale.price
        /\ sale'.min = sale.min /\ sale'.sold = sale.sold /\ numberAvailable' = numberAvailable
    BY <1>1, <1>2, <1>5 DEF TypeOK, SaleRecord
  <2>2. SaleOver' /\ ~Failed'
    BY <2>1 DEF SaleOver, Failed, Expired
  <2>3. /\ Fate = "delivering" /\ Fate' = "delivering" /\ Bought' = Bought /\ Escrow' = Escrow
    BY <1>1, <2>1, <2>2, SameBooks, StepMapped DEF FateIs
  <2>4. \A b \in Buyers : Bought[b] = {}
    <3>1. Goods(purchases) = [b \in Buyers |-> {}] /\ Bought = Goods(purchases)
      BY <1>3, StepMapped, NothingOwed
    <3> QED BY <3>1
  <2>5. burned \in (SUBSET Promise!ContractTokens) \ {{}}
    BY <1>2, <1>5 DEF Promise!ContractTokens, Held
  <2>6. Promise!BurnRest
    BY <1>1, <2>3, <2>4, <2>5 DEF Promise!BurnRest, Burn
  <2> QED BY <2>6 DEF Promise!Next
<1> QED BY <1>4, <1>5

\* A buyer whose first purchases are delivered: what is left to wait for and to
\* be paid back.
Handed(es, new, price, given, b) ==
  /\ Goods(new)[b] = Goods(es)[b] \ given
  /\ Owes(new, price)[b] \in Nat /\ Owes(es, price)[b] \in Nat
  /\ Owes(new, price)[b] <= Owes(es, price)[b]
  /\ Goods(es)[b] \cap given = {} => Owes(new, price)[b] = Owes(es, price)[b]
  /\ Goods(new)[b] = {} => Owes(new, price)[b] = 0

LEMMA HandedOver ==
  ASSUME NEW es, Entries(es), NEW all, NEW pos, LaidOut(all, es, DOMAIN es, pos),
         NEW q \in Nat, q <= Len(all), NEW new, IsCut(es, pos, q, new), Entries(new),
         DOMAIN new \subseteq DOMAIN es, NEW S, TokensKept(es, S), NEW price \in Nat,
         NEW b \in DOMAIN es
  PROVE  Handed(es, new, price, GivenOf(all, q), b)
<1> DEFINE c == CutIn(es, pos, q)[b]
           s == Entry(es, b)
           h == SubSeq(s, 1, c)
           r == SubSeq(s, c + 1, Len(s))
           given == GivenOf(all, q)
<1>1. b \in Buyers /\ s = es[b] /\ c = Cut(es, pos, q, b)
  BY DEF Entries, Entry, CutIn
<1>2. /\ s \in Seq(PurchaseRecord) /\ Len(s) \in Nat /\ c \in Nat /\ c <= Len(s)
      /\ h \in Seq(PurchaseRecord) /\ r \in Seq(PurchaseRecord) /\ Len(r) = Len(s) - c
      /\ \A k \in 1 .. Len(r) : r[k] = s[c + k] /\ c + k \in 1 .. Len(s)
      /\ SumTax(r) = SumTax(s) - SumTax(h) /\ SumTax(h) \in Nat
  <2>1. CutSplits(es, pos, q, b)
    BY <1>1, CutInFacts
  <2>2. s \in Seq(PurchaseRecord)
    BY <1>1, EntryFacts
  <2> QED BY <2>1, <2>2 DEF CutSplits
<1>3. Entry(new, b) = r
  BY <1>1 DEF IsCut
<1>4. \A k \in 1 .. Len(s) : pos[b] \in Nat /\ (pos[b] + k <= q <=> k <= c)
  <2>1. CutsAt(es, pos, q, b)
    BY CutFacts
  <2> QED BY <1>1, <2>1 DEF CutsAt
<1>5. \A k \in 1 .. Len(s) : /\ pos[b] + k \in 1 .. Len(all) /\ all[pos[b] + k] = s[k]
  <2>1. \A k \in 1 .. Len(es[b]) : pos[b] + k \in 1 .. Len(all) /\ all[pos[b] + k] = es[b][k]
    BY SMTT(30) DEF LaidOut, Layout
  <2> QED BY <1>1, <2>1
<1> HIDE DEF c, s, h, r
<1>6. \A k \in 1 .. Len(s) : k <= c => s[k].token \in given
  <2> SUFFICES ASSUME NEW k \in 1 .. Len(s), k <= c PROVE s[k].token \in given
    OBVIOUS
  <2>1. pos[b] + k \in 1 .. q /\ all[pos[b] + k] = s[k]
    BY <1>4, <1>5
  <2> QED BY <2>1 DEF GivenOf
<1>7. TokensKept(new, S \ given)
  <2>1. TokensKept(new, S \ {all[i].token : i \in 1 .. q})
    BY CutTokens
  <2> QED BY <2>1 DEF GivenOf
<1>8. \A k \in 1 .. Len(r) : r[k].token \notin given
  <2> SUFFICES ASSUME NEW k \in 1 .. Len(r) PROVE r[k].token \notin given
    OBVIOUS
  <2>1. b \in DOMAIN new /\ new[b] = r
    <3>1. Len(r) # 0
      BY <1>2
    <3> QED BY <1>3, <3>1, EmptySeq DEF Entry
  <2>2. new[b][k].token \in S \ given
    BY <1>7, <2>1 DEF TokensKept
  <2> QED BY <2>1, <2>2
<1>9. TokensIn(r) = TokensIn(s) \ given
  <2>1. \A k \in 1 .. Len(r) : r[k].token \in TokensIn(s)
    BY <1>2 DEF TokensIn
  <2>2. ASSUME NEW x \in TokensIn(s), x \notin given PROVE x \in TokensIn(r)
    <3>1. PICK k \in 1 .. Len(s) : x = s[k].token
      BY DEF TokensIn
    <3>2. ~(k <= c)
      BY <1>6, <2>2, <3>1
    <3>3. k - c \in 1 .. Len(r) /\ c + (k - c) = k
      BY <1>2, <3>2
    <3>4. r[k - c] = s[k]
      BY <1>2, <3>3
    <3> QED BY <3>1, <3>3, <3>4 DEF TokensIn
  <2> QED BY <1>8, <2>1, <2>2 DEF TokensIn
<1>10. /\ Goods(new)[b] = TokensIn(r) /\ Goods(es)[b] = TokensIn(s)
       /\ Owes(new, price)[b] = price * Len(r) + SumTax(r)
       /\ Owes(es, price)[b] = price * Len(s) + SumTax(s)
  BY <1>1, <1>3 DEF Goods, Owes, s
<1>11. SumTax(s) \in Nat /\ SumTax(r) \in Nat /\ SumTax(r) <= SumTax(s) /\ Len(r) \in Nat
  <2>1. SumTax(s) \in Nat /\ SumTax(r) \in Nat /\ Len(r) \in Nat
    BY <1>2, RowSumsNat, LenProperties
  <2> QED BY <1>2, <2>1
<1>12. /\ price * Len(r) \in Nat /\ price * Len(s) \in Nat /\ price * Len(r) <= price * Len(s)
  <2>1. Len(s) = Len(r) + c
    BY <1>2
  <2> DEFINE m == Len(r)
  <2>2. m \in Nat /\ Len(s) = m + c
    BY <1>11, <2>1
  <2> HIDE DEF m
  <2>3. price * (m + c) = price * m + price * c /\ price * c \in Nat /\ price * m \in Nat
    BY <1>2, <2>2, SMTT(30)
  <2> DEFINE x == price * (m + c)
             y == price * m
             z == price * c
  <2>4. x = y + z /\ z \in Nat /\ y \in Nat
    BY <2>3
  <2> HIDE DEF x, y, z
  <2>5. x \in Nat /\ y <= x
    BY <2>4
  <2> QED BY <2>2, <2>3, <2>5 DEF x, y, m
<1>13. Owes(new, price)[b] \in Nat /\ Owes(es, price)[b] \in Nat
       /\ Owes(new, price)[b] <= Owes(es, price)[b]
  <2> DEFINE x == price * Len(r)
             y == price * Len(s)
             u == SumTax(r)
             v == SumTax(s)
  <2>1. /\ x \in Nat /\ y \in Nat /\ u \in Nat /\ v \in Nat /\ x <= y /\ u <= v
        /\ Owes(new, price)[b] = x + u /\ Owes(es, price)[b] = y + v
    BY <1>10, <1>11, <1>12
  <2> HIDE DEF x, y, u, v
  <2> QED BY <2>1
<1>14. ASSUME Goods(es)[b] \cap given = {}
       PROVE  Owes(new, price)[b] = Owes(es, price)[b]
  <2>1. c = 0
    <3> SUFFICES ASSUME c # 0 PROVE FALSE
      OBVIOUS
    <3>1. 1 \in 1 .. Len(s) /\ 1 <= c
      BY <1>2
    <3>2. s[1].token \in given /\ s[1].token \in TokensIn(s)
      BY <1>6, <3>1 DEF TokensIn
    <3> QED BY <1>10, <1>14, <3>2
  <2>2. r = s
    BY <1>2, <2>1, SubSeqFull DEF r
  <2> QED BY <1>10, <2>2
<1>15. ASSUME Goods(new)[b] = {} PROVE Owes(new, price)[b] = 0
  <2>1. Len(r) = 0
    <3> SUFFICES ASSUME Len(r) # 0 PROVE FALSE
      OBVIOUS
    <3>1. 1 \in 1 .. Len(r)
      BY <1>11
    <3>2. r[1].token \in TokensIn(r)
      BY <3>1 DEF TokensIn
    <3>3. Goods(new)[b] = TokensIn(r)
      BY <1>10
    <3> QED BY <1>15, <3>2, <3>3
  <2>2. SumTax(r) = 0
    BY <1>2, <2>1, RowSumsNat
  <2>3. price * 0 + 0 = 0
    OBVIOUS
  <2> QED BY <1>10, <2>1, <2>2, <2>3
<1> QED BY <1>9, <1>10, <1>13, <1>14, <1>15 DEF Handed

LEMMA DeliverBatchPromise ==
  ASSUME NEW limit \in Limits, IInv, IInv', SaleOver, ~Failed, DeliverBatch(limit),
         UNCHANGED <<now, stuck>>
  PROVE  Promise!Next
<1>1. TypeOK /\ Kept /\ Entries(purchases) /\ sale.on /\ ~Refunding /\ sale.transferred \in Nat
  BY SaleFacts DEF IInv, TypeOK, SaleOver, Refunding
<1>2. PICK all, pos, q : Delivers(all, pos, q)
  BY <1>1, DeliverStep
<1> DEFINE given == GivenOf(all, q)
<1>3. /\ all \in Seq(PurchaseRecord) /\ LaidOut(all, purchases, DOMAIN purchases, pos)
      /\ q \in Nat /\ q > 0 /\ q <= Len(all)
      /\ IsCut(purchases, pos, q, purchases') /\ DOMAIN purchases' \subseteq DOMAIN purchases
      /\ UNCHANGED <<numberAvailable, available, refunded>>
  BY <1>2 DEF Delivers
<1>4. /\ sale'.on = sale.on /\ sale'.expiration = sale.expiration /\ sale'.price = sale.price
      /\ sale'.min = sale.min /\ sale'.sold = sale.sold
  BY <1>1, <1>2 DEF Delivers, TypeOK, SaleRecord
<1>5. SaleOver' /\ ~Failed'
  BY <1>3, <1>4 DEF SaleOver, Failed, Expired
<1>6. /\ sale.price \in Nat /\ Entries(purchases')
      /\ Bought = Goods(purchases) /\ Escrow = Owes(purchases, sale.price)
      /\ Bought' = Goods(purchases') /\ Escrow' = Owes(purchases', sale.price)
      /\ Fate = "delivering" /\ Fate' = "delivering"
  BY <1>4, <1>5, StepMapped DEF FateIs
<1>7. \A b \in Buyers : /\ Bought'[b] = Bought[b] \ given
                        /\ Escrow'[b] <= Escrow[b]
                        /\ Bought[b] \cap given = {} => Escrow'[b] = Escrow[b]
                        /\ Bought'[b] = {} => Escrow'[b] = 0
  <2> DEFINE new == purchases'
             price == sale.price
             S == Held \ available
  <2>1. /\ Entries(new) /\ price \in Nat /\ IsCut(purchases, pos, q, new)
        /\ DOMAIN new \subseteq DOMAIN purchases /\ TokensKept(purchases, S)
        /\ Bought = Goods(purchases) /\ Escrow = Owes(purchases, price)
        /\ Bought' = Goods(new) /\ Escrow' = Owes(new, price)
    BY <1>1, <1>3, <1>6 DEF Kept
  <2> HIDE DEF new, price, S, given
  <2> TAKE b \in Buyers
  <2>2. Handed(purchases, new, price, given, b)
    <3>1. CASE b \in DOMAIN purchases
      <4>1. Handed(purchases, new, price, GivenOf(all, q), b)
        BY <1>1, <1>3, <2>1, <3>1, HandedOver
      <4> QED BY <4>1 DEF given
    <3>2. CASE b \notin DOMAIN purchases
      <4>1. Entry(purchases, b) = << >> /\ Entry(new, b) = << >>
        BY <2>1, <3>2 DEF Entry
      <4>2. Len(Entry(purchases, b)) = 0 /\ Len(Entry(new, b)) = 0
        BY <4>1, EmptySeq
      <4>3. Owes(purchases, price)[b] = 0
        BY <1>1, <2>1, <4>2, EntryFacts
      <4>4. Owes(new, price)[b] = 0
        BY <2>1, <4>2, EntryFacts
      <4>5. Goods(purchases)[b] = {} /\ Goods(new)[b] = {}
        BY <4>2 DEF Goods, TokensIn
      <4> QED BY <4>3, <4>4, <4>5 DEF Handed
    <3> QED BY <3>1, <3>2
  <2> QED BY <2>1, <2>2 DEF Handed
<1>8. \A i \in 1 .. q : /\ all[i].purchaser \in Buyers
                        /\ all[i].token \in Bought[all[i].purchaser]
  <2> TAKE i \in 1 .. q
  <2>1. i \in 1 .. Len(all)
    BY <1>3, LenProperties
  <2>2. PICK b, k : b \in DOMAIN purchases /\ k \in 1 .. Len(purchases[b]) /\ all[i] = purchases[b][k]
    BY <1>3, <2>1, PlaceOf
  <2>3. b \in Buyers /\ all[i].purchaser = b
    BY <1>1, <2>2 DEF Entries
  <2>4. all[i].token \in TokensIn(Entry(purchases, b))
    BY <2>2 DEF Entry, TokensIn
  <2>5. Goods(purchases)[b] = TokensIn(Entry(purchases, b))
    BY <2>3 DEF Goods
  <2> QED BY <1>6, <2>3, <2>4, <2>5
<1>9. Bought' = [b \in Buyers |-> Bought[b] \ given]
  <2>1. Bought' = [b \in Buyers |-> Bought'[b]]
    BY <1>6 DEF Goods
  <2> QED BY <1>7, <2>1
<1>10. given \in (SUBSET UNION {Bought[b] : b \in Buyers}) \ {{}}
  <2>1. \A t \in given : \E b \in Buyers : t \in Bought[b]
    BY <1>8 DEF GivenOf
  <2>2. all[1].token \in given
    BY <1>3 DEF GivenOf
  <2> HIDE DEF given
  <2> QED BY <2>1, <2>2
<1>11. \A t \in Tokens : IF t \in given THEN \E b \in Buyers : t \in Bought[b] /\ owner'[t] = b
                                        ELSE owner'[t] = owner[t]
  <2> TAKE t \in Tokens
  <2>1. CASE t \in given
    <3>1. PICK i \in 1 .. q : all[i].token = t /\ owner'[t] = all[i].purchaser
      BY <1>2, <2>1 DEF Delivers
    <3> QED BY <1>8, <2>1, <3>1
  <2>2. CASE t \notin given
    BY <1>2, <2>2 DEF Delivers
  <2> QED BY <2>1, <2>2
<1> HIDE DEF given
<1>12. Promise!Deliver
  BY <1>3, <1>6, <1>7, <1>9, <1>10, <1>11, ZenonT(60) DEF Promise!Deliver
<1> QED BY <1>12 DEF Promise!Next

LEMMA EndSalePromise ==
  ASSUME NEW limit \in Limits, IInv, IInv', EndSale(limit)
  PROVE  Promise!Next
<1>1. SaleOver /\ UNCHANGED <<now, stuck>>
  BY DEF EndSale
<1>2. CASE Failed /\ RefundBatch(limit)
  BY <1>1, <1>2, RefundBatchPromise
<1>3. CASE ~Failed /\ sale.transferred = sale.sold /\ PayAndBurn(limit)
  BY <1>1, <1>3, PayAndBurnPromise
<1>4. CASE ~Failed /\ sale.transferred # sale.sold /\ DeliverBatch(limit)
  BY <1>1, <1>4, DeliverBatchPromise
<1> QED BY <1>2, <1>3, <1>4 DEF EndSale

LEMMA PromiseStep == IInv /\ [Next]_vars => [Promise!Next]_(Promise!vars)
<1> SUFFICES ASSUME IInv, [Next]_vars PROVE [Promise!Next]_(Promise!vars)
  OBVIOUS
<1>0. IInv'
  BY NextInv
<1>1. CASE Tick
  BY <1>0, <1>1, TickPromise
<1>2. CASE \E T \in SUBSET Tokens : \E S \in SUBSET T : Mint(T, S)
  BY <1>0, <1>2, MintPromise
<1>3. CASE \E expiration \in Expirations, price \in Prices, min \in MinTokens,
              max \in WalletLimits : StartSale(expiration, price, min, max)
  BY <1>0, <1>3, StartSalePromise
<1>4. ASSUME NEW b \in Buyers, NEW tax \in Taxes, NEW royalty \in Royalties,
             \/ \E n \in 1 .. sale.max : Purchase(b, n, tax, royalty)
             \/ \E t \in Tokens, excess \in Excess : PurchaseByTokenId(b, t, tax, royalty, excess)
      PROVE  [Promise!Next]_(Promise!vars)
  BY <1>0, <1>4, PurchasePromise, PurchaseByTokenIdPromise
<1>5. CASE \E b \in Buyers : ClaimRefund(b)
  BY <1>0, <1>5, ClaimRefundPromise
<1>6. CASE \E limit \in Limits : EndSale(limit)
  BY <1>0, <1>6, EndSalePromise
<1>7. CASE UNCHANGED vars
  <2>1. UNCHANGED <<now, sale, numberAvailable, available, purchases, owner, refunded>>
    BY <1>7 DEF vars
  <2>2. Bought' = Bought /\ Escrow' = Escrow
    BY <1>0, <2>1, SameBooks
  <2>3. Fate' = Fate
    BY <2>1 DEF Fate, SaleOver, Failed, Expired
  <2> QED BY <2>1, <2>2, <2>3, SameState
<1> QED BY <1>1, <1>2, <1>3, <1>4, <1>5, <1>6, <1>7 DEF Next

\* The batches of EndSale implement SaleOutcome: everyone in a sale gets the
\* purchased tokens or everyone gets the coins back, once, and STATE is cleared
\* only when the contract owes nothing and owns no token.
THEOREM PromiseImplemented == Spec => KeepsPromise
<1>1. Init => Promise!Init
  <2> SUFFICES ASSUME Init PROVE Promise!Init
    OBVIOUS
  <2>1. /\ ~sale.on /\ DOMAIN purchases = {} /\ available = {}
        /\ refunded = [b \in Buyers |-> 0] /\ owner = [t \in Tokens |-> Nobody]
    BY DEF Init, NoSale
  <2>2. TypeOK /\ Mapping /\ FateIs
    BY InitInv, Mapped, FateFacts DEF IInv
  <2>3. Bought = [b \in Buyers |-> {}] /\ Escrow = [b \in Buyers |-> 0]
    BY <2>1, <2>2, SaleFacts, NothingOwed DEF Mapping, TypeOK
  <2>4. Fate = "none"
    BY <2>1, <2>2 DEF FateIs
  <2> QED BY <2>1, <2>3, <2>4 DEF Promise!Init
<1>2. IInv /\ [Next]_vars => [Promise!Next]_(Promise!vars)
  BY PromiseStep
<1> QED BY <1>1, <1>2, Invariant, PTL DEF Spec, KeepsPromise, Promise!Spec
=============================================================================

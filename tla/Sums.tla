-------------------------------- MODULE Sums --------------------------------
(***************************************************************************)
(* Facts about SumFunctionOnSet (module Functions), the sum of the values  *)
(* of a function over a finite set.  Every ledger of the contracts is a    *)
(* total kept next to per-account entries, and the proofs that the two     *)
(* agree need to know what changing one entry does to the sum.             *)
(*                                                                         *)
(* The induction theorems of the library quantify over operators, which    *)
(* the installed provers cannot instantiate, so the inductions below are   *)
(* written as minimal counterexamples: NatMinimum picks the smallest       *)
(* cardinality at which a claim fails and the claim is shown there too.    *)
(***************************************************************************)
EXTENDS Integers, FiniteSets, Functions, FiniteSetTheorems, TLAPS

\* A nonempty set of naturals has a least element.
LEMMA NatMinimum ==
  ASSUME NEW T, T \subseteq Nat, T # {}
  PROVE  \E n \in T : \A m \in T : n <= m
<1> DEFINE R == OpToRel(<, Nat)
<1>1. IsWellFoundedOn(R, Nat)
  BY NatLessThanWellFounded
<1>2. PICK n \in T : \A m \in T : ~ (<<m, n>> \in R)
  <2> HIDE DEF R
  <2> QED BY <1>1, WFMin
<1>3. \A m \in T : n <= m
  <2> SUFFICES ASSUME NEW m \in T, ~(n <= m) PROVE FALSE
    OBVIOUS
  <2>1. <<m, n>> \in R
    BY DEF OpToRel
  <2> QED BY <1>2, <2>1
<1> QED BY <1>3

\* One unfolding of the fold that SumFunctionOnSet performs, with the partial
\* sums of the smaller sets taken from g.
Step(f, g, T) ==
  IF T = {} THEN 0
  ELSE f[CHOOSE x \in T : TRUE] + g[T \ {CHOOSE x \in T : TRUE}]

IsSumTable(f, g, S) == g = [T \in SUBSET S |-> Step(f, g, T)]

LEMMA SumUnfold ==
  ASSUME NEW f, NEW S
  PROVE  SumFunctionOnSet(f, S) = (CHOOSE h : IsSumTable(f, h, S))[S]
BY DEF SumFunctionOnSet, FoldFunctionOnSet, MapThenFoldSet, Step, IsSumTable

LEMMA SumTableExists ==
  ASSUME NEW f, NEW S, IsFiniteSet(S)
  PROVE  \E g : IsSumTable(f, g, S)
<1> DEFINE Small(n) == {T \in SUBSET S : Cardinality(T) <= n}
           Bad == {n \in Nat : ~ \E g : g = [T \in Small(n) |-> Step(f, g, T)]}
<1>fin. \A T \in SUBSET S : IsFiniteSet(T) /\ Cardinality(T) \in Nat
  BY FS_Subset, FS_CardinalityType
<1>1. Bad = {}
  <2> SUFFICES ASSUME Bad # {} PROVE FALSE
    OBVIOUS
  <2>1. PICK n \in Bad : \A m \in Bad : n <= m
    <3> HIDE DEF Small
    <3> QED BY NatMinimum
  <2>2. CASE n = 0
    <3>1. Small(0) = {{}}
      BY <1>fin, FS_EmptySet
    <3> DEFINE g == [T \in Small(0) |-> 0]
    <3>2. g = [T \in Small(0) |-> Step(f, g, T)]
      BY <3>1 DEF Step
    <3> QED BY <2>2, <3>2
  <2>3. CASE n # 0
    <3>0. n \in Nat /\ n - 1 \in Nat /\ ~(n <= n - 1)
      BY <2>3
    <3>1. n - 1 \in Nat /\ n - 1 \notin Bad
      <4> HIDE DEF Bad
      <4> QED BY <2>1, <3>0
    <3>2. PICK h : h = [T \in Small(n-1) |-> Step(f, h, T)]
      BY <3>1
    <3> DEFINE g == [T \in Small(n) |-> Step(f, h, T)]
    <3>3. ASSUME NEW T \in Small(n), T # {}, NEW x \in T
          PROVE  T \ {x} \in Small(n-1)
      BY <1>fin, <3>3, FS_RemoveElement
    <3>4. \A T \in Small(n-1) : T \in Small(n) /\ g[T] = h[T]
      BY <3>2, <1>fin
    <3>5. ASSUME NEW T \in Small(n)
          PROVE  Step(f, h, T) = Step(f, g, T)
      <4>1. CASE T = {}
        BY <4>1 DEF Step
      <4>2. CASE T # {}
        <5> DEFINE c == CHOOSE x \in T : TRUE
        <5>1. c \in T
          BY <4>2
        <5>2. T \ {c} \in Small(n-1)
          BY <5>1, <3>3
        <5>3. g[T \ {c}] = h[T \ {c}]
          BY <5>2, <3>4
        <5> QED BY <4>2, <5>3 DEF Step
      <4> QED BY <4>1, <4>2
    <3>6. g = [T \in Small(n) |-> Step(f, g, T)]
      <4> HIDE DEF Small
      <4>1. \A T \in Small(n) : g[T] = Step(f, g, T)
        BY <3>5
      <4> QED BY <4>1
    <3> QED BY <3>6
  <2> QED BY <2>2, <2>3
<1>2. PICK g : g = [T \in Small(Cardinality(S)) |-> Step(f, g, T)]
  BY <1>1, <1>fin
<1>3. Small(Cardinality(S)) = SUBSET S
  BY FS_Subset
<1> QED BY <1>2, <1>3 DEF IsSumTable

LEMMA SumTableUnique ==
  ASSUME NEW f, NEW S, NEW g, IsSumTable(f, g, S),
         NEW R, NEW h, IsSumTable(f, h, R),
         NEW U, IsFiniteSet(U), U \subseteq S, U \subseteq R
  PROVE  g[U] = h[U]
<1> DEFINE Bad == {n \in Nat : \E T \in SUBSET U : Cardinality(T) = n /\ g[T] # h[T]}
<1>fin. \A T \in SUBSET U : IsFiniteSet(T) /\ Cardinality(T) \in Nat
  BY FS_Subset, FS_CardinalityType
<1>1. Bad = {}
  <2> SUFFICES ASSUME Bad # {} PROVE FALSE
    OBVIOUS
  <2>1. PICK n \in Bad : \A m \in Bad : n <= m
    BY NatMinimum
  <2>2. PICK T \in SUBSET U : Cardinality(T) = n /\ g[T] # h[T]
    BY <2>1
  <2>3. g[T] = Step(f, g, T) /\ h[T] = Step(f, h, T)
    BY DEF IsSumTable
  <2>4. T # {}
    BY <2>2, <2>3 DEF Step
  <2> DEFINE c == CHOOSE x \in T : TRUE
  <2>5. c \in T
    BY <2>4
  <2>6. /\ T \ {c} \in SUBSET U
        /\ Cardinality(T \ {c}) = n - 1
        /\ n - 1 \in Nat
    <3>1. IsFiniteSet(T) /\ Cardinality(T) = n
      BY <2>2, <1>fin
    <3>2. Cardinality(T \ {c}) = Cardinality(T) - 1
      BY <3>1, <2>5, FS_RemoveElement
    <3>3. T \ {c} \in SUBSET U
      OBVIOUS
    <3> HIDE DEF c
    <3>4. Cardinality(T \ {c}) \in Nat
      BY <3>3, <1>fin
    <3> QED BY <3>1, <3>2, <3>3, <3>4
  <2>7. g[T \ {c}] = h[T \ {c}]
    BY <2>1, <2>6
  <2> QED BY <2>2, <2>3, <2>4, <2>7 DEF Step
<1> QED BY <1>1, <1>fin

\* Every subset's partial sum of a table is the sum over that subset.
LEMMA SumIsTable ==
  ASSUME NEW f, NEW S, IsFiniteSet(S)
  PROVE  SumFunctionOnSet(f, S) = Step(f, [T \in SUBSET S |-> SumFunctionOnSet(f, T)], S)
<1> DEFINE tab(T) == CHOOSE h : IsSumTable(f, h, T)
<1>1. \A T \in SUBSET S : IsFiniteSet(T) /\ IsSumTable(f, tab(T), T)
  <2> SUFFICES ASSUME NEW T \in SUBSET S
               PROVE  IsFiniteSet(T) /\ IsSumTable(f, tab(T), T)
    OBVIOUS
  <2>1. IsFiniteSet(T)
    BY FS_Subset
  <2>2. \E g : IsSumTable(f, g, T)
    BY <2>1, SumTableExists
  <2> QED BY <2>1, <2>2
<1>2. \A T \in SUBSET S : SumFunctionOnSet(f, T) = tab(T)[T]
  BY SumUnfold
<1>3. \A T \in SUBSET S : tab(T)[T] = tab(S)[T]
  <2> HIDE DEF tab
  <2> QED BY <1>1, SumTableUnique
<1>4. tab(S)[S] = Step(f, tab(S), S)
  <2> HIDE DEF tab
  <2> QED BY <1>1 DEF IsSumTable
<1>5. CASE S = {}
  BY <1>2, <1>4, <1>5 DEF Step
<1>6. CASE S # {}
  <2> DEFINE c == CHOOSE x \in S : TRUE
  <2>1. S \ {c} \in SUBSET S
    OBVIOUS
  <2>2. tab(S)[S \ {c}] = SumFunctionOnSet(f, S \ {c})
    <3> HIDE DEF tab
    <3> QED BY <1>2, <1>3, <2>1
  <2> HIDE DEF tab
  <2> QED BY <1>2, <1>4, <1>6, <2>2 DEF Step
<1> QED BY <1>5, <1>6

\* The empty sum, and what removing the chosen element leaves.
LEMMA SumEmpty ==
  ASSUME NEW f
  PROVE  SumFunctionOnSet(f, {}) = 0
BY SumIsTable, FS_EmptySet DEF Step

LEMMA SumRemoveChosen ==
  ASSUME NEW f, NEW S, IsFiniteSet(S), S # {}
  PROVE  \E c \in S : SumFunctionOnSet(f, S) = f[c] + SumFunctionOnSet(f, S \ {c})
<1> DEFINE c == CHOOSE x \in S : TRUE
<1>1. c \in S
  OBVIOUS
<1>2. SumFunctionOnSet(f, S) = f[c] + SumFunctionOnSet(f, S \ {c})
  BY SumIsTable DEF Step
<1> QED BY <1>1, <1>2

\* A sum splits at any element of the set, not only the chosen one.
LEMMA SumSplit ==
  ASSUME NEW f, NEW S, IsFiniteSet(S), \A x \in S : f[x] \in Int
  PROVE  /\ SumFunctionOnSet(f, S) \in Int
         /\ \A x \in S : SumFunctionOnSet(f, S) = f[x] + SumFunctionOnSet(f, S \ {x})
<1> DEFINE Good(T) == /\ SumFunctionOnSet(f, T) \in Int
                      /\ \A x \in T : SumFunctionOnSet(f, T) = f[x] + SumFunctionOnSet(f, T \ {x})
           Bad == {n \in Nat : \E T \in SUBSET S : Cardinality(T) = n /\ ~Good(T)}
<1>fin. \A T \in SUBSET S : IsFiniteSet(T) /\ Cardinality(T) \in Nat
  BY FS_Subset, FS_CardinalityType
<1>1. Bad = {}
  <2> SUFFICES ASSUME Bad # {} PROVE FALSE
    OBVIOUS
  <2>1. PICK n \in Bad : \A m \in Bad : n <= m
    <3> HIDE DEF Good
    <3> QED BY NatMinimum
  <2>2. PICK T \in SUBSET S : Cardinality(T) = n /\ ~Good(T)
    BY <2>1
  <2>3. \A U \in SUBSET S : Cardinality(U) < n => Good(U)
    <3> HIDE DEF Good
    <3> QED BY <2>1, <1>fin
  <2>4. \A U \in SUBSET T : U # T => U \in SUBSET S /\ Good(U)
    <3> HIDE DEF Good
    <3> QED BY <2>2, <2>3, <1>fin, FS_Subset
  <2>5. T # {}
    <3>1. Good({})
      BY SumEmpty
    <3> HIDE DEF Good
    <3> QED BY <2>2, <3>1
  <2>6. PICK c \in T : SumFunctionOnSet(f, T) = f[c] + SumFunctionOnSet(f, T \ {c})
    BY <2>5, <1>fin, SumRemoveChosen
  <2>7. T \ {c} \in SUBSET T /\ T \ {c} # T
    OBVIOUS
  <2>8. Good(T \ {c})
    <3> HIDE DEF Good
    <3> QED BY <2>4, <2>7
  <2>9. SumFunctionOnSet(f, T) \in Int
    BY <2>6, <2>8
  <2>10. ASSUME NEW x \in T
         PROVE  SumFunctionOnSet(f, T) = f[x] + SumFunctionOnSet(f, T \ {x})
    <3>1. CASE x = c
      BY <2>6, <3>1
    <3>2. CASE x # c
      <4>1. x \in T \ {c} /\ c \in T \ {x}
        BY <3>2
      <4>2. (T \ {c}) \ {x} = (T \ {x}) \ {c}
        OBVIOUS
      <4>3. T \ {x} \in SUBSET T /\ T \ {x} # T
        OBVIOUS
      <4>4. Good(T \ {x})
        <5> HIDE DEF Good
        <5> QED BY <2>4, <4>3
      <4>5. SumFunctionOnSet(f, T \ {c}) = f[x] + SumFunctionOnSet(f, (T \ {c}) \ {x})
        BY <2>8, <4>1
      <4>6. SumFunctionOnSet(f, T \ {x}) = f[c] + SumFunctionOnSet(f, (T \ {x}) \ {c})
        BY <4>4, <4>1
      <4>7. SumFunctionOnSet(f, (T \ {x}) \ {c}) \in Int
        <5>1. (T \ {x}) \ {c} \in SUBSET T /\ (T \ {x}) \ {c} # T
          OBVIOUS
        <5>2. Good((T \ {x}) \ {c})
          <6> HIDE DEF Good
          <6> QED BY <2>4, <5>1
        <5> QED BY <5>2
      <4> QED BY <2>6, <4>2, <4>5, <4>6, <4>7
    <3> QED BY <3>1, <3>2
  <2> QED BY <2>2, <2>9, <2>10
<1>2. Good(S)
  <2> HIDE DEF Good
  <2> QED BY <1>1, <1>fin
<1> QED BY <1>2

\* Pointwise order carries over to sums.
LEMMA SumMonotone ==
  ASSUME NEW f, NEW g, NEW S, IsFiniteSet(S),
         \A x \in S : f[x] \in Int /\ g[x] \in Int /\ f[x] <= g[x]
  PROVE  SumFunctionOnSet(f, S) <= SumFunctionOnSet(g, S)
<1> DEFINE Below(T) == SumFunctionOnSet(f, T) <= SumFunctionOnSet(g, T)
           Bad == {n \in Nat : \E T \in SUBSET S : Cardinality(T) = n /\ ~Below(T)}
<1>fin. \A T \in SUBSET S : IsFiniteSet(T) /\ Cardinality(T) \in Nat
  BY FS_Subset, FS_CardinalityType
<1>1. Bad = {}
  <2> SUFFICES ASSUME Bad # {} PROVE FALSE
    OBVIOUS
  <2>1. PICK n \in Bad : \A m \in Bad : n <= m
    <3> HIDE DEF Below
    <3> QED BY NatMinimum
  <2>2. PICK T \in SUBSET S : Cardinality(T) = n /\ ~Below(T)
    BY <2>1
  <2>3. T # {}
    <3>1. Below({})
      BY SumEmpty
    <3> HIDE DEF Below
    <3> QED BY <2>2, <3>1
  <2>4. PICK c \in T : TRUE
    BY <2>3
  <2>5. /\ T \ {c} \in SUBSET S
        /\ Cardinality(T \ {c}) < n
    BY <2>2, <2>4, <1>fin, FS_Subset
  <2>6. Below(T \ {c})
    <3> HIDE DEF Below
    <3> QED BY <2>1, <2>5, <1>fin
  <2>7. /\ SumFunctionOnSet(f, T) = f[c] + SumFunctionOnSet(f, T \ {c})
        /\ SumFunctionOnSet(f, T \ {c}) \in Int
    BY <1>fin, SumSplit
  <2>8. /\ SumFunctionOnSet(g, T) = g[c] + SumFunctionOnSet(g, T \ {c})
        /\ SumFunctionOnSet(g, T \ {c}) \in Int
    BY <1>fin, SumSplit
  <2> QED BY <2>2, <2>6, <2>7, <2>8
<1>2. Below(S)
  <2> HIDE DEF Below
  <2> QED BY <1>1, <1>fin
<1> QED BY <1>2

\* Functions that agree on the set have the same sum over it.
LEMMA SumCongruence ==
  ASSUME NEW f, NEW g, NEW S, IsFiniteSet(S),
         \A x \in S : f[x] \in Int /\ f[x] = g[x]
  PROVE  SumFunctionOnSet(f, S) = SumFunctionOnSet(g, S)
<1>1. SumFunctionOnSet(f, S) <= SumFunctionOnSet(g, S)
  BY SumMonotone
<1>2. SumFunctionOnSet(g, S) <= SumFunctionOnSet(f, S)
  BY SumMonotone
<1>3. SumFunctionOnSet(f, S) \in Int /\ SumFunctionOnSet(g, S) \in Int
  BY SumSplit
<1> QED BY <1>1, <1>2, <1>3

\* The sum of zeros is zero.
LEMMA SumZero ==
  ASSUME NEW f, NEW S, IsFiniteSet(S), \A x \in S : f[x] = 0
  PROVE  SumFunctionOnSet(f, S) = 0
<1> DEFINE Zero(T) == SumFunctionOnSet(f, T) = 0
           Bad == {n \in Nat : \E T \in SUBSET S : Cardinality(T) = n /\ ~Zero(T)}
<1>fin. \A T \in SUBSET S : IsFiniteSet(T) /\ Cardinality(T) \in Nat
  BY FS_Subset, FS_CardinalityType
<1>1. Bad = {}
  <2> SUFFICES ASSUME Bad # {} PROVE FALSE
    OBVIOUS
  <2>1. PICK n \in Bad : \A m \in Bad : n <= m
    <3> HIDE DEF Zero
    <3> QED BY NatMinimum
  <2>2. PICK T \in SUBSET S : Cardinality(T) = n /\ ~Zero(T)
    BY <2>1
  <2>3. T # {}
    <3>1. Zero({})
      BY SumEmpty
    <3> HIDE DEF Zero
    <3> QED BY <2>2, <3>1
  <2>4. PICK c \in T : TRUE
    BY <2>3
  <2>5. /\ T \ {c} \in SUBSET S
        /\ Cardinality(T \ {c}) < n
    BY <2>2, <2>4, <1>fin, FS_Subset
  <2>6. Zero(T \ {c})
    <3> HIDE DEF Zero
    <3> QED BY <2>1, <2>5, <1>fin
  <2>7. SumFunctionOnSet(f, T) = f[c] + SumFunctionOnSet(f, T \ {c})
    BY <1>fin, SumSplit
  <2> QED BY <2>2, <2>6, <2>7
<1>2. Zero(S)
  <2> HIDE DEF Zero
  <2> QED BY <1>1, <1>fin
<1> QED BY <1>2

\* Sums of naturals are naturals, and no summand exceeds the sum.
LEMMA SumNat ==
  ASSUME NEW f, NEW S, IsFiniteSet(S), \A x \in S : f[x] \in Nat
  PROVE  /\ SumFunctionOnSet(f, S) \in Nat
         /\ \A x \in S : f[x] <= SumFunctionOnSet(f, S)
<1>1. ASSUME NEW T \in SUBSET S
      PROVE  SumFunctionOnSet(f, T) \in Nat
  <2> DEFINE z == [x \in T |-> 0]
  <2>1. IsFiniteSet(T)
    BY FS_Subset
  <2>2. SumFunctionOnSet(z, T) = 0
    BY <2>1, SumZero
  <2>3. SumFunctionOnSet(z, T) <= SumFunctionOnSet(f, T)
    <3>1. \A x \in T : z[x] \in Int /\ f[x] \in Int /\ z[x] <= f[x]
      OBVIOUS
    <3> HIDE DEF z
    <3> QED BY <2>1, <3>1, SumMonotone
  <2>4. SumFunctionOnSet(f, T) \in Int
    BY <2>1, SumSplit
  <2> QED BY <2>2, <2>3, <2>4
<1>2. \A x \in S : f[x] <= SumFunctionOnSet(f, S)
  <2> SUFFICES ASSUME NEW x \in S
               PROVE  f[x] <= SumFunctionOnSet(f, S)
    OBVIOUS
  <2>1. SumFunctionOnSet(f, S) = f[x] + SumFunctionOnSet(f, S \ {x})
    BY SumSplit
  <2>2. SumFunctionOnSet(f, S \ {x}) \in Nat
    BY <1>1
  <2> QED BY <2>1, <2>2
<1> QED BY <1>1, <1>2

\* Changing one summand shifts the sum by the change.
LEMMA SumChange ==
  ASSUME NEW f, NEW g, NEW S, IsFiniteSet(S), NEW a \in S,
         \A x \in S : f[x] \in Int /\ g[x] \in Int,
         \A x \in S \ {a} : g[x] = f[x]
  PROVE  SumFunctionOnSet(g, S) = SumFunctionOnSet(f, S) - f[a] + g[a]
<1>1. IsFiniteSet(S \ {a})
  BY FS_RemoveElement
<1>2. SumFunctionOnSet(f, S \ {a}) = SumFunctionOnSet(g, S \ {a})
  BY <1>1, SumCongruence
<1>3. SumFunctionOnSet(f, S) = f[a] + SumFunctionOnSet(f, S \ {a})
  BY SumSplit
<1>4. SumFunctionOnSet(g, S) = g[a] + SumFunctionOnSet(g, S \ {a})
  BY SumSplit
<1>5. SumFunctionOnSet(f, S \ {a}) \in Int
  BY <1>1, SumSplit
<1> QED BY <1>2, <1>3, <1>4, <1>5

\* The sum of pointwise differences.
LEMMA SumDifference ==
  ASSUME NEW f, NEW g, NEW h, NEW S, IsFiniteSet(S),
         \A x \in S : f[x] \in Int /\ g[x] \in Int /\ h[x] = f[x] - g[x]
  PROVE  SumFunctionOnSet(h, S) = SumFunctionOnSet(f, S) - SumFunctionOnSet(g, S)
<1> DEFINE Holds(T) ==
             SumFunctionOnSet(h, T) = SumFunctionOnSet(f, T) - SumFunctionOnSet(g, T)
           Bad == {n \in Nat : \E T \in SUBSET S : Cardinality(T) = n /\ ~Holds(T)}
<1>fin. \A T \in SUBSET S : IsFiniteSet(T) /\ Cardinality(T) \in Nat
  BY FS_Subset, FS_CardinalityType
<1>1. Bad = {}
  <2> SUFFICES ASSUME Bad # {} PROVE FALSE
    OBVIOUS
  <2>1. PICK n \in Bad : \A m \in Bad : n <= m
    <3> HIDE DEF Holds
    <3> QED BY NatMinimum
  <2>2. PICK T \in SUBSET S : Cardinality(T) = n /\ ~Holds(T)
    BY <2>1
  <2>3. T # {}
    <3>1. Holds({})
      BY SumEmpty
    <3> HIDE DEF Holds
    <3> QED BY <2>2, <3>1
  <2>4. PICK c \in T : TRUE
    BY <2>3
  <2>5. T \ {c} \in SUBSET S /\ Cardinality(T \ {c}) < n
    BY <2>2, <2>4, <1>fin, FS_Subset
  <2>6. Holds(T \ {c})
    <3> HIDE DEF Holds
    <3> QED BY <2>1, <2>5, <1>fin
  <2>7. /\ SumFunctionOnSet(f, T) = f[c] + SumFunctionOnSet(f, T \ {c})
        /\ SumFunctionOnSet(f, T \ {c}) \in Int
    BY <1>fin, SumSplit
  <2>8. /\ SumFunctionOnSet(g, T) = g[c] + SumFunctionOnSet(g, T \ {c})
        /\ SumFunctionOnSet(g, T \ {c}) \in Int
    BY <1>fin, SumSplit
  <2>9. SumFunctionOnSet(h, T) = h[c] + SumFunctionOnSet(h, T \ {c})
    BY <1>fin, SumSplit
  <2> QED BY <2>2, <2>6, <2>7, <2>8, <2>9
<1>2. Holds(S)
  <2> HIDE DEF Holds
  <2> QED BY <1>1, <1>fin
<1> QED BY <1>2

\* Adding one point to the set.
LEMMA SumAdd ==
  ASSUME NEW f, NEW g, NEW S, IsFiniteSet(S), NEW a, a \notin S,
         g[a] \in Int, \A x \in S : f[x] \in Int /\ g[x] = f[x]
  PROVE  SumFunctionOnSet(g, S \cup {a}) = SumFunctionOnSet(f, S) + g[a]
<1>1. IsFiniteSet(S \cup {a}) /\ (S \cup {a}) \ {a} = S
  BY FS_AddElement
<1>2. SumFunctionOnSet(g, S \cup {a}) = g[a] + SumFunctionOnSet(g, S)
  BY <1>1, SumSplit
<1>3. SumFunctionOnSet(g, S) = SumFunctionOnSet(f, S) /\ SumFunctionOnSet(f, S) \in Int
  BY SumCongruence, SumSplit
<1> QED BY <1>2, <1>3

\* A sum splits along a subset.
LEMMA SumPartition ==
  ASSUME NEW f, NEW S, IsFiniteSet(S), \A x \in S : f[x] \in Int, NEW R \in SUBSET S
  PROVE  SumFunctionOnSet(f, S) = SumFunctionOnSet(f, R) + SumFunctionOnSet(f, S \ R)
<1> DEFINE Splits(T) ==
             SumFunctionOnSet(f, S) = SumFunctionOnSet(f, T) + SumFunctionOnSet(f, S \ T)
           Bad == {n \in Nat : \E T \in SUBSET S : Cardinality(T) = n /\ ~Splits(T)}
<1>fin. \A T \in SUBSET S : IsFiniteSet(T) /\ Cardinality(T) \in Nat
  BY FS_Subset, FS_CardinalityType
<1>int. \A T \in SUBSET S : SumFunctionOnSet(f, T) \in Int
  BY <1>fin, SumSplit
<1>1. Bad = {}
  <2> SUFFICES ASSUME Bad # {} PROVE FALSE
    OBVIOUS
  <2>1. PICK n \in Bad : \A m \in Bad : n <= m
    <3> HIDE DEF Splits
    <3> QED BY NatMinimum
  <2>2. PICK T \in SUBSET S : Cardinality(T) = n /\ ~Splits(T)
    BY <2>1
  <2>3. T # {}
    <3>1. Splits({})
      BY SumEmpty, <1>int
    <3> HIDE DEF Splits
    <3> QED BY <2>2, <3>1
  <2>4. PICK c \in T : TRUE
    BY <2>3
  <2>5. T \ {c} \in SUBSET S /\ Cardinality(T \ {c}) < n
    BY <2>2, <2>4, <1>fin, FS_Subset
  <2>6. Splits(T \ {c})
    <3> HIDE DEF Splits
    <3> QED BY <2>1, <2>5, <1>fin
  <2>7. SumFunctionOnSet(f, T) = f[c] + SumFunctionOnSet(f, T \ {c})
    BY <1>fin, SumSplit
  <2>8. SumFunctionOnSet(f, S \ (T \ {c})) = f[c] + SumFunctionOnSet(f, S \ T)
    <3> DEFINE W == S \ (T \ {c})
    <3>1. c \in W /\ W \ {c} = S \ T
      BY <2>4
    <3>2. W \in SUBSET S
      OBVIOUS
    <3>3. IsFiniteSet(W) /\ \A x \in W : f[x] \in Int
      BY <3>2, <1>fin
    <3> HIDE DEF W
    <3>4. SumFunctionOnSet(f, W) = f[c] + SumFunctionOnSet(f, W \ {c})
      BY <3>1, <3>3, SumSplit
    <3> QED BY <3>1, <3>4 DEF W
  <2>9. f[c] \in Int
    BY <2>4
  <2> QED BY <2>2, <2>5, <2>6, <2>7, <2>8, <2>9, <1>int
<1>2. Splits(R)
  <2> HIDE DEF Splits
  <2> QED BY <1>1, <1>fin
<1> QED BY <1>2

-----------------------------------------------------------------------------
(* Truncating division, in which the contracts compute every share.         *)

\* The quotient is a natural, and the divisor times it is at most the dividend.
LEMMA DivFacts ==
  ASSUME NEW x \in Nat, NEW y \in Nat, y > 0
  PROVE  /\ x \div y \in Nat
         /\ y * (x \div y) <= x
         /\ x < y * (x \div y) + y
<1>1. x = y * (x \div y) + (x % y) /\ x % y \in 0 .. (y - 1) /\ x \div y \in Int
  BY SMTT(30)
<1>2. x \div y >= 0
  <2> DEFINE q == x \div y
  <2>1. q \in Int /\ x = y * q + (x % y) /\ x % y < y
    BY <1>1
  <2> HIDE DEF q
  <2>2. SUFFICES ASSUME q < 0 PROVE FALSE
    BY <2>1, <2>2 DEF q
  <2>3. y * q <= y * (-1)
    BY <2>2, <2>1, SMTT(30)
  <2> QED BY <2>3, <2>1, SMTT(30)
<1> QED BY <1>1, <1>2, SMTT(30)

\* Dividing a multiple is exact.
\* A quotient is told by the multiples of the divisor around the number.
LEMMA DivUnique ==
  ASSUME NEW x \in Nat, NEW y \in Nat, y > 0, NEW q \in Nat
  PROVE  x \div y = q <=> q * y <= x /\ x < q * y + y
<1> DEFINE d == x \div y
<1>1. d \in Nat /\ y * d <= x /\ x < y * d + y
  BY DivFacts
<1> HIDE DEF d
<1>2. y * d = d * y /\ d * y \in Nat /\ q * y \in Nat
  BY <1>1, SMTT(30)
<1>3. ASSUME q * y <= x, x < q * y + y PROVE d = q
  <2> DEFINE a == d * y
             b == q * y
  <2>1. a < b + y /\ b < a + y
    <3>1. a <= x /\ x < a + y /\ b <= x /\ x < b + y /\ a \in Nat /\ b \in Nat
      BY <1>1, <1>2, <1>3
    <3> HIDE DEF a, b
    <3> QED BY <3>1
  <2>2. ASSUME d < q PROVE FALSE
    <3>1. d * y + y <= q * y
      <4>1. (d + 1) * y <= q * y /\ (d + 1) * y = d * y + y
        BY <1>1, <2>2, SMTT(30)
      <4> QED BY <4>1
    <3> QED BY <1>2, <2>1, <3>1
  <2>3. ASSUME q < d PROVE FALSE
    <3>1. q * y + y <= d * y
      <4>1. (q + 1) * y <= d * y /\ (q + 1) * y = q * y + y
        BY <1>1, <2>3, SMTT(30)
      <4> QED BY <4>1
    <3> QED BY <1>2, <2>1, <3>1
  <2> QED BY <1>1, <2>2, <2>3
<1> QED BY <1>1, <1>2, <1>3 DEF d

LEMMA DivExact ==
  ASSUME NEW q \in Nat, NEW y \in Nat, y > 0
  PROVE  (q * y) \div y = q
<1> DEFINE d == (q * y) \div y
<1>1. d \in Nat /\ y * d <= q * y /\ q * y < y * d + y
  BY DivFacts, SMTT(30)
<1> HIDE DEF d
<1>2. ~(d > q)
  <2>1. SUFFICES ASSUME d >= q + 1 PROVE FALSE
    BY <1>1
  <2>2. y * d >= y * (q + 1) /\ y * (q + 1) = q * y + y
    BY <2>1, <1>1, SMTT(30)
  <2> QED BY <2>2, <1>1, SMTT(30)
<1>3. ~(d < q)
  <2>1. SUFFICES ASSUME d + 1 <= q PROVE FALSE
    BY <1>1
  <2>2. y * (d + 1) <= y * q /\ y * (d + 1) = y * d + y /\ y * q = q * y
    BY <2>1, <1>1, SMTT(30)
  <2> QED BY <2>2, <1>1, SMTT(30)
<1> QED BY <1>1, <1>2, <1>3 DEF d

\* A dividend of at most y * z has a quotient of at most z.
LEMMA DivBound ==
  ASSUME NEW x \in Nat, NEW y \in Nat, y > 0, NEW z \in Nat, x <= y * z
  PROVE  x \div y <= z
<1> DEFINE q == x \div y
<1>1. q \in Nat /\ y * q <= x
  BY DivFacts
<1> HIDE DEF q
<1>2. SUFFICES ASSUME q > z PROVE FALSE
  BY <1>1, <1>2 DEF q
<1>3. y * q >= y * (z + 1)
  BY <1>1, <1>2, SMTT(30)
<1>4. y * (z + 1) = y * z + y
  BY SMTT(30)
<1> QED BY <1>1, <1>3, <1>4
-----------------------------------------------------------------------------
(* Shares of a pot in proportion to weights.                                *)

LEMMA SumScale ==
  ASSUME NEW S, IsFiniteSet(S), NEW k \in Int, NEW f, NEW g,
         \A x \in S : f[x] \in Int /\ g[x] = k * f[x]
  PROVE  SumFunctionOnSet(g, S) = k * SumFunctionOnSet(f, S)
<1> DEFINE Scaled(T) == SumFunctionOnSet(g, T) = k * SumFunctionOnSet(f, T)
           Bad == {n \in Nat : \E T \in SUBSET S : Cardinality(T) = n /\ ~Scaled(T)}
<1>fin. \A T \in SUBSET S : IsFiniteSet(T) /\ Cardinality(T) \in Nat
  BY FS_Subset, FS_CardinalityType
<1>int. \A x \in S : g[x] \in Int
  BY SMTT(30)
<1>1. Bad = {}
  <2> SUFFICES ASSUME Bad # {} PROVE FALSE
    OBVIOUS
  <2>1. PICK n \in Bad : \A m \in Bad : n <= m
    <3> HIDE DEF Scaled
    <3> QED BY NatMinimum
  <2>2. PICK T \in SUBSET S : Cardinality(T) = n /\ ~Scaled(T)
    BY <2>1
  <2>3. T # {}
    <3>1. Scaled({})
      BY SumEmpty
    <3> HIDE DEF Scaled
    <3> QED BY <2>2, <3>1
  <2>4. PICK c \in T : TRUE
    BY <2>3
  <2>5. /\ T \ {c} \in SUBSET S
        /\ Cardinality(T \ {c}) < n
    BY <2>2, <2>4, <1>fin, FS_Subset
  <2>6. Scaled(T \ {c})
    <3> HIDE DEF Scaled
    <3> QED BY <2>1, <2>5, <1>fin
  <2>7. /\ SumFunctionOnSet(f, T) = f[c] + SumFunctionOnSet(f, T \ {c})
        /\ SumFunctionOnSet(f, T \ {c}) \in Int
    BY <1>fin, SumSplit
  <2>8. SumFunctionOnSet(g, T) = g[c] + SumFunctionOnSet(g, T \ {c})
    BY <1>fin, <1>int, SumSplit
  <2>9. g[c] = k * f[c] /\ f[c] \in Int
    OBVIOUS
  <2> DEFINE F == SumFunctionOnSet(f, T \ {c})
  <2>10. SumFunctionOnSet(g, T) = k * f[c] + k * F /\ SumFunctionOnSet(f, T) = f[c] + F
    BY <2>6, <2>7, <2>8, <2>9
  <2>11. F \in Int
    BY <2>7
  <2> HIDE DEF F
  <2>12. k * f[c] + k * F = k * (f[c] + F)
    BY <2>9, <2>11, SMTT(30)
  <2> QED BY <2>2, <2>10, <2>12
<1>2. Scaled(S)
  <2> HIDE DEF Scaled
  <2> QED BY <1>1, <1>fin
<1> QED BY <1>2

\* Counting as summing.
LEMMA SumOnes ==
  ASSUME NEW f, NEW S, IsFiniteSet(S), \A x \in S : f[x] = 1
  PROVE  SumFunctionOnSet(f, S) = Cardinality(S)
<1> DEFINE Counts(T) == SumFunctionOnSet(f, T) = Cardinality(T)
           Bad == {n \in Nat : \E T \in SUBSET S : Cardinality(T) = n /\ ~Counts(T)}
<1>fin. \A T \in SUBSET S : IsFiniteSet(T) /\ Cardinality(T) \in Nat
  BY FS_Subset, FS_CardinalityType
<1>1. Bad = {}
  <2> SUFFICES ASSUME Bad # {} PROVE FALSE
    OBVIOUS
  <2>1. PICK n \in Bad : \A m \in Bad : n <= m
    <3> HIDE DEF Counts
    <3> QED BY NatMinimum
  <2>2. PICK T \in SUBSET S : Cardinality(T) = n /\ ~Counts(T)
    BY <2>1
  <2>3. T # {}
    <3>1. Counts({})
      BY SumEmpty, FS_EmptySet
    <3> HIDE DEF Counts
    <3> QED BY <2>2, <3>1
  <2>4. PICK c \in T : TRUE
    BY <2>3
  <2>5. T \ {c} \in SUBSET S /\ Cardinality(T \ {c}) = n - 1 /\ n \in Nat
    BY <2>2, <2>4, <1>fin, FS_RemoveElement
  <2>6. Counts(T \ {c})
    <3> HIDE DEF Counts
    <3> QED BY <2>1, <2>5, <1>fin
  <2>7. SumFunctionOnSet(f, T) = f[c] + SumFunctionOnSet(f, T \ {c})
    BY <1>fin, SumSplit
  <2> QED BY <2>2, <2>4, <2>5, <2>6, <2>7
<1>2. Counts(S)
  <2> HIDE DEF Counts
  <2> QED BY <1>1, <1>fin
<1> QED BY <1>2

\* The same amount for every member of a part of the set.
LEMMA SumIndicator ==
  ASSUME NEW S, IsFiniteSet(S), NEW R, R \subseteq S, NEW k \in Int, NEW f,
         \A x \in S : f[x] = IF x \in R THEN k ELSE 0
  PROVE  SumFunctionOnSet(f, S) = k * Cardinality(R) /\ Cardinality(R) \in Nat
<1>1. IsFiniteSet(R) /\ IsFiniteSet(S \ R) /\ Cardinality(R) \in Nat
  BY FS_Subset, FS_CardinalityType
<1>2. SumFunctionOnSet(f, S) = SumFunctionOnSet(f, R) + SumFunctionOnSet(f, S \ R)
  <2>1. \A x \in S : f[x] \in Int
    OBVIOUS
  <2> QED BY <2>1, SumPartition
<1>3. SumFunctionOnSet(f, S \ R) = 0
  BY <1>1, SumZero
<1> DEFINE one == [x \in R |-> 1]
<1>4. \A x \in R : one[x] = 1
  OBVIOUS
<1> HIDE DEF one
<1>5. SumFunctionOnSet(one, R) = Cardinality(R)
  BY <1>1, <1>4, SumOnes
<1>6. \A x \in R : one[x] \in Int /\ f[x] = k * one[x]
  BY <1>4
<1>7. SumFunctionOnSet(f, R) = k * SumFunctionOnSet(one, R)
  BY <1>1, <1>6, SumScale
<1>8. k * Cardinality(R) \in Int
  BY <1>1
<1> QED BY <1>1, <1>2, <1>3, <1>5, <1>7, <1>8

\* Truncated shares of a pot never add up to more than the pot.
LEMMA SumShares ==
  ASSUME NEW S, IsFiniteSet(S), NEW w \in [S -> Nat], NEW pot \in Nat,
         NEW total, total = SumFunctionOnSet(w, S), total > 0,
         NEW f, \A x \in S : f[x] \in Nat /\ f[x] <= (pot * w[x]) \div total
  PROVE  SumFunctionOnSet(f, S) <= pot
<1> DEFINE F == SumFunctionOnSet(f, S)
           Tf == [x \in S |-> total * f[x]]
           Pw == [x \in S |-> pot * w[x]]
<1>1. total \in Nat /\ F \in Nat
  BY SumNat
<1>2. \A x \in S : Tf[x] \in Int /\ Pw[x] \in Int /\ Tf[x] <= Pw[x]
  <2> SUFFICES ASSUME NEW x \in S PROVE total * f[x] \in Int /\ pot * w[x] \in Nat /\ total * f[x] <= pot * w[x]
    OBVIOUS
  <2> DEFINE q == (pot * w[x]) \div total
  <2>1. w[x] \in Nat /\ pot * w[x] \in Nat
    BY SMTT(30)
  <2>2. q \in Nat /\ total * q <= pot * w[x]
    BY <1>1, <2>1, DivFacts
  <2>3. f[x] <= q /\ f[x] \in Nat
    OBVIOUS
  <2> HIDE DEF q
  <2>4. total * f[x] <= total * q /\ total * f[x] \in Int
    BY <1>1, <2>2, <2>3, SMTT(30)
  <2>5. total * q \in Int
    BY <1>1, <2>2, SMTT(30)
  <2> DEFINE a == total * f[x]  b == total * q  c == pot * w[x]
  <2>6. a <= b /\ b <= c /\ a \in Int /\ b \in Int /\ c \in Int
    BY <2>1, <2>2, <2>4, <2>5
  <2>7. a <= c
    <3> HIDE DEF a, b, c
    <3> QED BY <2>6
  <2> QED BY <2>1, <2>4, <2>7
<1>3. SumFunctionOnSet(Tf, S) <= SumFunctionOnSet(Pw, S)
  BY <1>2, SumMonotone, Zenon
<1>4. SumFunctionOnSet(Tf, S) = total * F
  BY <1>1, SumScale
<1>5. SumFunctionOnSet(Pw, S) = pot * total
  BY <1>1, SumScale
<1> HIDE DEF F, Tf, Pw
<1>6. total * F <= pot * total
  BY <1>3, <1>4, <1>5
<1>7. SUFFICES ASSUME F > pot PROVE FALSE
  BY <1>1, <1>7 DEF F
<1>8. total * F >= total * (pot + 1)
  BY <1>1, <1>7, SMTT(30)
<1>9. total * (pot + 1) = pot * total + total
  BY <1>1, SMTT(30)
<1>10. total * F \in Int /\ pot * total \in Int /\ total * (pot + 1) \in Int
  BY <1>1, SMTT(30)
<1> QED BY <1>1, <1>6, <1>8, <1>9, <1>10

\* The same amount for every member.
LEMMA SumConstant ==
  ASSUME NEW S, IsFiniteSet(S), NEW k \in Int, NEW f, \A x \in S : f[x] = k
  PROVE  SumFunctionOnSet(f, S) = k * Cardinality(S) /\ Cardinality(S) \in Nat
BY SumIndicator

\* Truncated shares of a pot fall short of the exact ones, together, by less
\* than one of total for each.
LEMMA SumTruncated ==
  ASSUME NEW S, IsFiniteSet(S), NEW w, \A x \in S : w[x] \in Nat, NEW pot \in Nat,
         NEW total \in Nat, total > 0,
         NEW f, \A x \in S : f[x] = (pot * w[x]) \div total
  PROVE  /\ SumFunctionOnSet(f, S) * total <= pot * SumFunctionOnSet(w, S)
         /\ SumFunctionOnSet(f, S) * total >= pot * SumFunctionOnSet(w, S) - Cardinality(S) * (total - 1)
<1> DEFINE Tf == [x \in S |-> total * f[x]]
           Pw == [x \in S |-> pot * w[x]]
           Lack == [x \in S |-> pot * w[x] - total * f[x]]
           Most == [x \in S |-> total - 1]
<1>1. \A x \in S : /\ f[x] \in Nat /\ total * f[x] \in Int /\ pot * w[x] \in Int
                    /\ total * f[x] <= pot * w[x]
                    /\ pot * w[x] - total * f[x] <= total - 1
  <2> SUFFICES ASSUME NEW x \in S
               PROVE  /\ f[x] \in Nat /\ total * f[x] \in Int /\ pot * w[x] \in Int
                      /\ total * f[x] <= pot * w[x]
                      /\ pot * w[x] - total * f[x] <= total - 1
    OBVIOUS
  <2> DEFINE m == pot * w[x]
             q == m \div total
  <2>1. w[x] \in Nat /\ m \in Nat /\ f[x] = q
    BY SMTT(30)
  <2> HIDE DEF m
  <2>2. q \in Nat /\ total * q <= m /\ m < total * q + total
    BY <2>1, DivFacts
  <2> HIDE DEF q
  <2>3. total * q \in Nat
    BY <2>2, SMTT(30)
  <2> DEFINE e == total * q
  <2>4. e \in Nat /\ e <= m /\ m < e + total
    BY <2>2, <2>3
  <2> HIDE DEF e
  <2>5. e <= m /\ m - e <= total - 1
    BY <2>1, <2>4
  <2> QED BY <2>1, <2>2, <2>3, <2>5 DEF e, m
<1>2. \A x \in S : Tf[x] = total * f[x] /\ Pw[x] = pot * w[x] /\ Lack[x] = Pw[x] - Tf[x] /\ Most[x] = total - 1
  OBVIOUS
<1> HIDE DEF Tf, Pw, Lack, Most
<1>3. \A x \in S : /\ Tf[x] \in Int /\ Pw[x] \in Int /\ Lack[x] \in Int /\ Most[x] \in Int
                    /\ Tf[x] <= Pw[x] /\ Lack[x] <= Most[x]
  BY <1>1, <1>2
<1>4. SumFunctionOnSet(Tf, S) = total * SumFunctionOnSet(f, S)
  BY <1>1, <1>2, SumScale
<1>5. SumFunctionOnSet(Pw, S) = pot * SumFunctionOnSet(w, S)
  BY <1>2, SumScale
<1>6. SumFunctionOnSet(Lack, S) = SumFunctionOnSet(Pw, S) - SumFunctionOnSet(Tf, S)
  BY <1>2, <1>3, SumDifference
<1>7. SumFunctionOnSet(Lack, S) <= SumFunctionOnSet(Most, S) /\ SumFunctionOnSet(Tf, S) <= SumFunctionOnSet(Pw, S)
  BY <1>3, SumMonotone
<1>8. SumFunctionOnSet(Most, S) = (total - 1) * Cardinality(S) /\ Cardinality(S) \in Nat
  BY <1>2, SumConstant
<1>9. SumFunctionOnSet(f, S) \in Nat /\ SumFunctionOnSet(w, S) \in Nat
  BY <1>1, SumNat
<1> DEFINE F == SumFunctionOnSet(f, S)
           W == SumFunctionOnSet(w, S)
           a == F * total
           b == pot * W
           c == Cardinality(S) * (total - 1)
<1>10. a \in Int /\ b \in Int /\ c \in Int /\ total * F = a /\ (total - 1) * Cardinality(S) = c
  BY <1>8, <1>9, SMTT(30)
<1>11. SumFunctionOnSet(Tf, S) = a /\ SumFunctionOnSet(Pw, S) = b /\ SumFunctionOnSet(Most, S) = c
  BY <1>4, <1>5, <1>8, <1>10
<1>12. a <= b /\ a >= b - c
  <2> HIDE DEF a, b, c
  <2> QED BY <1>6, <1>7, <1>10, <1>11
<1> QED BY <1>12
\* The members of I that a sends to h, and into H.
Fiber(I, a, h) == {i \in I : a[i] = h}
FiberOver(I, a, H) == {i \in I : a[i] \in H}

\* Adding up by destination adds up everything that has a destination.
LEMMA SumFibers ==
  ASSUME NEW I, IsFiniteSet(I), NEW a, NEW f, \A i \in I : f[i] \in Int,
         NEW H, IsFiniteSet(H), NEW g,
         \A h \in H : g[h] = SumFunctionOnSet(f, Fiber(I, a, h))
  PROVE  SumFunctionOnSet(g, H) = SumFunctionOnSet(f, FiberOver(I, a, H))
<1> DEFINE Holds(T) == SumFunctionOnSet(g, T) = SumFunctionOnSet(f, FiberOver(I, a, T))
           Bad == {n \in Nat : \E T \in SUBSET H : Cardinality(T) = n /\ ~Holds(T)}
<1>fin. \A T \in SUBSET H : IsFiniteSet(T) /\ Cardinality(T) \in Nat
  BY FS_Subset, FS_CardinalityType
<1>over. \A T : IsFiniteSet(FiberOver(I, a, T)) /\ FiberOver(I, a, T) \subseteq I
  BY FS_Subset DEF FiberOver
<1>int. \A h \in H : g[h] \in Int
  <2> SUFFICES ASSUME NEW h \in H PROVE g[h] \in Int
    OBVIOUS
  <2>1. IsFiniteSet(Fiber(I, a, h)) /\ Fiber(I, a, h) \subseteq I
    BY FS_Subset DEF Fiber
  <2> QED BY <2>1, SumSplit
<1>1. Bad = {}
  <2> SUFFICES ASSUME Bad # {} PROVE FALSE
    OBVIOUS
  <2>1. PICK n \in Bad : \A m \in Bad : n <= m
    <3> HIDE DEF Holds
    <3> QED BY NatMinimum
  <2>2. PICK T \in SUBSET H : Cardinality(T) = n /\ ~Holds(T)
    OBVIOUS
  <2>3. T # {}
    <3>1. FiberOver(I, a, {}) = {}
      BY DEF FiberOver
    <3> QED BY <2>2, <3>1, SumEmpty
  <2>4. PICK x \in T : TRUE
    BY <2>3
  <2>5. T \ {x} \in SUBSET H /\ Cardinality(T \ {x}) = n - 1 /\ n \in Nat
    BY <2>2, <2>4, <1>fin, FS_RemoveElement
  <2>6. Holds(T \ {x})
    <3> HIDE DEF Holds
    <3> QED BY <2>1, <2>5, <1>fin
  <2>7. SumFunctionOnSet(g, T) = g[x] + SumFunctionOnSet(g, T \ {x})
    <3>1. IsFiniteSet(T) /\ \A y \in T : g[y] \in Int
      BY <1>fin, <1>int
    <3> QED BY <2>4, <3>1, SumSplit
  <2> DEFINE F == FiberOver(I, a, T)
             R == Fiber(I, a, x)
  <2>8. IsFiniteSet(F) /\ R \in SUBSET F /\ F \ R = FiberOver(I, a, T \ {x})
        /\ \A i \in F : f[i] \in Int
    BY <1>over, <2>4 DEF FiberOver, Fiber
  <2>9. SumFunctionOnSet(f, F) = SumFunctionOnSet(f, R) + SumFunctionOnSet(f, F \ R)
    <3> HIDE DEF F, R
    <3> QED BY <2>8, SumPartition
  <2> QED BY <2>2, <2>4, <2>6, <2>7, <2>8, <2>9
<1>2. Holds(H)
  <2> HIDE DEF Holds
  <2> QED BY <1>1, <1>fin
<1> QED BY <1>2

\* What has a destination in H is at most everything.
LEMMA SumFibersBound ==
  ASSUME NEW I, IsFiniteSet(I), NEW a, NEW f, \A i \in I : f[i] \in Nat,
         NEW H, IsFiniteSet(H), NEW g,
         \A h \in H : g[h] = SumFunctionOnSet(f, Fiber(I, a, h))
  PROVE  /\ \A h \in H : g[h] \in Nat
         /\ SumFunctionOnSet(g, H) <= SumFunctionOnSet(f, I)
<1> DEFINE F == FiberOver(I, a, H)
<1>1. F \in SUBSET I /\ IsFiniteSet(F) /\ IsFiniteSet(I \ F)
  BY FS_Subset DEF FiberOver
<1>2. ASSUME NEW h \in H PROVE g[h] \in Nat
  <2>1. IsFiniteSet(Fiber(I, a, h)) /\ Fiber(I, a, h) \subseteq I
    BY FS_Subset DEF Fiber
  <2> QED BY <2>1, SumNat
<1>3. SumFunctionOnSet(g, H) = SumFunctionOnSet(f, F)
  BY SumFibers
<1>4. \A i \in I : f[i] \in Int
  OBVIOUS
<1>5. SumFunctionOnSet(f, I) = SumFunctionOnSet(f, F) + SumFunctionOnSet(f, I \ F)
  <2> HIDE DEF F
  <2> QED BY <1>1, <1>4, SumPartition
<1>6. SumFunctionOnSet(f, F) \in Nat /\ SumFunctionOnSet(f, I \ F) \in Nat
  <2> HIDE DEF F
  <2>1. (\A i \in F : f[i] \in Nat) /\ (\A i \in I \ F : f[i] \in Nat)
    BY <1>1
  <2> QED BY <1>1, <2>1, SumNat
<1> QED BY <1>2, <1>3, <1>5, <1>6
LEMMA DivMonotone ==
  ASSUME NEW x \in Nat, NEW y \in Nat, x <= y, NEW k \in Nat, k > 0
  PROVE  x \div k <= y \div k
<1> DEFINE a == x \div k
           b == y \div k
<1>1. a \in Nat /\ b \in Nat /\ k * a <= x /\ y < k * b + k
  BY DivFacts
<1> HIDE DEF a, b
<1>2. SUFFICES ASSUME b + 1 <= a PROVE FALSE
  BY <1>1 DEF a, b
<1>3. k * (b + 1) <= k * a
  BY <1>1, <1>2, SMTT(30)
<1>4. k * (b + 1) = k * b + k
  BY <1>1, SMTT(30)
<1>5. k * a \in Nat /\ k * b \in Nat
  BY <1>1, SMTT(30)
<1> HIDE <1>2
<1> QED BY <1>1, <1>3, <1>4, <1>5

(***************************************************************************)
(* Loops.  A function defined by recursion over an interval is the value   *)
(* of a CHOOSE.  That there is such a function, and that what a loop       *)
(* preserves holds of all its values, is shown here.                       *)
(***************************************************************************)

IsLoop(g, lo, hi, base, body) ==
  g = [k \in lo .. hi |-> IF k = lo THEN base ELSE body[<<g[k - 1], k>>]]

LEMMA LoopInvariant ==
  ASSUME NEW lo \in Int, NEW hi \in Int, NEW S, NEW g, g[lo] \in S,
         \A k \in (lo + 1) .. hi : g[k - 1] \in S => g[k] \in S
  PROVE  \A k \in lo .. hi : g[k] \in S
<1> DEFINE Bad == {n \in Nat : lo + n <= hi /\ g[lo + n] \notin S}
<1>1. Bad = {}
  <2> SUFFICES ASSUME Bad # {} PROVE FALSE
    OBVIOUS
  <2>1. PICK n \in Bad : \A m \in Bad : n <= m
    <3>1. Bad \subseteq Nat
      OBVIOUS
    <3> HIDE DEF Bad
    <3> QED BY <3>1, NatMinimum
  <2>2. n \in Nat /\ n # 0 /\ lo + n <= hi /\ g[lo + n] \notin S
    OBVIOUS
  <2>3. n - 1 \in Nat /\ n - 1 \notin Bad
    <3>1. n - 1 \in Nat /\ ~(n <= n - 1)
      BY <2>2
    <3> HIDE DEF Bad
    <3> QED BY <2>1, <3>1
  <2>4. g[lo + (n - 1)] \in S
    BY <2>2, <2>3
  <2>5. lo + n \in (lo + 1) .. hi /\ (lo + n) - 1 = lo + (n - 1)
    BY <2>2
  <2> QED BY <2>2, <2>4, <2>5
<1> SUFFICES ASSUME NEW k \in lo .. hi PROVE g[k] \in S
  OBVIOUS
<1>2. k - lo \in Nat /\ lo + (k - lo) = k /\ k <= hi
  OBVIOUS
<1>3. k - lo \notin Bad
  BY <1>1
<1> QED BY <1>2, <1>3

\* Induction up to a number.
LEMMA UpTo ==
  ASSUME NEW lo \in Int, NEW hi \in Int, NEW T, lo \in T, \A k \in (lo + 1) .. hi : k - 1 \in T => k \in T
  PROVE  \A k \in lo .. hi : k \in T
<1> DEFINE g == [k \in lo .. hi |-> k]
<1>1. CASE lo <= hi
  <2>1. g[lo] \in T
    BY <1>1
  <2>2. \A k \in (lo + 1) .. hi : g[k - 1] = k - 1 /\ g[k] = k
    OBVIOUS
  <2>3. \A k \in (lo + 1) .. hi : g[k - 1] \in T => g[k] \in T
    <3> HIDE DEF g
    <3> QED BY <2>2
  <2>4. \A k \in lo .. hi : g[k] = k
    OBVIOUS
  <2> HIDE DEF g
  <2>5. \A k \in lo .. hi : g[k] \in T
    BY <2>1, <2>3, LoopInvariant
  <2> QED BY <2>4, <2>5
<1>2. CASE ~(lo <= hi)
  BY <1>2
<1> QED BY <1>1, <1>2

\* A loop that goes one step further takes it from where the other ends.
GoesOn(g, h, hi, next, body) == h[next] = body[<<g[hi], next>>]

LEMMA LoopNext ==
  ASSUME NEW lo \in Int, NEW hi \in Int, lo <= hi, NEW base, NEW body,
         NEW next, next = hi + 1,
         NEW g, IsLoop(g, lo, hi, base, body), NEW h, IsLoop(h, lo, next, base, body)
  PROVE  GoesOn(g, h, hi, next, body)
<1> DEFINE T == {k \in lo .. hi : g[k] = h[k]}
<1>1. /\ \A k \in lo .. hi : g[k] = IF k = lo THEN base ELSE body[<<g[k - 1], k>>]
      /\ \A k \in lo .. (hi + 1) : h[k] = IF k = lo THEN base ELSE body[<<h[k - 1], k>>]
  BY DEF IsLoop
<1>2. lo \in T
  <2>1. lo \in lo .. hi /\ lo \in lo .. (hi + 1)
    OBVIOUS
  <2>2. g[lo] = base /\ h[lo] = base
    BY <1>1, <2>1
  <2> QED BY <2>1, <2>2
<1>3. \A k \in (lo + 1) .. hi : k - 1 \in T => k \in T
  <2> SUFFICES ASSUME NEW k \in (lo + 1) .. hi, k - 1 \in T PROVE k \in T
    OBVIOUS
  <2>1. k \in lo .. hi /\ k \in lo .. (hi + 1) /\ k # lo /\ g[k - 1] = h[k - 1]
    OBVIOUS
  <2> QED BY <1>1, <2>1
<1> HIDE DEF T
<1>4. hi \in lo .. hi /\ hi + 1 \in lo .. (hi + 1) /\ hi + 1 # lo /\ (hi + 1) - 1 = hi
  OBVIOUS
<1>5. hi \in T
  BY <1>2, <1>3, <1>4, UpTo
<1>6. g[hi] = h[hi]
  BY <1>5 DEF T
<1> QED BY <1>1, <1>4, <1>6 DEF GoesOn

LEMMA LoopExists ==
  ASSUME NEW lo \in Int, NEW hi \in Int, lo <= hi, NEW base, NEW body
  PROVE  \E g : IsLoop(g, lo, hi, base, body)
<1> DEFINE Good(n) == \E g : IsLoop(g, lo, lo + n, base, body)
           Bad == {n \in Nat : lo + n <= hi /\ ~Good(n)}
<1>1. Bad = {}
  <2> SUFFICES ASSUME Bad # {} PROVE FALSE
    OBVIOUS
  <2>1. PICK n \in Bad : \A m \in Bad : n <= m
    <3>1. Bad \subseteq Nat
      OBVIOUS
    <3> HIDE DEF Bad
    <3> QED BY <3>1, NatMinimum
  <2>2. n \in Nat /\ lo + n <= hi /\ ~Good(n)
    OBVIOUS
  <2>3. n # 0
    <3> SUFFICES ASSUME n = 0 PROVE Good(0)
      BY <2>2
    <3> DEFINE g == [k \in lo .. lo |-> base]
    <3>1. IsLoop(g, lo, lo + 0, base, body)
      BY DEF IsLoop
    <3> QED BY <3>1
  <2>4. n - 1 \in Nat /\ n - 1 \notin Bad
    <3>1. n - 1 \in Nat /\ ~(n <= n - 1)
      BY <2>2, <2>3
    <3> HIDE DEF Bad
    <3> QED BY <2>1, <3>1
  <2>5. Good(n - 1)
    <3>1. lo + (n - 1) <= hi
      BY <2>2
    <3> HIDE DEF Good
    <3> QED BY <2>4, <3>1
  <2>6. PICK g : IsLoop(g, lo, lo + (n - 1), base, body)
    BY <2>5
  <2> DEFINE last == lo + n
             h == [k \in lo .. last |-> IF k = last THEN body[<<g[last - 1], last>>] ELSE g[k]]
  <2>7. last \in Int /\ last > lo /\ last - 1 = lo + (n - 1)
    BY <2>2, <2>3
  <2>8. g = [k \in lo .. (last - 1) |-> IF k = lo THEN base ELSE body[<<g[k - 1], k>>]]
    BY <2>6, <2>7 DEF IsLoop
  <2> HIDE DEF last
  <2>9. /\ h[last] = body[<<g[last - 1], last>>] /\ h[last - 1] = g[last - 1]
        /\ \A k \in lo .. (last - 1) : h[k] = g[k]
    BY <2>7
  <2>10. \A k \in lo .. last : h[k] = IF k = lo THEN base ELSE body[<<h[k - 1], k>>]
    <3> SUFFICES ASSUME NEW k \in lo .. last
                 PROVE  h[k] = IF k = lo THEN base ELSE body[<<h[k - 1], k>>]
      OBVIOUS
    <3>1. CASE k = last
      <4>1. last # lo
        BY <2>7
      <4> HIDE DEF h
      <4> QED BY <2>9, <3>1, <4>1
    <3>2. CASE k # last
      <4>1. k \in lo .. (last - 1)
        BY <2>7, <3>2
      <4>2. g[k] = IF k = lo THEN base ELSE body[<<g[k - 1], k>>]
        BY <2>8, <4>1
      <4>3. h[k] = g[k] /\ (k # lo => h[k - 1] = g[k - 1])
        BY <2>7, <2>9, <4>1
      <4> QED BY <4>2, <4>3
    <3> QED BY <3>1, <3>2
  <2>11. h = [k \in lo .. last |-> IF k = lo THEN base ELSE body[<<h[k - 1], k>>]]
    <3>1. h = [k \in lo .. last |-> h[k]]
      OBVIOUS
    <3> HIDE DEF h
    <3> QED BY <2>10, <3>1
  <2>12. Good(n)
    BY <2>11 DEF IsLoop, last
  <2> QED BY <2>2, <2>12
<1>2. hi - lo \in Nat /\ lo + (hi - lo) = hi
  OBVIOUS
<1>3. Good(hi - lo)
  <2> HIDE DEF Good
  <2> QED BY <1>1, <1>2
<1> QED BY <1>2, <1>3
=============================================================================

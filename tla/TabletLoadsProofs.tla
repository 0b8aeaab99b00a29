-------------------------- MODULE TabletLoadsProofs --------------------------
(***************************************************************************)
(* What the operators that add up, sort and fold do on every input: sums   *)
(* and maxima over finite sets, the sort and the median, the skew, and the *)
(* loop of applyTabletLoads.                                               *)
(*                                                                         *)
(* An induction over a finite set is an argument by a smallest             *)
(* counterexample: a nonempty set of subsets of a finite set has one that  *)
(* contains no other (SmallestSubset).  An induction over the naturals is  *)
(* one by a least counterexample (LeastOf), which follows.  Hypotheses     *)
(* that lemmas share are named operators (IsList, IsRows, LevelsAre, ...). *)
(***************************************************************************)
EXTENDS TabletLoads, FiniteSetTheorems, TLAPS

-----------------------------------------------------------------------------
(* Sums and maxima over finite sets *)

\* A property that fails for some subset of a finite set fails for a smallest one.
LEMMA SmallestSubset ==
    ASSUME NEW S, IsFiniteSet(S), NEW T, T \subseteq SUBSET S, T # {}
    PROVE  \E x \in T : \A y \in T : y \subseteq x => y = x
<1>1. IsWellFoundedOn(StrictSubsetOrdering(S), SUBSET S)
  BY FS_FiniteSubsetsOfFinite, FS_StrictSubsetOrderingWellFounded, Zenon
<1>2. \E x \in T : \A y \in T : <<y, x>> \notin StrictSubsetOrdering(S)
  BY <1>1, WFMin, Zenon
<1> QED
  BY <1>2 DEF StrictSubsetOrdering

\* iter adds up the values of f over the subsets of S, one chosen element at a time.
Some(s) == CHOOSE x \in s : TRUE

AddsUp(iter, f, S) ==
    iter = [s \in SUBSET S |-> IF s = {} THEN 0 ELSE f[Some(s)] + iter[s \ {Some(s)}]]

\* SumFunctionOnSet, by its definition.
LEMMA SumIs ==
    ASSUME NEW f, NEW S
    PROVE  SumFunctionOnSet(f, S) = (CHOOSE iter : AddsUp(iter, f, S))[S]
  BY DEF SumFunctionOnSet, FoldFunctionOnSet, MapThenFoldSet, AddsUp, Some

\* The element that the sum takes next.
LEMMA SomeIn == ASSUME NEW s, s # {} PROVE Some(s) \in s
  BY DEF Some

\* What iter is on a set, of its value on a smaller one.
LEMMA AddsUpFacts ==
    ASSUME NEW f, NEW V, NEW i, AddsUp(i, f, V)
    PROVE  /\ i[{}] = 0
           /\ \A s \in SUBSET V : s # {} => i[s] = f[Some(s)] + i[s \ {Some(s)}]
<1>1. i = [s \in SUBSET V |-> IF s = {} THEN 0 ELSE f[Some(s)] + i[s \ {Some(s)}]]
  BY DEF AddsUp
<1> QED
  BY <1>1

\* Two of them agree on the sets they share.
LEMMA AddsUpAgree ==
    ASSUME NEW f, NEW V, NEW W, IsFiniteSet(V), NEW i, NEW j, AddsUp(i, f, V), AddsUp(j, f, W),
           NEW s \in SUBSET V, s \subseteq W
    PROVE  i[s] = j[s]
<1> DEFINE Bad == {u \in SUBSET V : u \subseteq W /\ i[u] # j[u]}
<1> SUFFICES ASSUME Bad # {} PROVE FALSE
  OBVIOUS
<1>0. Bad \subseteq SUBSET V
  OBVIOUS
<1>1. PICK u \in Bad : \A w \in Bad : w \subseteq u => w = u
  <2> HIDE DEF Bad
  <2> QED
    BY <1>0, SmallestSubset
<1>2. /\ u # {} => Some(u) \in u
      /\ i[{}] = 0 /\ j[{}] = 0
      /\ u # {} => i[u] = f[Some(u)] + i[u \ {Some(u)}]
      /\ u # {} => j[u] = f[Some(u)] + j[u \ {Some(u)}]
  BY SomeIn, AddsUpFacts
<1>3. u # {}
  <2>1. {} \notin Bad
    BY <1>2
  <2> QED
    BY <2>1
<1>4. u \ {Some(u)} \notin Bad
  BY <1>1, <1>2, <1>3
<1>5. i[u \ {Some(u)}] = j[u \ {Some(u)}]
  BY <1>4
<1> QED
  BY <1>2, <1>3, <1>5

\* There is one for every finite set.
LEMMA AddsUpExists ==
    ASSUME NEW f, NEW S, IsFiniteSet(S)
    PROVE  \E iter : AddsUp(iter, f, S)
<1> DEFINE Bad == {u \in SUBSET S : ~ \E iter : AddsUp(iter, f, u)}
<1> SUFFICES ASSUME Bad # {} PROVE FALSE
  OBVIOUS
<1>0. Bad \subseteq SUBSET S
  OBVIOUS
<1>1. PICK u \in Bad : \A w \in Bad : w \subseteq u => w = u
  <2> HIDE DEF Bad
  <2> QED
    BY <1>0, SmallestSubset
<1>2. \A w \in SUBSET u : w # u => \E iter : AddsUp(iter, f, w)
  BY <1>1
<1> DEFINE sum(w) == (CHOOSE iter : AddsUp(iter, f, w))[w]
           it == [s \in SUBSET u |-> IF s = {} THEN 0 ELSE f[Some(s)] + sum(s \ {Some(s)})]
<1>3. ASSUME NEW w \in SUBSET u, w # u
      PROVE  sum(w) = IF w = {} THEN 0 ELSE f[Some(w)] + sum(w \ {Some(w)})
  <2> DEFINE i == CHOOSE iter : AddsUp(iter, f, w)
  <2>1. AddsUp(i, f, w)
    BY <1>2, <1>3
  <2> HIDE DEF i
  <2>2. CASE w = {}
    <3>1. i[w] = 0
      BY <2>1, <2>2, AddsUpFacts
    <3> QED
      BY <2>2, <3>1 DEF i
  <2>3. CASE w # {}
    <3> DEFINE v == w \ {Some(w)}
               j == CHOOSE iter : AddsUp(iter, f, v)
    <3>1. v \in SUBSET w /\ v \in SUBSET u /\ v # u
      BY <1>3, <2>3, SomeIn
    <3>2. AddsUp(j, f, v)
      BY <3>1, <1>2
    <3>3. i[w] = f[Some(w)] + i[v]
      BY <2>1, <2>3, AddsUpFacts
    <3> HIDE DEF v, j
    <3>4. IsFiniteSet(w)
      BY <1>3, FS_Subset
    <3>5. i[v] = j[v]
      BY <2>1, <3>1, <3>2, <3>4, AddsUpAgree
    <3> QED
      BY <2>3, <3>3, <3>5 DEF i, j, v
  <2> QED
    BY <2>2, <2>3
<1> HIDE DEF sum
<1>4. ASSUME NEW s \in SUBSET u PROVE s # {} => it[s \ {Some(s)}] = sum(s \ {Some(s)})
  <2> SUFFICES ASSUME s # {} PROVE it[s \ {Some(s)}] = sum(s \ {Some(s)})
    OBVIOUS
  <2>1. s \ {Some(s)} \in SUBSET u /\ s \ {Some(s)} # u
    BY SomeIn
  <2> QED
    BY <1>3, <2>1
<1>5. AddsUp(it, f, u)
  <2> HIDE DEF it
  <2>1. it = [s \in SUBSET u |-> IF s = {} THEN 0 ELSE f[Some(s)] + it[s \ {Some(s)}]]
    BY <1>4 DEF it
  <2> QED
    BY <2>1 DEF AddsUp
<1> QED
  BY <1>1, <1>5

\* The sum over a set, from any element and the rest.
LEMMA SumSome ==
    ASSUME NEW f, NEW S, IsFiniteSet(S)
    PROVE  /\ SumFunctionOnSet(f, {}) = 0
           /\ S # {} => SumFunctionOnSet(f, S)
                          = f[Some(S)] + SumFunctionOnSet(f, S \ {Some(S)})
<1> DEFINE sum(T) == SumFunctionOnSet(f, T)
           i(T) == CHOOSE iter : AddsUp(iter, f, T)
<1>1. \A T \in SUBSET S : AddsUp(i(T), f, T)
  BY FS_Subset, AddsUpExists
<1>2. \A T : sum(T) = i(T)[T]
  BY SumIs
<1> HIDE DEF sum, i
<1>3. sum({}) = 0
  BY <1>1, <1>2, AddsUpFacts
<1>4. ASSUME S # {} PROVE sum(S) = f[Some(S)] + sum(S \ {Some(S)})
  <2> DEFINE T == S \ {Some(S)}
  <2>1. AddsUp(i(S), f, S) /\ AddsUp(i(T), f, T)
    BY <1>1
  <2>2. sum(S) = f[Some(S)] + i(S)[T]
    BY <1>2, <1>4, <2>1, AddsUpFacts
  <2>3. i(S)[T] = i(T)[T]
    <3>1. T \in SUBSET S
      OBVIOUS
    <3> HIDE DEF T
    <3> QED
      BY <2>1, <3>1, AddsUpAgree
  <2> QED
    BY <1>2, <2>2, <2>3
<1> QED
  BY <1>3, <1>4 DEF sum

\* A sum of integers is an integer.
LEMMA SumType ==
    ASSUME NEW S, IsFiniteSet(S), NEW f, \A x \in S : f[x] \in Int
    PROVE  SumFunctionOnSet(f, S) \in Int
<1> DEFINE Bad == {u \in SUBSET S : SumFunctionOnSet(f, u) \notin Int}
<1> SUFFICES ASSUME Bad # {} PROVE FALSE
  OBVIOUS
<1>0. Bad \subseteq SUBSET S
  OBVIOUS
<1>1. PICK u \in Bad : \A w \in Bad : w \subseteq u => w = u
  <2> HIDE DEF Bad
  <2> QED
    BY <1>0, SmallestSubset
<1>2. /\ SumFunctionOnSet(f, {}) = 0
      /\ u # {} => SumFunctionOnSet(f, u) = f[Some(u)] + SumFunctionOnSet(f, u \ {Some(u)})
      /\ u # {} => Some(u) \in u
  BY FS_Subset, SumSome, SomeIn
<1>3. u # {}
  <2>1. {} \notin Bad
    BY <1>2
  <2> QED
    BY <2>1
<1>4. u \ {Some(u)} \notin Bad /\ u \ {Some(u)} \in SUBSET S
  BY <1>1, <1>2, <1>3
<1>5. SumFunctionOnSet(f, u \ {Some(u)}) \in Int /\ f[Some(u)] \in Int
  BY <1>2, <1>3, <1>4
<1> QED
  BY <1>2, <1>3, <1>5

\* The sum over a set, from any element x and the rest.
LEMMA SumRemove ==
    ASSUME NEW S, IsFiniteSet(S), NEW f, \A y \in S : f[y] \in Int, NEW x \in S
    PROVE  SumFunctionOnSet(f, S) = f[x] + SumFunctionOnSet(f, S \ {x})
<1> DEFINE sum(T) == SumFunctionOnSet(f, T)
           Bad == {u \in SUBSET S : \E y \in u : sum(u) # f[y] + sum(u \ {y})}
<1> SUFFICES ASSUME Bad # {} PROVE FALSE
  OBVIOUS
<1>0. Bad \subseteq SUBSET S
  OBVIOUS
<1>1. PICK u \in Bad : \A w \in Bad : w \subseteq u => w = u
  <2> HIDE DEF Bad
  <2> QED
    BY <1>0, SmallestSubset
<1>2. PICK y \in u : sum(u) # f[y] + sum(u \ {y})
  OBVIOUS
<1> DEFINE c == Some(u)
<1>3. /\ c \in u /\ sum(u) = f[c] + sum(u \ {c})
      /\ \A T \in SUBSET u : IsFiniteSet(T) /\ sum(T) \in Int
  BY FS_Subset, SumSome, SomeIn, SumType
<1> HIDE DEF sum, c
<1>4. y # c
  BY <1>2, <1>3
<1>5. sum(u \ {c}) = f[y] + sum((u \ {c}) \ {y})
  BY <1>1, <1>3, <1>4
<1>6. sum(u \ {y}) = f[c] + sum((u \ {y}) \ {c})
  BY <1>1, <1>3, <1>4
<1>7. (u \ {y}) \ {c} = (u \ {c}) \ {y}
  OBVIOUS
<1>8. f[y] \in Int /\ f[c] \in Int /\ sum((u \ {y}) \ {c}) \in Int
  BY <1>3
<1>9. sum((u \ {c}) \ {y}) = sum((u \ {y}) \ {c})
  BY <1>7
<1>10. sum(u) = f[c] + (f[y] + sum((u \ {y}) \ {c}))
  BY <1>3, <1>5, <1>9
<1>11. sum(u) = f[y] + sum(u \ {y})
  BY <1>6, <1>8, <1>10
<1> QED
  BY <1>2, <1>11

\* Only the values that are not zero count.
LEMMA SumOnSupport ==
    ASSUME NEW S, IsFiniteSet(S), NEW f, NEW g, \A y \in S : f[y] \in Int,
           NEW T \in SUBSET S, \A y \in S : f[y] = IF y \in T THEN g[y] ELSE 0
    PROVE  SumFunctionOnSet(f, S) = SumFunctionOnSet(g, T)
<1> DEFINE Bad == {u \in SUBSET S : SumFunctionOnSet(f, u) # SumFunctionOnSet(g, u \cap T)}
<1> SUFFICES ASSUME Bad # {} PROVE FALSE
  <2>1. S \cap T = T /\ S \notin Bad
    OBVIOUS
  <2> QED
    BY <2>1
<1>0. Bad \subseteq SUBSET S
  OBVIOUS
<1>1. PICK u \in Bad : \A w \in Bad : w \subseteq u => w = u
  <2> HIDE DEF Bad
  <2> QED
    BY <1>0, SmallestSubset
<1>2. u # {} /\ IsFiniteSet(u) /\ IsFiniteSet(u \cap T)
  <2>1. SumFunctionOnSet(f, {}) = 0 /\ SumFunctionOnSet(g, {}) = 0 /\ {} \cap T = {}
    BY SumSome, FS_EmptySet
  <2> QED
    BY <2>1, FS_Subset
<1>3. PICK x \in u : TRUE
  BY <1>2
<1> DEFINE v == u \ {x}
<1>4. SumFunctionOnSet(f, v) = SumFunctionOnSet(g, v \cap T)
  BY <1>1
<1>5. SumFunctionOnSet(f, u) = f[x] + SumFunctionOnSet(f, v) /\ SumFunctionOnSet(f, v) \in Int
  <2>1. IsFiniteSet(v) /\ \A y \in v : f[y] \in Int
    BY FS_Subset
  <2> QED
    BY <1>2, <2>1, SumRemove, SumType
<1>6. CASE x \in T
  <2>1. (u \cap T) \ {x} = v \cap T /\ x \in u \cap T /\ \A y \in u \cap T : g[y] \in Int
    BY <1>6
  <2>2. SumFunctionOnSet(g, u \cap T) = g[x] + SumFunctionOnSet(g, (u \cap T) \ {x})
    BY <1>2, <2>1, SumRemove
  <2> QED
    BY <1>4, <1>5, <1>6, <2>1, <2>2
<1>7. CASE x \notin T
  <2>1. u \cap T = v \cap T /\ f[x] = 0
    BY <1>7
  <2>2. SumFunctionOnSet(f, u) = SumFunctionOnSet(f, v)
    BY <1>5, <2>1
  <2> QED
    BY <1>4, <2>1, <2>2
<1> QED
  BY <1>6, <1>7

\* A sum of naturals is positive when one of them is.
LEMMA SumPositive ==
    ASSUME NEW S, IsFiniteSet(S), NEW f, \A y \in S : f[y] \in Nat
    PROVE  /\ SumFunctionOnSet(f, S) \in Nat
           /\ SumFunctionOnSet(f, S) > 0 <=> \E y \in S : f[y] > 0
<1> DEFINE sum(T) == SumFunctionOnSet(f, T)
           Bad == {u \in SUBSET S : ~(sum(u) \in Nat /\ (sum(u) > 0 <=> \E y \in u : f[y] > 0))}
<1> SUFFICES ASSUME Bad # {} PROVE FALSE
  OBVIOUS
<1>0. Bad \subseteq SUBSET S
  OBVIOUS
<1>1. PICK u \in Bad : \A w \in Bad : w \subseteq u => w = u
  <2> HIDE DEF Bad
  <2> QED
    BY <1>0, SmallestSubset
<1>2. u # {} /\ IsFiniteSet(u)
  <2>1. sum({}) = 0
    BY SumSome, FS_EmptySet
  <2>2. {} \notin Bad
    BY <2>1
  <2> QED
    BY <2>2, FS_Subset
<1>3. PICK x \in u : TRUE
  BY <1>2
<1>4. sum(u \ {x}) \in Nat /\ (sum(u \ {x}) > 0 <=> \E y \in u \ {x} : f[y] > 0)
  BY <1>1
<1>5. sum(u) = f[x] + sum(u \ {x})
  BY <1>2, SumRemove
<1> HIDE DEF sum
<1> QED
  BY <1>1, <1>4, <1>5

\* Disjoint sets are counted separately.
LEMMA DisjointUnion ==
    ASSUME NEW S, NEW T, IsFiniteSet(S), IsFiniteSet(T), S \cap T = {}
    PROVE  /\ IsFiniteSet(S \cup T)
           /\ Cardinality(S) \in Nat /\ Cardinality(T) \in Nat
           /\ Cardinality(S \cup T) = Cardinality(S) + Cardinality(T)
<1>1. Cardinality(S \cap T) = 0
  BY FS_EmptySet
<1>2. /\ IsFiniteSet(S \cup T)
      /\ Cardinality(S \cup T) = Cardinality(S) + Cardinality(T) - Cardinality(S \cap T)
  BY FS_Union
<1>3. Cardinality(S) \in Nat /\ Cardinality(T) \in Nat
  BY FS_CardinalityType
<1> QED
  BY <1>1, <1>2, <1>3

\* A finite set of integers has a largest element.
LEMMA MaxIs ==
    ASSUME NEW S, IsFiniteSet(S), S # {}, \A y \in S : y \in Int
    PROVE  Max(S) \in S /\ \A y \in S : Max(S) >= y
<1> DEFINE Bad == {u \in SUBSET S : u # {} /\ ~ \E x \in u : \A y \in u : x >= y}
<1> SUFFICES ASSUME Bad # {} PROVE FALSE
  <2>1. ASSUME Bad = {} PROVE \E x \in S : \A y \in S : x >= y
    BY <2>1
  <2> QED
    BY <2>1 DEF Max
<1>0. Bad \subseteq SUBSET S
  OBVIOUS
<1>1. PICK u \in Bad : \A w \in Bad : w \subseteq u => w = u
  <2> HIDE DEF Bad
  <2> QED
    BY <1>0, SmallestSubset
<1>2. PICK x \in u : TRUE
  OBVIOUS
<1> DEFINE rest == u \ {x}
<1>3. rest \in SUBSET S /\ rest \notin Bad /\ (\A y \in u : y \in Int) /\ u = rest \cup {x}
  BY <1>1, <1>2
<1>4. rest # {} => \E m \in rest : \A y \in rest : m >= y
  BY <1>3
<1>5. ~ \E m \in u : \A y \in u : m >= y
  OBVIOUS
<1> HIDE DEF rest, Bad
<1>6. CASE rest = {}
  BY <1>3, <1>5, <1>6
<1>7. CASE rest # {}
  <2>1. PICK m \in rest : \A y \in rest : m >= y
    BY <1>4, <1>7
  <2>2. m \in Int /\ x \in Int /\ \A y \in rest : y \in Int
    BY <1>3
  <2>3. CASE m >= x
    BY <1>3, <1>5, <2>1, <2>3
  <2>4. CASE ~(m >= x)
    <3>1. \A y \in u : x >= y
      BY <1>3, <2>1, <2>2, <2>4
    <3> QED
      BY <1>5, <3>1
  <2> QED
    BY <2>3, <2>4
<1> QED
  BY <1>6, <1>7

\* More than one element.
LEMMA MoreThanOne ==
    ASSUME NEW S, IsFiniteSet(S)
    PROVE  Cardinality(S) > 1 <=> \E x, y \in S : x # y
<1>1. Cardinality(S) \in Nat /\ (Cardinality(S) = 0 <=> S = {})
  BY FS_CardinalityType, FS_EmptySet
<1>2. Cardinality(S) = 1 <=> \E x : S = {x}
  BY FS_Singleton
<1>3. CASE S = {}
  BY <1>1, <1>3
<1>4. CASE S # {}
  <2>1. PICK x \in S : TRUE
    BY <1>4
  <2>2. (\E z : S = {z}) <=> ~ \E y, z \in S : y # z
    BY <2>1
  <2> QED
    BY <1>1, <1>2, <1>4, <2>2
<1> QED
  BY <1>3, <1>4

-----------------------------------------------------------------------------
(* Sorting *)

\* An interval of integers is finite.
LEMMA IntervalIsFinite ==
    ASSUME NEW m \in Int, NEW n \in Int
    PROVE  IsFiniteSet(m..n)
  BY FS_Interval, Zenon

\* A set of naturals up to n has a least element.
LEMMA LeastOf ==
    ASSUME NEW n \in Nat, NEW B \in SUBSET (0..n), B # {}
    PROVE  \E x \in B : \A y \in B : x <= y
<1> DEFINE S == 0..n
           T == {0..k : k \in B}
<1>1. IsFiniteSet(S)
  BY IntervalIsFinite
<1>2. T \subseteq SUBSET S /\ T # {}
  <2>1. \A k \in B : 0..k \subseteq S
    OBVIOUS
  <2> QED
    BY <2>1, Zenon
<1>3. PICK t \in T : \A u \in T : u \subseteq t => u = t
  <2> HIDE DEF S, T
  <2> QED
    BY <1>1, <1>2, SmallestSubset
<1>4. PICK k \in B : t = 0..k
  BY <1>3
<1>5. ASSUME NEW y \in B PROVE k <= y
  <2> SUFFICES ASSUME y < k PROVE FALSE
    OBVIOUS
  <2>1. 0..y \in T /\ 0..y \subseteq 0..k
    OBVIOUS
  <2>2. 0..y = 0..k
    BY <1>3, <1>4, <2>1
  <2>3. k \in 0..k /\ k \notin 0..y
    OBVIOUS
  <2> QED
    BY <2>2, <2>3
<1> QED
  BY <1>4, <1>5

\* The values of a sequence are finitely many.
LEMMA ImageIsFinite ==
    ASSUME NEW D, IsFiniteSet(D), NEW f
    PROVE  IsFiniteSet({f[i] : i \in D})
<1> DEFINE T == {f[i] : i \in D}
           g == [i \in D |-> f[i]]
<1>1. g \in Surjection(D, T)
  BY DEF Surjection
<1> HIDE DEF g, T
<1>2. IsFiniteSet(T)
  BY <1>1, FS_Surjection
<1> QED
  BY <1>2 DEF T

Orders(p, f, n) ==
    /\ p \in [1..n -> 1..n]
    /\ \A i, j \in 1..n : i < j => p[i] # p[j] /\ f[p[i]] <= f[p[j]]

\* A sequence is put in order by moving a largest member to the end.
LEMMA OrderOneMore ==
    ASSUME NEW m \in Nat, m # 0, NEW g \in [1..m -> Int],
           \A h \in [1..(m - 1) -> Int] : \E q : Orders(q, h, m - 1)
    PROVE  \E p : Orders(p, g, m)
<1>1. PICK k \in 1..m : \A i \in 1..m : g[k] >= g[i]
  <2> DEFINE S == {g[i] : i \in 1..m}
  <2>1. IsFiniteSet(S)
    <3>1. IsFiniteSet(1..m)
      BY IntervalIsFinite
    <3> HIDE DEF S
    <3> QED
      BY <3>1, ImageIsFinite, Zenon DEF S
  <2>2. 1 \in 1..m /\ \A i \in 1..m : g[i] \in Int
    OBVIOUS
  <2>3. S # {} /\ \A y \in S : y \in Int
    BY <2>2, Zenon
  <2>4. Max(S) \in S /\ \A y \in S : Max(S) >= y
    <3> HIDE DEF S
    <3> QED
      BY <2>1, <2>3, MaxIs
  <2> QED
    BY <2>4
<1> DEFINE h == [i \in 1..(m - 1) |-> IF i = k THEN g[m] ELSE g[i]]
<1>2. PICK q : Orders(q, h, m - 1)
  <2>1. m \in 1..m /\ \A i \in 1..(m - 1) : i \in 1..m
    OBVIOUS
  <2>2. h \in [1..(m - 1) -> Int]
    BY <2>1
  <2> HIDE DEF h
  <2> QED
    BY <2>2
<1> DEFINE p == [i \in 1..m |-> IF i = m THEN k ELSE IF q[i] = k THEN m ELSE q[i]]
<1>3. ASSUME NEW i \in 1..(m - 1)
      PROVE  i \in 1..m /\ i # m /\ q[i] \in 1..(m - 1) /\ q[i] \in 1..m /\ q[i] # m
  <2>1. q[i] \in 1..(m - 1)
    BY <1>2 DEF Orders
  <2> QED
    BY <2>1
<1>4. ASSUME NEW i \in 1..(m - 1)
      PROVE  g[p[i]] = h[q[i]] /\ p[i] # k /\ p[i] \in 1..m
  <2>1. p[i] = IF q[i] = k THEN m ELSE q[i]
    BY <1>3
  <2>2. h[q[i]] = IF q[i] = k THEN g[m] ELSE g[q[i]]
    BY <1>3
  <2>3. m \in 1..m
    OBVIOUS
  <2>4. q[i] \in 1..m /\ q[i] # m
    BY <1>3
  <2>5. CASE q[i] = k
    BY <2>1, <2>2, <2>3, <2>4, <2>5
  <2>6. CASE q[i] # k
    BY <2>1, <2>2, <2>4, <2>6
  <2> QED
    BY <2>5, <2>6
<1>5. m \in 1..m /\ \A i \in 1..m : i # m => i \in 1..(m - 1)
  OBVIOUS
<1>6. p[m] = k /\ p \in [1..m -> 1..m]
  <2>1. p[m] = k
    BY <1>5
  <2>2. \A i \in 1..m : p[i] \in 1..m
    BY <1>4, <1>5, <2>1
  <2> QED
    BY <2>1, <2>2
<1> HIDE DEF p, h
<1>7. ASSUME NEW i \in 1..m, NEW j \in 1..m, i < j
      PROVE  p[i] # p[j] /\ g[p[i]] <= g[p[j]]
  <2>1. i \in 1..(m - 1)
    BY <1>7
  <2>2. CASE j = m
    BY <1>1, <1>4, <1>6, <2>1, <2>2
  <2>3. CASE j # m
    <3>1. j \in 1..(m - 1)
      BY <1>5, <2>3
    <3>2. q[i] # q[j] /\ h[q[i]] <= h[q[j]]
      BY <1>2, <1>7, <2>1, <3>1 DEF Orders
    <3>3. p[i] # p[j]
      BY <1>3, <1>5, <2>1, <3>1, <3>2, <2>3 DEF p
    <3> QED
      BY <1>4, <2>1, <3>1, <3>2, <3>3
  <2> QED
    BY <2>2, <2>3
<1>8. Orders(p, g, m)
  BY <1>6, <1>7 DEF Orders
<1> QED
  BY <1>8

\* Every sequence of integers has an order in which it ascends.
LEMMA OrderExists ==
    ASSUME NEW n \in Nat, NEW f \in [1..n -> Int]
    PROVE  \E p : Orders(p, f, n)
<1> DEFINE Ordered(m) == \A g \in [1..m -> Int] : \E p : Orders(p, g, m)
           Bad == {m \in 0..n : ~Ordered(m)}
<1>1. Ordered(0)
  <2> SUFFICES ASSUME NEW g \in [1..0 -> Int] PROVE \E p : Orders(p, g, 0)
    OBVIOUS
  <2>1. Orders([i \in 1..0 |-> i], g, 0)
    BY DEF Orders
  <2> QED
    BY <2>1
<1>2. ASSUME NEW m \in Nat, m # 0, Ordered(m - 1) PROVE Ordered(m)
  BY <1>2, OrderOneMore
<1> HIDE DEF Ordered
<1>3. Bad = {}
  <2> SUFFICES ASSUME Bad # {} PROVE FALSE
    OBVIOUS
  <2>1. Bad \in SUBSET (0..n)
    OBVIOUS
  <2> HIDE DEF Bad
  <2>2. PICK m \in Bad : \A k \in Bad : m <= k
    BY <2>1, LeastOf
  <2>3. m \in 0..n /\ ~Ordered(m)
    BY DEF Bad
  <2>4. m \in Nat /\ m # 0 /\ m - 1 \in 0..n /\ ~(m <= m - 1)
    BY <1>1, <2>3
  <2>5. m - 1 \notin Bad
    BY <2>2, <2>4
  <2>6. Ordered(m - 1)
    BY <2>4, <2>5 DEF Bad
  <2> QED
    BY <1>2, <2>3, <2>4, <2>6
<1>4. n \in 0..n
  OBVIOUS
<1>5. Ordered(n)
  BY <1>3, <1>4
<1> QED
  BY <1>5 DEF Ordered

Reorders(p, n) == p \in [1..n -> 1..n] /\ \A i, j \in 1..n : i < j => p[i] # p[j]

\* Counting through a bijection of the positions.
LEMMA CountThrough ==
    ASSUME NEW n \in Nat, NEW p, Reorders(p, n), NEW C \in SUBSET (1..n)
    PROVE  /\ IsFiniteSet({j \in 1..n : p[j] \in C}) /\ IsFiniteSet(C)
           /\ Cardinality({j \in 1..n : p[j] \in C}) = Cardinality(C)
           /\ \A i \in 1..n : \E j \in 1..n : p[j] = i
<1> DEFINE A == {j \in 1..n : p[j] \in C}
           f == [j \in A |-> p[j]]
<1>1. IsFiniteSet(1..n) /\ IsFiniteSet(A) /\ IsFiniteSet(C)
  <2>1. IsFiniteSet(1..n)
    BY IntervalIsFinite
  <2>2. A \subseteq 1..n /\ C \subseteq 1..n
    OBVIOUS
  <2> QED
    BY <2>1, <2>2, FS_Subset, Zenon
<1>2. \A i, j \in 1..n : p[i] = p[j] => i = j
  <2> SUFFICES ASSUME NEW i \in 1..n, NEW j \in 1..n, p[i] = p[j], i # j PROVE FALSE
    OBVIOUS
  <2>1. i < j \/ j < i
    OBVIOUS
  <2> QED
    BY <2>1 DEF Reorders
<1>3. p \in Injection(1..n, 1..n)
  BY <1>2 DEF Injection, IsInjective, Reorders
<1>4. p \in Surjection(1..n, 1..n)
  BY <1>1, <1>3, FS_Injection
<1>5. \A i \in 1..n : \E j \in 1..n : p[j] = i
  BY <1>4 DEF Surjection
<1>6. f \in Bijection(A, C)
  <2>1. f \in [A -> C] /\ \A i, j \in A : f[i] = f[j] => i = j
    BY <1>2 DEF Reorders
  <2>2. \A c \in C : \E j \in A : f[j] = c
    BY <1>5
  <2> HIDE DEF f, A
  <2> QED
    BY <2>1, <2>2 DEF Bijection, Injection, Surjection, IsInjective
<1>7. Cardinality(C) = Cardinality(A)
  <2>1. ExistsBijection(A, C)
    BY <1>6 DEF ExistsBijection
  <2> HIDE DEF A
  <2> QED
    BY <1>1, <2>1, FS_Bijection
<1> QED
  BY <1>1, <1>5, <1>7

\* What ascending returns.
LEMMA Ascends ==
    ASSUME NEW n \in Nat, NEW f \in [1..n -> Int]
    PROVE  /\ ascending(f) \in [1..n -> Int]
           /\ \A i, j \in 1..n : i < j => ascending(f)[i] <= ascending(f)[j]
           /\ \E p : Reorders(p, n) /\ \A i \in 1..n : ascending(f)[i] = f[p[i]]
<1> DEFINE Good(p) == \A i, j \in DOMAIN f : i < j => p[i] # p[j] /\ f[p[i]] <= f[p[j]]
           order == CHOOSE p \in [DOMAIN f -> DOMAIN f] : Good(p)
<1>1. DOMAIN f = 1..n
  OBVIOUS
<1>2. \E p \in [DOMAIN f -> DOMAIN f] : Good(p)
  BY <1>1, OrderExists DEF Orders
<1>3. order \in [1..n -> 1..n] /\ Good(order)
  <2> HIDE DEF Good
  <2> QED
    BY <1>1, <1>2
<1>4. ascending(f) = [i \in 1..n |-> f[order[i]]]
  BY <1>1 DEF ascending
<1> HIDE DEF order
<1>5. \A i \in 1..n : order[i] \in 1..n /\ ascending(f)[i] = f[order[i]]
  BY <1>3, <1>4
<1>6. ascending(f) \in [1..n -> Int]
  BY <1>3, <1>4
<1>7. \A i, j \in 1..n : i < j => order[i] # order[j] /\ f[order[i]] <= f[order[j]]
  BY <1>1, <1>3
<1>8. \A i, j \in 1..n : i < j => ascending(f)[i] <= ascending(f)[j]
  BY <1>5, <1>7
<1>9. Reorders(order, n)
  BY <1>3, <1>7 DEF Reorders
<1>10. \E p : Reorders(p, n) /\ \A i \in 1..n : ascending(f)[i] = f[p[i]]
  BY <1>5, <1>9
<1> QED
  BY <1>6, <1>8, <1>10

IsList(f, n) == f \in [1..n -> Int]

\* Two images are equal when each value of one is a value of the other.
LEMMA SetEquality ==
    ASSUME NEW D, NEW E, NEW f, NEW g, \A i \in D : \E j \in E : f[i] = g[j],
           \A j \in E : \E i \in D : f[i] = g[j]
    PROVE  {f[i] : i \in D} = {g[i] : i \in E}
  OBVIOUS

\* The members of a list are those of the ascending one, as often.
LEMMA SameMembers ==
    ASSUME NEW n \in Nat, NEW f, IsList(f, n), NEW P
    PROVE  /\ {f[i] : i \in 1..n} = {ascending(f)[i] : i \in 1..n}
           /\ Cardinality({i \in 1..n : f[i] \in P})
                 = Cardinality({i \in 1..n : ascending(f)[i] \in P})
<1> DEFINE s == ascending(f)
           C == {i \in 1..n : f[i] \in P}
<1>1. PICK p : Reorders(p, n) /\ \A i \in 1..n : s[i] = f[p[i]]
  BY Ascends DEF IsList
<1> HIDE DEF s
<1>2. C \in SUBSET (1..n)
  OBVIOUS
<1>3. /\ Cardinality({j \in 1..n : p[j] \in C}) = Cardinality(C)
      /\ \A i \in 1..n : \E j \in 1..n : p[j] = i
  <2>1. Reorders(p, n)
    BY <1>1
  <2> HIDE DEF C
  <2> QED
    BY <2>1, <1>2, CountThrough
<1>4. {j \in 1..n : p[j] \in C} = {j \in 1..n : s[j] \in P}
  BY <1>1 DEF Reorders
<1>5. {f[i] : i \in 1..n} = {s[i] : i \in 1..n}
  <2>1. ASSUME NEW i \in 1..n PROVE \E j \in 1..n : f[i] = s[j]
    <3>1. PICK j \in 1..n : p[j] = i
      BY <1>3
    <3>2. s[j] = f[i]
      BY <1>1, <3>1
    <3> QED
      BY <3>2
  <2>2. ASSUME NEW j \in 1..n PROVE \E i \in 1..n : f[i] = s[j]
    BY <1>1 DEF Reorders
  <2> QED
    BY <2>1, <2>2, SetEquality
<1> QED
  BY <1>3, <1>4, <1>5 DEF s

\* The largest member is the last of the ascending list.
LEMMA MaxOfList ==
    ASSUME NEW n \in Nat, n # 0, NEW f \in [1..n -> Int]
    PROVE  Max({f[i] : i \in 1..n}) = ascending(f)[n]
<1> DEFINE s == ascending(f)
           S == {s[i] : i \in 1..n}
<1>1. s \in [1..n -> Int] /\ \A i, j \in 1..n : i < j => s[i] <= s[j]
  BY Ascends
<1>2. n \in 1..n /\ \A i \in 1..n : i = n \/ i < n
  OBVIOUS
<1> HIDE DEF s
<1>3. s[n] \in S /\ (\A y \in S : y \in Int /\ s[n] >= y)
  BY <1>1, <1>2
<1> HIDE DEF S
<1>4. Max(S) = s[n]
  <2>1. Max(S) \in S /\ \A y \in S : Max(S) >= y
    BY <1>3 DEF Max
  <2> QED
    BY <1>3, <2>1
<1>5. {f[i] : i \in 1..n} = S
  BY SameMembers DEF IsList, S, s
<1> QED
  BY <1>4, <1>5 DEF s

\* The counts around the k-th member of an ascending list.
LEMMA CountsAround ==
    ASSUME NEW n \in Nat, NEW s \in [1..n -> Int], NEW k \in 1..n,
           \A i, j \in 1..n : i < j => s[i] <= s[j]
    PROVE  /\ Cardinality({i \in 1..n : s[i] <= s[k]}) >= k
           /\ Cardinality({i \in 1..n : s[i] >= s[k]}) >= n - k + 1
           /\ \A v \in Int : v < s[k] => Cardinality({i \in 1..n : s[i] <= v}) <= k - 1
           /\ \A v \in Int : v > s[k] => Cardinality({i \in 1..n : s[i] >= v}) <= n - k
<1>1. /\ IsFiniteSet(1..(k - 1)) /\ IsFiniteSet((k + 1)..n)
      /\ Cardinality(1..k) = k /\ Cardinality(k..n) = n - k + 1
      /\ Cardinality(1..(k - 1)) = k - 1 /\ Cardinality((k + 1)..n) = n - k
  <2>1. \A a, b \in Int : Cardinality(a..b) = IF a > b THEN 0 ELSE b - a + 1
    BY FS_Interval, Zenon
  <2>2. 1 \in Int /\ k \in Int /\ n \in Int /\ k - 1 \in Int /\ k + 1 \in Int /\ 1 <= k /\ k <= n
    OBVIOUS
  <2>3. \A a, b \in Int : IsFiniteSet(a..b)
    BY IntervalIsFinite, Zenon
  <2>4. Cardinality(1..k) = k
    BY <2>1, <2>2
  <2>5. Cardinality(k..n) = n - k + 1
    BY <2>1, <2>2
  <2>6. Cardinality(1..(k - 1)) = k - 1
    <3>1. Cardinality(1..(k - 1)) = IF 1 > k - 1 THEN 0 ELSE (k - 1) - 1 + 1
      BY <2>1, <2>2, Zenon
    <3> QED
      BY <2>2, <3>1
  <2>7. Cardinality((k + 1)..n) = n - k
    <3>1. Cardinality((k + 1)..n) = IF k + 1 > n THEN 0 ELSE n - (k + 1) + 1
      BY <2>1, <2>2, Zenon
    <3> QED
      BY <2>2, <3>1
  <2>8. IsFiniteSet(1..(k - 1)) /\ IsFiniteSet((k + 1)..n)
    BY <2>2, <2>3, Zenon
  <2> QED
    BY <2>4, <2>5, <2>6, <2>7, <2>8
<1>2. ASSUME NEW A, NEW B, IsFiniteSet(B), A \subseteq B
      PROVE  Cardinality(A) \in Nat /\ Cardinality(A) <= Cardinality(B)
  BY <1>2, FS_Subset, FS_CardinalityType
<1>3. \A P \in SUBSET (1..n) : IsFiniteSet(P) /\ Cardinality(P) \in Nat
  <2>1. IsFiniteSet(1..n)
    BY IntervalIsFinite
  <2> QED
    BY <2>1, FS_Subset, FS_CardinalityType
<1>4. Cardinality({i \in 1..n : s[i] <= s[k]}) >= k
  <2> DEFINE B == {i \in 1..n : s[i] <= s[k]}
  <2>1. 1..k \subseteq B /\ B \in SUBSET (1..n)
    OBVIOUS
  <2> HIDE DEF B
  <2>2. Cardinality(1..k) \in Nat /\ Cardinality(1..k) <= Cardinality(B)
    BY <1>2, <1>3, <2>1
  <2> QED
    BY <1>1, <1>3, <2>1, <2>2 DEF B
<1>5. Cardinality({i \in 1..n : s[i] >= s[k]}) >= n - k + 1
  <2> DEFINE B == {i \in 1..n : s[i] >= s[k]}
  <2>1. k..n \subseteq B /\ B \in SUBSET (1..n)
    OBVIOUS
  <2> HIDE DEF B
  <2>2. Cardinality(k..n) \in Nat /\ Cardinality(k..n) <= Cardinality(B)
    BY <1>2, <1>3, <2>1
  <2> QED
    BY <1>1, <1>3, <2>1, <2>2 DEF B
<1>6. ASSUME NEW v \in Int, v < s[k] PROVE Cardinality({i \in 1..n : s[i] <= v}) <= k - 1
  <2> DEFINE A == {i \in 1..n : s[i] <= v}
  <2>1. A \subseteq 1..(k - 1)
    <3>1. ASSUME NEW i \in 1..n, s[i] <= v PROVE i < k
      <4> SUFFICES ASSUME k <= i PROVE FALSE
        OBVIOUS
      <4>1. s[k] <= s[i]
        OBVIOUS
      <4> QED
        BY <1>6, <3>1, <4>1
    <3> QED
      BY <3>1
  <2> HIDE DEF A
  <2>2. Cardinality(A) <= Cardinality(1..(k - 1))
    BY <1>1, <1>2, <2>1
  <2> QED
    BY <1>1, <2>2 DEF A
<1>7. ASSUME NEW v \in Int, v > s[k] PROVE Cardinality({i \in 1..n : s[i] >= v}) <= n - k
  <2> DEFINE A == {i \in 1..n : s[i] >= v}
  <2>1. A \subseteq (k + 1)..n
    <3>1. ASSUME NEW i \in 1..n, s[i] >= v PROVE i > k
      <4> SUFFICES ASSUME i <= k PROVE FALSE
        OBVIOUS
      <4>1. s[i] <= s[k]
        OBVIOUS
      <4> QED
        BY <1>7, <3>1, <4>1
    <3> QED
      BY <3>1
  <2> HIDE DEF A
  <2>2. Cardinality(A) <= Cardinality((k + 1)..n)
    BY <1>1, <1>2, <2>1
  <2> QED
    BY <1>1, <2>2 DEF A
<1> QED
  BY <1>4, <1>5, <1>6, <1>7

-----------------------------------------------------------------------------
(* The median by position and by counting *)

AtMost(f, n, v) == {i \in 1..n : f[i] <= v}
AtLeast(f, n, v) == {i \in 1..n : f[i] >= v}

\* The values that half of the members do not exceed, or reach, from the middle of
\* the ascending list.
LEMMA HalvesOfList ==
    ASSUME NEW n \in Nat, n # 0, NEW f, IsList(f, n), NEW k \in 1..n
    PROVE  /\ (2 * k >= n /\ 2 * (k - 1) < n) =>
                Min({v \in {f[i] : i \in 1..n} : 2 * Cardinality(AtMost(f, n, v)) >= n})
                   = ascending(f)[k]
           /\ (2 * (n - k + 1) >= n /\ 2 * (n - k) < n) =>
                Max({v \in {f[i] : i \in 1..n} : 2 * Cardinality(AtLeast(f, n, v)) >= n})
                   = ascending(f)[k]
<1> DEFINE s == ascending(f)
           V == {f[i] : i \in 1..n}
           low == {v \in V : 2 * Cardinality(AtMost(f, n, v)) >= n}
           high == {v \in V : 2 * Cardinality(AtLeast(f, n, v)) >= n}
<1>1. s \in [1..n -> Int] /\ (\A i, j \in 1..n : i < j => s[i] <= s[j]) /\ f \in [1..n -> Int]
  BY Ascends DEF IsList
<1>2. V = {s[i] : i \in 1..n}
  BY SameMembers
<1>3. ASSUME NEW v \in Int
      PROVE  /\ Cardinality(AtMost(f, n, v)) = Cardinality({i \in 1..n : s[i] <= v})
             /\ Cardinality(AtLeast(f, n, v)) = Cardinality({i \in 1..n : s[i] >= v})
             /\ Cardinality(AtMost(f, n, v)) \in Nat
             /\ Cardinality(AtLeast(f, n, v)) \in Nat
  <2> DEFINE below == {x \in Int : x <= v}
             above == {x \in Int : x >= v}
  <2>1. /\ Cardinality({i \in 1..n : f[i] \in below}) = Cardinality({i \in 1..n : s[i] \in below})
        /\ Cardinality({i \in 1..n : f[i] \in above}) = Cardinality({i \in 1..n : s[i] \in above})
    <3> HIDE DEF below, above, V, low, high
    <3>1. Cardinality({i \in 1..n : f[i] \in below}) = Cardinality({i \in 1..n : s[i] \in below})
      BY SameMembers
    <3>2. Cardinality({i \in 1..n : f[i] \in above}) = Cardinality({i \in 1..n : s[i] \in above})
      BY SameMembers
    <3> QED
      BY <3>1, <3>2
  <2>2. /\ {i \in 1..n : f[i] \in below} = AtMost(f, n, v)
        /\ {i \in 1..n : s[i] \in below} = {i \in 1..n : s[i] <= v}
    BY <1>1 DEF AtMost
  <2>3. /\ {i \in 1..n : f[i] \in above} = AtLeast(f, n, v)
        /\ {i \in 1..n : s[i] \in above} = {i \in 1..n : s[i] >= v}
    BY <1>1 DEF AtLeast
  <2>4. AtMost(f, n, v) \subseteq 1..n /\ AtLeast(f, n, v) \subseteq 1..n /\ IsFiniteSet(1..n)
    BY IntervalIsFinite DEF AtMost, AtLeast
  <2>5. Cardinality(AtMost(f, n, v)) \in Nat /\ Cardinality(AtLeast(f, n, v)) \in Nat
    BY <2>4, FS_Subset, FS_CardinalityType
  <2> HIDE DEF below, above
  <2> QED
    BY <2>1, <2>2, <2>3, <2>5
<1> HIDE DEF s
<1>4. /\ Cardinality({i \in 1..n : s[i] <= s[k]}) >= k
      /\ Cardinality({i \in 1..n : s[i] >= s[k]}) >= n - k + 1
      /\ \A v \in Int : v < s[k] => Cardinality({i \in 1..n : s[i] <= v}) <= k - 1
      /\ \A v \in Int : v > s[k] => Cardinality({i \in 1..n : s[i] >= v}) <= n - k
  BY <1>1, CountsAround
<1>5. s[k] \in V /\ s[k] \in Int /\ \A v \in V : v \in Int
  BY <1>1, <1>2
<1> HIDE DEF V
<1>6. ASSUME 2 * k >= n, 2 * (k - 1) < n PROVE Min(low) = s[k]
  <2>1. Cardinality(AtMost(f, n, s[k])) >= k /\ Cardinality(AtMost(f, n, s[k])) \in Nat
    BY <1>3, <1>4, <1>5
  <2>2. s[k] \in low
    BY <1>5, <1>6, <2>1
  <2>3. ASSUME NEW v \in low PROVE v \in Int /\ s[k] <= v
    <3>1. v \in Int /\ 2 * Cardinality(AtMost(f, n, v)) >= n
      BY <1>5
    <3>2. SUFFICES ASSUME v < s[k] PROVE FALSE
      BY <1>5, <3>1
    <3>3. Cardinality(AtMost(f, n, v)) \in Nat /\ Cardinality(AtMost(f, n, v)) <= k - 1
      BY <1>3, <1>4, <3>1, <3>2
    <3> QED
      BY <1>6, <3>1, <3>3
  <2> HIDE DEF low
  <2>4. Min(low) \in low /\ \A y \in low : Min(low) <= y
    BY <2>2, <2>3 DEF Min
  <2> QED
    BY <1>5, <2>2, <2>3, <2>4
<1>7. ASSUME 2 * (n - k + 1) >= n, 2 * (n - k) < n PROVE Max(high) = s[k]
  <2>1. Cardinality(AtLeast(f, n, s[k])) >= n - k + 1 /\ Cardinality(AtLeast(f, n, s[k])) \in Nat
    BY <1>3, <1>4, <1>5
  <2>2. s[k] \in high
    BY <1>5, <1>7, <2>1
  <2>3. ASSUME NEW v \in high PROVE v \in Int /\ s[k] >= v
    <3>1. v \in Int /\ 2 * Cardinality(AtLeast(f, n, v)) >= n
      BY <1>5
    <3>2. SUFFICES ASSUME v > s[k] PROVE FALSE
      BY <1>5, <3>1
    <3>3. Cardinality(AtLeast(f, n, v)) \in Nat /\ Cardinality(AtLeast(f, n, v)) <= n - k
      BY <1>3, <1>4, <3>1, <3>2
    <3> QED
      BY <1>7, <3>1, <3>3
  <2> HIDE DEF high
  <2>4. Max(high) \in high /\ \A y \in high : Max(high) >= y
    BY <2>2, <2>3 DEF Max
  <2> QED
    BY <1>5, <2>2, <2>3, <2>4
<1> QED
  BY <1>6, <1>7 DEF s, V

\* A list of n integers, as a sequence.
LEMMA ListIsSeq ==
    ASSUME NEW n \in Nat, NEW f, IsList(f, n)
    PROVE  f \in Seq(Int) /\ Len(f) = n /\ DOMAIN f = 1..n /\ \A i \in 1..n : f[i] \in Int
  BY DEF IsList

\* Both medians, from the middle of the ascending list.
LEMMA MediansOfList ==
    ASSUME NEW n \in Nat, n # 0, NEW f, IsList(f, n)
    PROVE  /\ median(f) \in Int /\ TwiceMedian(f) \in Int
           /\ n % 2 = 1 => TwiceMedian(f) = 2 * median(f)
           /\ n % 2 = 0 => median(f) = TwiceMedian(f) \div 2
           /\ \A c \in Int : (\A i \in 1..n : f[i] = c) => median(f) = c
<1> DEFINE s == ascending(f)
           m == n \div 2
           k == (n + 1) \div 2
<1>1. s \in [1..n -> Int]
  BY Ascends DEF IsList
<1>2. Len(f) = n /\ DOMAIN f = 1..n
  BY ListIsSeq
<1>3. TwiceMedian(f) = Min({v \in {f[i] : i \in 1..n} : 2 * Cardinality(AtMost(f, n, v)) >= n})
                     + Max({v \in {f[i] : i \in 1..n} : 2 * Cardinality(AtLeast(f, n, v)) >= n})
  BY <1>2 DEF TwiceMedian, AtMost, AtLeast
<1>4. median(f) = IF n % 2 = 0 THEN (s[m] + s[m + 1]) \div 2 ELSE s[m + 1]
  BY <1>2 DEF median
<1>5. /\ k \in 1..n /\ 2 * k >= n /\ 2 * (k - 1) < n
      /\ m + 1 \in 1..n /\ 2 * (n - (m + 1) + 1) >= n /\ 2 * (n - (m + 1)) < n
      /\ n % 2 = 0 => k = m
      /\ n % 2 # 0 => k = m + 1
      /\ n % 2 = 1 \/ n % 2 = 0
  OBVIOUS
<1> HIDE DEF s, m, k
<1>6. TwiceMedian(f) = s[k] + s[m + 1]
  <2>1. Min({v \in {f[i] : i \in 1..n} : 2 * Cardinality(AtMost(f, n, v)) >= n}) = s[k]
    BY <1>5, HalvesOfList DEF s
  <2>2. Max({v \in {f[i] : i \in 1..n} : 2 * Cardinality(AtLeast(f, n, v)) >= n}) = s[m + 1]
    BY <1>5, HalvesOfList DEF s
  <2> QED
    BY <1>3, <2>1, <2>2
<1>7. s[k] \in Int /\ s[m + 1] \in Int
  BY <1>1, <1>5
<1>8. ASSUME NEW c \in Int, \A i \in 1..n : f[i] = c PROVE s[k] = c /\ s[m + 1] = c
  <2>1. {f[i] : i \in 1..n} = {s[i] : i \in 1..n}
    BY SameMembers DEF s
  <2>2. s[k] \in {f[i] : i \in 1..n} /\ s[m + 1] \in {f[i] : i \in 1..n}
    BY <1>5, <2>1
  <2> QED
    BY <1>8, <2>2
<1>9. CASE n % 2 = 0
  BY <1>4, <1>5, <1>6, <1>7, <1>8, <1>9
<1>10. CASE n % 2 = 1
  BY <1>4, <1>5, <1>6, <1>7, <1>8, <1>10
<1> QED
  BY <1>5, <1>9, <1>10

\* The ratio of a list is over the threshold when its largest member is.
LEMMA OverIs ==
    ASSUME NEW n \in Nat, n # 0, NEW f, IsList(f, n)
    PROVE  Over(ratioToMedian(f)) <=> median(f) > 0 /\ 2 * ascending(f)[n] > 3 * median(f)
<1>1. Len(f) = n /\ {f[i] : i \in 1..n} = {f[i] : i \in 1..Len(f)}
  BY ListIsSeq
<1>2. Max({f[i] : i \in 1..Len(f)}) = ascending(f)[n]
  BY <1>1, MaxOfList DEF IsList
<1>3. median(f) \in Int
  BY MediansOfList
<1>4. ratioToMedian(f) = IF median(f) <= 0 THEN {} ELSE {<<ascending(f)[n], median(f)>>}
  BY <1>2 DEF ratioToMedian
<1>5. CASE median(f) <= 0
  BY <1>3, <1>4, <1>5 DEF Over
<1>6. CASE median(f) > 0
  <2>1. ratioToMedian(f) = {<<ascending(f)[n], median(f)>>}
    BY <1>3, <1>4, <1>6
  <2> QED
    BY <1>6, <2>1 DEF Over
<1> QED
  BY <1>3, <1>5, <1>6

\* computeSkew's judgement of one list against the definition by counting.
LEMMA JudgementOfList ==
    ASSUME NEW n \in Nat, n # 0, NEW f, IsList(f, n)
    PROVE  /\ n % 2 = 1 /\ TwiceMedian(f) > 0 => (Over(ratioToMedian(f)) <=> Outlier(f))
           /\ (Outlier(f) /\ TwiceMedian(f) >= 2) => Over(ratioToMedian(f))
           /\ Over(ratioToMedian(f)) => Uneven(f)
<1> DEFINE s == ascending(f)
<1>1. DOMAIN f = 1..n /\ Len(f) = n /\ \A i \in 1..n : f[i] \in Int
  BY ListIsSeq
<1>2. /\ median(f) \in Int /\ TwiceMedian(f) \in Int
      /\ n % 2 = 1 => TwiceMedian(f) = 2 * median(f)
      /\ n % 2 = 0 => median(f) = TwiceMedian(f) \div 2
      /\ \A c \in Int : (\A i \in 1..n : f[i] = c) => median(f) = c
      /\ n % 2 = 0 \/ n % 2 = 1
  BY MediansOfList
<1>3. s[n] \in Int /\ (\E i \in 1..n : f[i] = s[n]) /\ (\A i \in 1..n : f[i] <= s[n])
  <2>1. s \in [1..n -> Int] /\ \A i, j \in 1..n : i < j => s[i] <= s[j]
    BY Ascends DEF IsList
  <2>2. {f[i] : i \in 1..n} = {s[i] : i \in 1..n}
    BY SameMembers
  <2> HIDE DEF s
  <2>3. n \in 1..n /\ \A i \in 1..n : s[i] <= s[n]
    BY <2>1
  <2>4. s[n] \in {f[i] : i \in 1..n} /\ \A i \in 1..n : f[i] \in {s[j] : j \in 1..n}
    BY <2>2, <2>3
  <2> QED
    BY <2>1, <2>3, <2>4
<1>4. Over(ratioToMedian(f)) <=> median(f) > 0 /\ 2 * s[n] > 3 * median(f)
  BY OverIs
<1> HIDE DEF s
<1>5. Outlier(f) <=> 4 * s[n] > 3 * TwiceMedian(f)
  <2>1. ASSUME NEW i \in 1..n, 4 * f[i] > 3 * TwiceMedian(f) PROVE 4 * s[n] > 3 * TwiceMedian(f)
    BY <1>1, <1>2, <1>3, <2>1
  <2>2. ASSUME 4 * s[n] > 3 * TwiceMedian(f) PROVE \E i \in 1..n : 4 * f[i] > 3 * TwiceMedian(f)
    BY <1>3, <2>2
  <2> QED
    BY <1>1, <2>1, <2>2 DEF Outlier
<1>6. ASSUME ~Uneven(f) PROVE median(f) = s[n]
  <2>1. \A i \in 1..n : f[i] = s[n]
    BY <1>1, <1>3, <1>6 DEF Uneven
  <2> QED
    BY <1>2, <1>3, <2>1
<1>7. n % 2 = 1 /\ TwiceMedian(f) > 0 => (Over(ratioToMedian(f)) <=> Outlier(f))
  BY <1>2, <1>3, <1>4, <1>5
<1>8. (Outlier(f) /\ TwiceMedian(f) >= 2) => Over(ratioToMedian(f))
  <2> SUFFICES ASSUME 4 * s[n] > 3 * TwiceMedian(f), TwiceMedian(f) >= 2
               PROVE  median(f) > 0 /\ 2 * s[n] > 3 * median(f)
    BY <1>4, <1>5
  <2>1. CASE n % 2 = 1
    BY <1>2, <1>3, <2>1
  <2>2. CASE n % 2 = 0
    BY <1>2, <1>3, <2>2
  <2> QED
    BY <1>2, <2>1, <2>2
<1>9. Over(ratioToMedian(f)) => Uneven(f)
  BY <1>2, <1>3, <1>4, <1>6
<1> QED
  BY <1>7, <1>8, <1>9

-----------------------------------------------------------------------------
(* The skew of the measured lists *)

IsMembers(list, n) == /\ DOMAIN list = 1..n /\ Len(list) = n
                      /\ \A i \in 1..n : list[i].rows \in Int /\ list[i].bytes \in Int

\* A column of a list of members is a list.
LEMMA ColumnIsList ==
    ASSUME NEW n \in Nat, NEW list, IsMembers(list, n), NEW c \in {"rows", "bytes"}
    PROVE  IsList(Column(list, c), n)
  BY DEF IsMembers, IsList, Column

\* A list measured as skewed has two members at least, and some that differ.
LEMMA SkewedIsUneven ==
    ASSUME NEW n \in Nat, NEW list, IsMembers(list, n), measureSkew(list).skewed
    PROVE  n >= 2 /\ \E c \in {"rows", "bytes"} : Uneven(Column(list, c))
<1>1. Len(list) = n
  BY DEF IsMembers
<1>2. PICK c \in {"rows", "bytes"} :
         Over(IF Len(list) < 2 THEN {} ELSE ratioToMedian(Column(list, c)))
  BY DEF measureSkew
<1>3. n >= 2
  BY <1>1, <1>2 DEF Over
<1>4. Over(ratioToMedian(Column(list, c)))
  BY <1>1, <1>2, <1>3
<1>5. Uneven(Column(list, c))
  BY <1>3, <1>4, ColumnIsList, JudgementOfList
<1> QED
  BY <1>3, <1>5

\* SetToSeq lists the members of a finite set.
LEMMA SetToSeqIs ==
    ASSUME NEW S, IsFiniteSet(S)
    PROVE  SetToSeq(S) \in [1..Cardinality(S) -> S]
<1> DEFINE n == Cardinality(S)
           Good(f) == f \in [1..n -> S] /\ IsInjective(f)
<1>1. ExistsBijection(1..n, S)
  BY FS_CardinalityType
<1>2. \E f \in [1..n -> S] : IsInjective(f)
  BY <1>1 DEF ExistsBijection, Bijection, Injection
<1>3. SetToSeq(S) = CHOOSE f \in [1..n -> S] : IsInjective(f)
  BY DEF SetToSeq
<1> HIDE DEF n
<1>4. SetToSeq(S) \in [1..n -> S]
  BY <1>2, <1>3
<1> QED
  BY <1>4 DEF n

\* The backends' loads, each one in the list.
LEMMA BackendLoadsAre ==
    ASSUME NEW levels, IsFiniteSet(DOMAIN levels.loads), \A b \in DOMAIN levels.loads : b \in Int,
           \A b \in DOMAIN levels.loads :
              levels.loads[b].rows \in Int /\ levels.loads[b].bytes \in Int
    PROVE  IsMembers(BackendLoads(levels), Cardinality(DOMAIN levels.loads))
<1> DEFINE D == DOMAIN levels.loads
           n == Cardinality(D)
           ids == SetToSeq(D)
           order == ascending(ids)
<1>1. n \in Nat
  BY FS_CardinalityType
<1>2. ids \in [1..n -> D]
  BY SetToSeqIs
<1>3. IsList(ids, n)
  <2> HIDE DEF ids, n
  <2> QED
    BY <1>2 DEF IsList
<1>4. order \in [1..n -> Int]
  <2> HIDE DEF ids, n
  <2> QED
    BY <1>1, <1>3, Ascends DEF IsList
<1>5. {ids[i] : i \in 1..n} = {order[i] : i \in 1..n}
  <2> HIDE DEF ids, n
  <2> QED
    BY <1>1, <1>3, SameMembers
<1>6. BackendLoads(levels) = [i \in DOMAIN order |-> levels.loads[order[i]]]
  BY DEF BackendLoads
<1> HIDE DEF order, ids, n
<1>7. \A i \in 1..n : order[i] \in D
  <2>1. \A i \in 1..n : order[i] \in {ids[j] : j \in 1..n}
    BY <1>5
  <2> QED
    BY <1>2, <2>1
<1>8. BackendLoads(levels) \in [1..n -> {levels.loads[b] : b \in D}]
  BY <1>4, <1>6, <1>7
<1>9. DOMAIN BackendLoads(levels) = 1..n /\ Len(BackendLoads(levels)) = n
  BY <1>1, <1>8
<1>10. \A i \in 1..n : BackendLoads(levels)[i] = levels.loads[order[i]]
  BY <1>4, <1>6
<1>11. IsMembers(BackendLoads(levels), n)
  BY <1>7, <1>9, <1>10 DEF IsMembers
<1> QED
  BY <1>11 DEF n

\* computeSkew is sound on every table.
LEMMA SkewIsSound ==
    ASSUME NEW levels, NEW m \in Nat, IsMembers(levels.tablets, m),
           IsFiniteSet(DOMAIN levels.loads), \A b \in DOMAIN levels.loads : b \in Int,
           \A b \in DOMAIN levels.loads :
              levels.loads[b].rows \in Int /\ levels.loads[b].bytes \in Int
    PROVE  SoundSkew(levels)
<1> DEFINE n == Cardinality(DOMAIN levels.loads)
           backends == BackendLoads(levels)
           lists == {Column(list, c) : list \in {levels.tablets, backends}, c \in {"rows", "bytes"}}
<1>1. n \in Nat /\ IsMembers(backends, n)
  BY FS_CardinalityType, BackendLoadsAre
<1> HIDE DEF n, backends
<1>2. ASSUME NEW v \in lists PROVE \E k \in Nat : IsList(v, k)
  <2>1. PICK list \in {levels.tablets, backends}, c \in {"rows", "bytes"} : v = Column(list, c)
    OBVIOUS
  <2>2. \E k \in Nat : IsMembers(list, k)
    BY <1>1
  <2> QED
    BY <2>1, <2>2, ColumnIsList
<1>3. ASSUME NEW v \in lists, Len(v) >= 2, TwiceMedian(v) > 0
      PROVE  /\ Len(v) % 2 = 1 => (Over(ratioToMedian(v)) <=> Outlier(v))
             /\ (Outlier(v) /\ TwiceMedian(v) >= 2) => Over(ratioToMedian(v))
  <2>1. PICK k \in Nat : IsList(v, k)
    BY <1>2
  <2>2. Len(v) = k /\ k # 0
    BY <1>3, <2>1, ListIsSeq
  <2> QED
    BY <1>3, <2>1, <2>2, JudgementOfList
<1>4. ASSUME Skewed(levels) PROVE \E v \in lists : Uneven(v)
  <2>1. measureSkew(levels.tablets).skewed \/ measureSkew(backends).skewed
    BY <1>4 DEF Skewed, computeSkew, backends
  <2>2. \E list \in {levels.tablets, backends} : \E c \in {"rows", "bytes"} : Uneven(Column(list, c))
    BY <1>1, <2>1, SkewedIsUneven
  <2> QED
    BY <2>2
<1>5. ASSUME n < 2 PROVE ~computeSkew(levels).acrossBackends.skewed
  <2>1. ~measureSkew(backends).skewed
    BY <1>1, <1>5, SkewedIsUneven
  <2> QED
    BY <2>1 DEF computeSkew, backends
<1> HIDE DEF lists
<1> QED
  BY <1>3, <1>4, <1>5 DEF SoundSkew, lists, backends, n

-----------------------------------------------------------------------------
(* TabletLoads: the loads of the backends *)

\* g is f with d more at b, which may be a new key.
Grows(f, g, b, d) ==
    /\ IsFiniteSet(DOMAIN f) /\ d \in Int /\ \A y \in DOMAIN f : f[y] \in Int
    /\ DOMAIN g = DOMAIN f \cup {b} /\ \A y \in DOMAIN f : y # b => g[y] = f[y]
    /\ b \in DOMAIN f => g[b] = f[b] + d
    /\ b \notin DOMAIN f => g[b] = d

\* The sum of a function that grew by d.
LEMMA SumGrows ==
    ASSUME NEW f, NEW g, NEW b, NEW d, Grows(f, g, b, d)
    PROVE  SumFunction(f) \in Int /\ SumFunction(g) = SumFunction(f) + d
<1> DEFINE D == DOMAIN f
           R == D \ {b}
<1> USE DEF Grows
<1>1. IsFiniteSet(D) /\ IsFiniteSet(R) /\ IsFiniteSet(D \cup {b})
  BY FS_Subset, FS_AddElement
<1>2. \A y \in D \cup {b} : g[y] \in Int
  OBVIOUS
<1>3. SumFunctionOnSet(g, D \cup {b}) = g[b] + SumFunctionOnSet(g, (D \cup {b}) \ {b})
  <2>1. b \in D \cup {b}
    OBVIOUS
  <2> HIDE DEF D
  <2> QED
    BY <1>1, <1>2, <2>1, SumRemove
<1>4. (D \cup {b}) \ {b} = R
  OBVIOUS
<1>5. SumFunctionOnSet(f, R) = SumFunctionOnSet(g, R)
  <2>1. \A y \in R : f[y] \in Int /\ f[y] = g[y]
    OBVIOUS
  <2> HIDE DEF R
  <2>2. R \in SUBSET R /\ \A y \in R : f[y] = IF y \in R THEN g[y] ELSE 0
    BY <2>1
  <2> QED
    BY <1>1, <2>1, <2>2, SumOnSupport
<1>6. SumFunctionOnSet(f, R) \in Int /\ SumFunctionOnSet(f, D) \in Int
  <2>1. \A y \in R : f[y] \in Int
    OBVIOUS
  <2> HIDE DEF R
  <2> QED
    BY <1>1, <2>1, SumType
<1>7. b \in D => SumFunctionOnSet(f, D) = f[b] + SumFunctionOnSet(f, R)
  BY <1>1, SumRemove
<1>8. b \notin D => R = D
  OBVIOUS
<1>9. SumFunctionOnSet(g, D \cup {b}) = SumFunctionOnSet(f, D) + d
  <2> HIDE DEF R, D
  <2>1. b \in D => f[b] \in Int
    BY DEF D
  <2>2. (b \in D => g[b] = f[b] + d) /\ (b \notin D => g[b] = d)
    BY DEF D
  <2>3. SumFunctionOnSet(g, D \cup {b}) = g[b] + SumFunctionOnSet(f, R)
    BY <1>3, <1>4, <1>5
  <2>4. CASE b \in D
    BY <1>6, <1>7, <2>1, <2>2, <2>3, <2>4
  <2>5. CASE b \notin D
    BY <1>6, <1>8, <2>2, <2>3, <2>5
  <2> QED
    BY <2>4, <2>5
<1> QED
  BY <1>6, <1>9 DEF SumFunction

\* An empty sum.
LEMMA SumOfNothing == ASSUME NEW f, DOMAIN f = {} PROVE SumFunction(f) = 0
<1>1. IsFiniteSet({})
  BY FS_EmptySet
<1> QED
  BY <1>1, SumSome DEF SumFunction

-----------------------------------------------------------------------------
IsRow(row) == /\ row.be \in Int /\ row.ok \in BOOLEAN
              /\ \A c \in {"rows", "bytes", "rowsets"} : OrZero(row[c]) \in Nat

IsRows(rows, n) == /\ n \in Nat /\ DOMAIN rows = 1..n /\ Len(rows) = n
                   /\ \A i \in 1..n : IsRow(rows[i])

\* There is a row after the first k.
HasNext(rows, n, k) == IsRows(rows, n) /\ k \in 0..(n - 1)

Mine(rows, b, k) == {i \in 1..k : rows[i].be = b}

Of(rows, b, k, c) == SumFunction([i \in Mine(rows, b, k) |-> OrZero(rows[i][c])])

\* The load of backend b after k rows.
LoadAfter(rows, b, k) == [tabletNum |-> Cardinality(Mine(rows, b, k)),
                         rows |-> Of(rows, b, k, "rows"),
                         bytes |-> Of(rows, b, k, "bytes"),
                         rowsetNum |-> Of(rows, b, k, "rowsets")]

\* A backend's tablets after one more row.
LEMMA MineGrows ==
    ASSUME NEW n, NEW rows, NEW k, HasNext(rows, n, k), NEW b
    PROVE  /\ IsFiniteSet(Mine(rows, b, k)) /\ k + 1 \notin Mine(rows, b, k)
           /\ Cardinality(Mine(rows, b, k)) \in Nat
           /\ rows[k + 1].be = b => Mine(rows, b, k + 1) = Mine(rows, b, k) \cup {k + 1}
           /\ rows[k + 1].be # b => Mine(rows, b, k + 1) = Mine(rows, b, k)
<1>1. n \in Nat /\ k \in Nat
  BY DEF IsRows, HasNext
<1>2. IsFiniteSet(1..k)
  BY <1>1, IntervalIsFinite
<1>3. Mine(rows, b, k) \subseteq 1..k /\ k + 1 \notin 1..k
  BY <1>1 DEF Mine
<1>4. IsFiniteSet(Mine(rows, b, k)) /\ Cardinality(Mine(rows, b, k)) \in Nat
  BY <1>2, <1>3, FS_Subset, FS_CardinalityType
<1>5. 1..(k + 1) = (1..k) \cup {k + 1}
  BY <1>1
<1>6. /\ rows[k + 1].be = b => Mine(rows, b, k + 1) = Mine(rows, b, k) \cup {k + 1}
      /\ rows[k + 1].be # b => Mine(rows, b, k + 1) = Mine(rows, b, k)
  BY <1>5 DEF Mine
<1> QED
  BY <1>3, <1>4, <1>6

\* A backend's sum of a column after one more row.
LEMMA OfGrows ==
    ASSUME NEW n, NEW rows, NEW k, HasNext(rows, n, k), NEW b,
           NEW c \in {"rows", "bytes", "rowsets"}
    PROVE  /\ Of(rows, b, k, c) \in Int
           /\ Of(rows, b, k + 1, c)
                = IF rows[k + 1].be = b THEN Of(rows, b, k, c) + OrZero(rows[k + 1][c])
                  ELSE Of(rows, b, k, c)
<1> DEFINE M == Mine(rows, b, k)
           f == [i \in M |-> OrZero(rows[i][c])]
           g == [i \in M \cup {k + 1} |-> OrZero(rows[i][c])]
           d == OrZero(rows[k + 1][c])
<1>1. n \in Nat /\ k \in Nat /\ k + 1 \in 1..n
  BY DEF IsRows, HasNext
<1>2. \A i \in 1..n : OrZero(rows[i][c]) \in Nat
  BY DEF IsRows, IsRow, HasNext
<1>3. M \subseteq 1..n
  BY <1>1 DEF Mine
<1>4. IsFiniteSet(M) /\ k + 1 \notin M
  BY MineGrows
<1> HIDE DEF M
<1>5. /\ DOMAIN f = M /\ DOMAIN g = M \cup {k + 1} /\ d \in Int
      /\ \A y \in M : f[y] \in Int /\ g[y] = f[y]
      /\ g[k + 1] = d
  <2>1. d \in Int
    BY <1>1, <1>2
  <2>2. g[k + 1] = d
    OBVIOUS
  <2>3. \A y \in M : f[y] \in Int /\ g[y] = f[y]
    BY <1>2, <1>3
  <2> QED
    BY <2>1, <2>2, <2>3
<1>6. SumFunction(f) \in Int /\ SumFunction(g) = SumFunction(f) + d
  <2> DEFINE x == k + 1
  <2> HIDE DEF f, g, d
  <2>1. x \notin DOMAIN f /\ g[x] = d
    BY <1>4, <1>5
  <2>2. DOMAIN g = DOMAIN f \cup {x} /\ d \in Int /\ IsFiniteSet(DOMAIN f)
    BY <1>4, <1>5
  <2>3. \A y \in DOMAIN f : f[y] \in Int
    BY <1>5
  <2>4. \A y \in DOMAIN f : y # x => g[y] = f[y]
    BY <1>5
  <2> HIDE DEF x
  <2> QED
    <3>1. Grows(f, g, x, d)
      BY <2>1, <2>2, <2>3, <2>4 DEF Grows
    <3> QED
      BY <3>1, SumGrows
<1>7. Of(rows, b, k, c) = SumFunction(f)
  BY DEF Of, M
<1>8. Of(rows, b, k + 1, c) = IF rows[k + 1].be = b THEN SumFunction(g) ELSE SumFunction(f)
  <2>1. /\ rows[k + 1].be = b => Mine(rows, b, k + 1) = M \cup {k + 1}
        /\ rows[k + 1].be # b => Mine(rows, b, k + 1) = M
    BY MineGrows DEF M
  <2>2. CASE rows[k + 1].be = b
    BY <2>1, <2>2 DEF Of
  <2>3. CASE rows[k + 1].be # b
    BY <2>1, <2>3 DEF Of
  <2> QED
    BY <2>2, <2>3
<1> QED
  BY <1>6, <1>7, <1>8

\* The loads after k rows.
LoadsAre(loads, rows, k) == /\ DOMAIN loads = {rows[i].be : i \in 1..k}
                            /\ \A b \in DOMAIN loads : loads[b] = LoadAfter(rows, b, k)

\* The loads after one more row.
Grown(loads, new, rows, k) ==
    LET row == rows[k + 1]
    IN /\ DOMAIN new = DOMAIN loads \cup {row.be}
       /\ LoadsAre(new, rows, k + 1)
       /\ \A b \in DOMAIN loads : b # row.be => new[b] = loads[b]
       /\ new[row.be] = AddTo(LoadOf(loads, row.be), row)

\* The loads after one more row (AddLoad).
LEMMA LoadsGrow ==
    ASSUME NEW n, NEW rows, NEW k, HasNext(rows, n, k), NEW loads,
           LoadsAre(loads, rows, k)
    PROVE  Grown(loads, AddLoad(loads, rows[k + 1]), rows, k)
<1> DEFINE row == rows[k + 1]
           new == AddLoad(loads, row)
<1>1. n \in Nat /\ k \in Nat /\ 1..(k + 1) = (1..k) \cup {k + 1}
  BY DEF IsRows, HasNext
<1>2. new = [b \in DOMAIN loads \cup {row.be} |->
               IF b = row.be THEN AddTo(LoadOf(loads, b), row) ELSE loads[b]]
  BY DEF AddLoad
<1>3. DOMAIN new = DOMAIN loads \cup {row.be}
  BY <1>2
<1>4. DOMAIN new = {rows[i].be : i \in 1..(k + 1)}
  <2> HIDE DEF new
  <2>1. {rows[i].be : i \in (1..k) \cup {k + 1}} = {rows[i].be : i \in 1..k} \cup {rows[k + 1].be}
    OBVIOUS
  <2> QED
    BY <1>1, <1>3, <2>1 DEF LoadsAre
<1>5. LoadOf(loads, row.be) = LoadAfter(rows, row.be, k)
  <2>1. CASE row.be \in DOMAIN loads
    BY <2>1 DEF LoadOf, LoadsAre
  <2>2. CASE row.be \notin DOMAIN loads
    <3>1. Mine(rows, row.be, k) = {}
      BY <2>2 DEF Mine, LoadsAre
    <3>2. Cardinality({}) = 0
      BY FS_EmptySet
    <3>3. \A c \in {"rows", "bytes", "rowsets"} : Of(rows, row.be, k, c) = 0
      BY <3>1, SumOfNothing DEF Of
    <3> QED
      BY <2>2, <3>1, <3>2, <3>3 DEF LoadOf, LoadAfter, NoLoad
  <2> QED
    BY <2>1, <2>2
<1>6. AddTo(LoadAfter(rows, row.be, k), row) = LoadAfter(rows, row.be, k + 1)
  <2> DEFINE b == row.be
  <2>1. Cardinality(Mine(rows, b, k + 1)) = Cardinality(Mine(rows, b, k)) + 1
    <3>1. /\ IsFiniteSet(Mine(rows, b, k)) /\ k + 1 \notin Mine(rows, b, k)
          /\ Mine(rows, b, k + 1) = Mine(rows, b, k) \cup {k + 1}
      <4> HIDE DEF new
      <4>1. rows[k + 1].be = b
        OBVIOUS
      <4> QED
        BY <4>1, MineGrows
    <3> QED
      BY <3>1, FS_AddElement
  <2>2. \A c \in {"rows", "bytes", "rowsets"} :
           Of(rows, b, k + 1, c) = Of(rows, b, k, c) + OrZero(row[c])
    BY OfGrows
  <2> QED
    BY <2>1, <2>2 DEF AddTo, LoadAfter
<1>7. new[row.be] = AddTo(LoadOf(loads, row.be), row)
  BY <1>2
<1>8. ASSUME NEW b \in DOMAIN loads, b # row.be
      PROVE  new[b] = loads[b] /\ loads[b] = LoadAfter(rows, b, k + 1)
  <2>1. Mine(rows, b, k + 1) = Mine(rows, b, k)
    <3>1. rows[k + 1].be # b
      BY <1>8
    <3> QED
      BY <3>1, MineGrows
  <2> QED
    BY <1>2, <1>8, <2>1 DEF LoadAfter, Of, LoadsAre
<1> HIDE DEF new, row
<1>9. \A b \in DOMAIN new : new[b] = LoadAfter(rows, b, k + 1)
  BY <1>3, <1>5, <1>6, <1>7, <1>8
<1> QED
  BY <1>3, <1>4, <1>7, <1>8, <1>9 DEF new, row, LoadsAre, Grown

-----------------------------------------------------------------------------
(* One iteration of applyTabletLoads *)

\* The levels after k rows: what LevelsOf says, of a prefix.
LevelsAre(l, rows, k) ==
    /\ DOMAIN l = {"tabletTotal", "rowsetTotal", "maxRowsets", "abnormal", "loads", "tablets"}
    /\ LoadsAre(l.loads, rows, k) /\ IsFiniteSet(DOMAIN l.loads)
    /\ \A b \in DOMAIN l.loads : /\ l.loads[b].tabletNum \in Int /\ l.loads[b].rows \in Int
                                 /\ l.loads[b].bytes \in Int /\ l.loads[b].rowsetNum \in Int
    /\ SumFunction([b \in DOMAIN l.loads |-> l.loads[b].tabletNum]) = k
    /\ SumFunction([b \in DOMAIN l.loads |-> l.loads[b].rows])
          = SumFunction([i \in 1..k |-> OrZero(rows[i].rows)])
    /\ SumFunction([b \in DOMAIN l.loads |-> l.loads[b].rowsetNum]) = l.rowsetTotal
    /\ l.abnormal = Cardinality({i \in 1..k : ~rows[i].ok})
    /\ l.tablets = [i \in 1..k |-> [rows |-> OrZero(rows[i].rows), bytes |-> OrZero(rows[i].bytes)]]

\* The levels before the first row.
LEMMA LevelsAtFirst ==
    ASSUME NEW rows
    PROVE  LevelsAre(NoLevels, rows, 0)
<1>1. IsFiniteSet({}) /\ Cardinality({}) = 0
  BY FS_EmptySet
<1>2. 1..0 = {}
  OBVIOUS
<1>3. /\ NoLevels.loads = [b \in {} |-> NoLoad] /\ NoLevels.abnormal = 0 /\ NoLevels.rowsetTotal = 0
      /\ NoLevels.tablets = << >>
      /\ DOMAIN NoLevels = {"tabletTotal", "rowsetTotal", "maxRowsets", "abnormal", "loads", "tablets"}
  BY DEF NoLevels
<1>4. DOMAIN NoLevels.loads = {}
  BY <1>3
<1>5. LoadsAre(NoLevels.loads, rows, 0)
  BY <1>2, <1>4 DEF LoadsAre
<1>6. \A c : SumFunction([b \in DOMAIN NoLevels.loads |-> NoLevels.loads[b][c]]) = 0
  BY <1>4, SumOfNothing
<1>7. SumFunction([i \in 1..0 |-> OrZero(rows[i].rows)]) = 0
  BY <1>2, SumOfNothing
<1>8. Cardinality({i \in 1..0 : ~rows[i].ok}) = 0
  BY <1>1, <1>2
<1>9. << >> = [i \in 1..0 |-> [rows |-> OrZero(rows[i].rows), bytes |-> OrZero(rows[i].bytes)]]
  OBVIOUS
<1> HIDE DEF NoLevels
<1> QED
  BY <1>1, <1>3, <1>4, <1>5, <1>6, <1>7, <1>8, <1>9 DEF LevelsAre

\* The levels after one more row (applyTablet).
LEMMA LevelsGrow ==
    ASSUME NEW n, NEW rows, NEW k, HasNext(rows, n, k), NEW l, LevelsAre(l, rows, k)
    PROVE  LevelsAre(applyTablet(l, rows[k + 1]), rows, k + 1)
<1> DEFINE row == rows[k + 1]
           next == applyTablet(l, row)
           old == l.loads
           new == AddLoad(old, row)
           e == row.be
<1>1. /\ n \in Nat /\ k \in Nat /\ k + 1 \in 1..n /\ 1..(k + 1) = (1..k) \cup {k + 1}
      /\ k + 1 \notin 1..k /\ IsRow(row)
  BY DEF HasNext, IsRows
<1>2. /\ DOMAIN l = {"tabletTotal", "rowsetTotal", "maxRowsets", "abnormal", "loads", "tablets"}
      /\ LoadsAre(old, rows, k) /\ IsFiniteSet(DOMAIN old)
      /\ l.abnormal = Cardinality({i \in 1..k : ~rows[i].ok})
      /\ l.tablets = [i \in 1..k |-> [rows |-> OrZero(rows[i].rows), bytes |-> OrZero(rows[i].bytes)]]
  BY DEF LevelsAre
<1>3. /\ next.loads = new
      /\ next.rowsetTotal = l.rowsetTotal + OrZero(row.rowsets)
      /\ next.abnormal = IF row.ok THEN l.abnormal ELSE l.abnormal + 1
      /\ next.tablets = Append(l.tablets, [rows |-> OrZero(row.rows), bytes |-> OrZero(row.bytes)])
      /\ DOMAIN next = DOMAIN l
  <2> HIDE DEF row, new
  <2> QED
    BY <1>2 DEF applyTablet, new
<1>4. /\ DOMAIN new = DOMAIN old \cup {e}
      /\ LoadsAre(new, rows, k + 1)
      /\ \A b \in DOMAIN old : b # e => new[b] = old[b]
      /\ new[e] = AddTo(LoadOf(old, e), row)
  <2>1. Grown(old, new, rows, k)
    BY <1>2, LoadsGrow
  <2> QED
    BY <2>1 DEF Grown
<1>5. /\ OrZero(row.rows) \in Int /\ OrZero(row.bytes) \in Int /\ OrZero(row.rowsets) \in Int
  BY <1>1 DEF IsRow
<1>6. /\ \A b \in DOMAIN old : /\ old[b].tabletNum \in Int /\ old[b].rows \in Int
                               /\ old[b].bytes \in Int /\ old[b].rowsetNum \in Int
      /\ SumFunction([b \in DOMAIN old |-> old[b].tabletNum]) = k
      /\ SumFunction([b \in DOMAIN old |-> old[b].rows])
            = SumFunction([i \in 1..k |-> OrZero(rows[i].rows)])
      /\ SumFunction([b \in DOMAIN old |-> old[b].rowsetNum]) = l.rowsetTotal
  BY DEF LevelsAre
<1> HIDE DEF next, old, new, row, e
<1>7. /\ e \in DOMAIN old => /\ new[e].tabletNum = old[e].tabletNum + 1
                             /\ new[e].rows = old[e].rows + OrZero(row.rows)
                             /\ new[e].bytes = old[e].bytes + OrZero(row.bytes)
                             /\ new[e].rowsetNum = old[e].rowsetNum + OrZero(row.rowsets)
      /\ e \notin DOMAIN old => /\ new[e].tabletNum = 1
                                /\ new[e].rows = OrZero(row.rows)
                                /\ new[e].bytes = OrZero(row.bytes)
                                /\ new[e].rowsetNum = OrZero(row.rowsets)
  BY <1>4, <1>5 DEF AddTo, LoadOf, NoLoad
<1>8. \A b \in DOMAIN new : /\ new[b].tabletNum \in Int /\ new[b].rows \in Int
                            /\ new[b].bytes \in Int /\ new[b].rowsetNum \in Int
  BY <1>4, <1>5, <1>6, <1>7
<1>9. IsFiniteSet(DOMAIN new)
  BY <1>2, <1>4, FS_AddElement
<1>10. SumFunction([b \in DOMAIN new |-> new[b].tabletNum])
          = SumFunction([b \in DOMAIN old |-> old[b].tabletNum]) + 1
  <2> DEFINE f == [b \in DOMAIN old |-> old[b].tabletNum]
             g == [b \in DOMAIN new |-> new[b].tabletNum]
             d == 1
  <2>1. DOMAIN f = DOMAIN old /\ DOMAIN g = DOMAIN f \cup {e} /\ IsFiniteSet(DOMAIN f) /\ d \in Int
    BY <1>2, <1>4, <1>5
  <2>2. \A y \in DOMAIN f : f[y] \in Int
    BY <1>6
  <2>3. \A y \in DOMAIN f : y # e => g[y] = f[y]
    BY <1>4
  <2>4. (e \in DOMAIN f => g[e] = f[e] + d) /\ (e \notin DOMAIN f => g[e] = d)
    BY <1>4, <1>7
  <2> HIDE DEF f, g, d
  <2>5. SumFunction(g) = SumFunction(f) + d
    <3>1. Grows(f, g, e, d)
      BY <2>1, <2>2, <2>3, <2>4 DEF Grows
    <3> QED
      BY <3>1, SumGrows
  <2> QED
    BY <2>5 DEF f, g, d
<1>11. SumFunction([b \in DOMAIN new |-> new[b].rows])
          = SumFunction([b \in DOMAIN old |-> old[b].rows]) + OrZero(row.rows)
  <2> DEFINE f == [b \in DOMAIN old |-> old[b].rows]
             g == [b \in DOMAIN new |-> new[b].rows]
             d == OrZero(row.rows)
  <2>1. DOMAIN f = DOMAIN old /\ DOMAIN g = DOMAIN f \cup {e} /\ IsFiniteSet(DOMAIN f) /\ d \in Int
    BY <1>2, <1>4, <1>5
  <2>2. \A y \in DOMAIN f : f[y] \in Int
    BY <1>6
  <2>3. \A y \in DOMAIN f : y # e => g[y] = f[y]
    BY <1>4
  <2>4. (e \in DOMAIN f => g[e] = f[e] + d) /\ (e \notin DOMAIN f => g[e] = d)
    BY <1>4, <1>7
  <2> HIDE DEF f, g, d
  <2>5. SumFunction(g) = SumFunction(f) + d
    <3>1. Grows(f, g, e, d)
      BY <2>1, <2>2, <2>3, <2>4 DEF Grows
    <3> QED
      BY <3>1, SumGrows
  <2> QED
    BY <2>5 DEF f, g, d
<1>12. SumFunction([b \in DOMAIN new |-> new[b].rowsetNum])
          = SumFunction([b \in DOMAIN old |-> old[b].rowsetNum]) + OrZero(row.rowsets)
  <2> DEFINE f == [b \in DOMAIN old |-> old[b].rowsetNum]
             g == [b \in DOMAIN new |-> new[b].rowsetNum]
             d == OrZero(row.rowsets)
  <2>1. DOMAIN f = DOMAIN old /\ DOMAIN g = DOMAIN f \cup {e} /\ IsFiniteSet(DOMAIN f) /\ d \in Int
    BY <1>2, <1>4, <1>5
  <2>2. \A y \in DOMAIN f : f[y] \in Int
    BY <1>6
  <2>3. \A y \in DOMAIN f : y # e => g[y] = f[y]
    BY <1>4
  <2>4. (e \in DOMAIN f => g[e] = f[e] + d) /\ (e \notin DOMAIN f => g[e] = d)
    BY <1>4, <1>7
  <2> HIDE DEF f, g, d
  <2>5. SumFunction(g) = SumFunction(f) + d
    <3>1. Grows(f, g, e, d)
      BY <2>1, <2>2, <2>3, <2>4 DEF Grows
    <3> QED
      BY <3>1, SumGrows
  <2> QED
    BY <2>5 DEF f, g, d
<1>13. SumFunction([i \in 1..(k + 1) |-> OrZero(rows[i].rows)])
          = SumFunction([i \in 1..k |-> OrZero(rows[i].rows)]) + OrZero(row.rows)
  <2> DEFINE f == [i \in 1..k |-> OrZero(rows[i].rows)]
             g == [i \in 1..(k + 1) |-> OrZero(rows[i].rows)]
             x == k + 1
             d == OrZero(row.rows)
  <2>1. DOMAIN f = 1..k /\ DOMAIN g = DOMAIN f \cup {x} /\ IsFiniteSet(DOMAIN f) /\ d \in Int
    BY <1>1, <1>5, IntervalIsFinite
  <2>2. \A y \in DOMAIN f : f[y] \in Int
    <3>1. \A i \in 1..n : OrZero(rows[i].rows) \in Nat
      BY DEF HasNext, IsRows, IsRow
    <3> QED
      BY <1>1, <3>1
  <2>3. \A y \in DOMAIN f : y # x => g[y] = f[y]
    BY <1>1
  <2>4. x \notin DOMAIN f /\ g[x] = d
    BY <1>1 DEF row
  <2> HIDE DEF f, g, x, d
  <2>6. SumFunction(g) = SumFunction(f) + d
    <3>1. Grows(f, g, x, d)
      BY <2>1, <2>2, <2>3, <2>4 DEF Grows
    <3> QED
      BY <3>1, SumGrows
  <2> QED
    BY <2>6 DEF f, g, d
<1>14. next.abnormal = Cardinality({i \in 1..(k + 1) : ~rows[i].ok})
  <2> DEFINE B == {i \in 1..k : ~rows[i].ok}
  <2>1. IsFiniteSet(B) /\ k + 1 \notin B /\ Cardinality(B) \in Nat
    <3>1. IsFiniteSet(1..k) /\ B \subseteq 1..k
      BY <1>1, IntervalIsFinite
    <3> QED
      BY <1>1, <3>1, FS_Subset, FS_CardinalityType
  <2>2. CASE row.ok
    <3>1. {i \in 1..(k + 1) : ~rows[i].ok} = B
      BY <1>1, <2>2 DEF row
    <3> QED
      BY <1>2, <1>3, <2>2, <3>1
  <2>3. CASE ~row.ok
    <3>1. {i \in 1..(k + 1) : ~rows[i].ok} = B \cup {k + 1}
      BY <1>1, <2>3 DEF row
    <3>2. Cardinality(B \cup {k + 1}) = Cardinality(B) + 1
      BY <2>1, FS_AddElement
    <3> QED
      BY <1>2, <1>3, <2>3, <3>1, <3>2
  <2> QED
    BY <2>2, <2>3
<1>15. next.tablets = [i \in 1..(k + 1) |-> [rows |-> OrZero(rows[i].rows),
                                            bytes |-> OrZero(rows[i].bytes)]]
  <2> DEFINE t(i) == [rows |-> OrZero(rows[i].rows), bytes |-> OrZero(rows[i].bytes)]
             T == {t(i) : i \in 1..(k + 1)}
  <2>1. l.tablets = [i \in 1..k |-> t(i)] /\ next.tablets = Append(l.tablets, t(k + 1))
    BY <1>2, <1>3 DEF row
  <2>2. (\A i \in 1..k : t(i) \in T) /\ t(k + 1) \in T
    BY <1>1
  <2> HIDE DEF t, T
  <2>3. l.tablets \in Seq(T) /\ Len(l.tablets) = k
    BY <1>1, <2>1, <2>2
  <2>4. /\ next.tablets \in Seq(T) /\ Len(next.tablets) = k + 1
        /\ \A i \in 1..k : next.tablets[i] = l.tablets[i]
        /\ next.tablets[k + 1] = t(k + 1)
    BY <1>1, <2>1, <2>2, <2>3
  <2>5. next.tablets = [i \in 1..(k + 1) |-> t(i)]
    BY <1>1, <2>1, <2>4
  <2> QED
    BY <2>5 DEF t
<1> QED
  BY <1>2, <1>3, <1>4, <1>6, <1>8, <1>9, <1>10, <1>11, <1>12, <1>13, <1>14, <1>15
     DEF LevelsAre, next, row

-----------------------------------------------------------------------------
(* applyTabletLoads *)

FoldsTo(after, rows, m) ==
    after = [i \in 0..m |-> IF i = 0 THEN NoLevels ELSE applyTablet(after[i - 1], rows[i])]

\* The loop of applyTabletLoads is defined for every number of rows.
LEMMA FoldExists ==
    ASSUME NEW rows, NEW n \in Nat
    PROVE  \E after : FoldsTo(after, rows, n)
<1> DEFINE Bad == {m \in 0..n : ~ \E after : FoldsTo(after, rows, m)}
<1>1. 0 \notin Bad
  <2>1. FoldsTo([i \in 0..0 |-> NoLevels], rows, 0)
    BY DEF FoldsTo
  <2> QED
    BY <2>1
<1>2. ASSUME NEW m \in Nat, m # 0, NEW f, FoldsTo(f, rows, m - 1)
      PROVE  \E after : FoldsTo(after, rows, m)
  <2> DEFINE new == applyTablet(f[m - 1], rows[m])
             g == [i \in 0..m |-> IF i = m THEN new ELSE f[i]]
  <2>1. f = [i \in 0..(m - 1) |-> IF i = 0 THEN NoLevels ELSE applyTablet(f[i - 1], rows[i])]
    BY <1>2 DEF FoldsTo
  <2>2. \A i \in 0..(m - 1) : f[i] = IF i = 0 THEN NoLevels ELSE applyTablet(f[i - 1], rows[i])
    BY <2>1
  <2> DEFINE h == [i \in 0..m |-> IF i = 0 THEN NoLevels ELSE applyTablet(g[i - 1], rows[i])]
  <2>3. \A i \in 0..m : g[i] = h[i]
    <3> SUFFICES ASSUME NEW i \in 0..m PROVE g[i] = h[i]
      OBVIOUS
    <3>1. CASE i = m
      <4>1. m - 1 \in 0..m /\ m - 1 # m
        BY <1>2
      <4>2. g[i - 1] = f[m - 1]
        BY <3>1, <4>1
      <4> QED
        BY <1>2, <3>1, <4>2
    <3>2. CASE i = 0
      BY <1>2, <2>2, <3>2
    <3>3. CASE i # m /\ i # 0
      <4>1. i \in 0..(m - 1) /\ i - 1 \in 0..m /\ i - 1 # m
        BY <1>2, <3>3
      <4>2. g[i - 1] = f[i - 1] /\ g[i] = f[i]
        BY <3>3, <4>1
      <4>3. h[i] = applyTablet(g[i - 1], rows[i])
        BY <3>3
      <4>4. f[i] = applyTablet(f[i - 1], rows[i])
        BY <2>2, <3>3, <4>1
      <4> QED
        BY <4>2, <4>3, <4>4
    <3> QED
      BY <3>1, <3>2, <3>3
  <2>4. g = h
    <3>1. g = [i \in 0..m |-> g[i]] /\ h = [i \in 0..m |-> h[i]]
      OBVIOUS
    <3> HIDE DEF g, h
    <3> QED
      BY <2>3, <3>1
  <2>5. FoldsTo(g, rows, m)
    <3> HIDE DEF g
    <3> QED
      BY <2>4 DEF FoldsTo, h
  <2> QED
    BY <2>5
<1>3. Bad = {}
  <2> SUFFICES ASSUME Bad # {} PROVE FALSE
    OBVIOUS
  <2>1. Bad \in SUBSET (0..n)
    OBVIOUS
  <2> HIDE DEF Bad
  <2>2. PICK m \in Bad : \A k \in Bad : m <= k
    BY <2>1, LeastOf
  <2>3. m \in Nat /\ m # 0 /\ m - 1 \in 0..n /\ m - 1 \notin Bad
    <3>1. m \in 0..n /\ m # 0
      BY <1>1, <2>1
    <3>2. m - 1 \in 0..n /\ ~(m <= m - 1)
      BY <3>1
    <3> QED
      BY <2>2, <3>1, <3>2
  <2>4. \E f : FoldsTo(f, rows, m - 1)
    BY <2>3 DEF Bad
  <2>5. \E f : FoldsTo(f, rows, m)
    BY <1>2, <2>3, <2>4
  <2> QED
    BY <2>5 DEF Bad
<1>4. n \in 0..n
  OBVIOUS
<1> QED
  BY <1>3, <1>4

\* applyTabletLoads is the last value of its loop.
LEMMA FoldIs ==
    ASSUME NEW rows, Len(rows) \in Nat
    PROVE  \E after : FoldsTo(after, rows, Len(rows)) /\ applyTabletLoads(rows) = after[Len(rows)]
<1> DEFINE after == CHOOSE f : FoldsTo(f, rows, Len(rows))
<1>1. FoldsTo(after, rows, Len(rows))
  BY FoldExists
<1>2. applyTabletLoads(rows) = after[Len(rows)]
  BY DEF applyTabletLoads, FoldsTo
<1> QED
  BY <1>1, <1>2

\* What applyTabletLoads makes of any rows, by induction on their number.
LEMMA LevelsOfRows ==
    ASSUME NEW rows, NEW n, IsRows(rows, n)
    PROVE  LevelsAre(applyTabletLoads(rows), rows, n)
<1>1. n \in Nat /\ Len(rows) = n
  BY DEF IsRows
<1>2. PICK after : FoldsTo(after, rows, n) /\ applyTabletLoads(rows) = after[n]
  BY <1>1, FoldIs
<1>3. \A i \in 0..n : after[i] = IF i = 0 THEN NoLevels ELSE applyTablet(after[i - 1], rows[i])
  BY <1>2 DEF FoldsTo
<1> DEFINE Bad == {m \in 0..n : ~LevelsAre(after[m], rows, m)}
<1>4. 0 \notin Bad
  <2>1. after[0] = NoLevels
    BY <1>1, <1>3
  <2> QED
    BY <2>1, LevelsAtFirst
<1>5. Bad = {}
  <2> SUFFICES ASSUME Bad # {} PROVE FALSE
    OBVIOUS
  <2>1. Bad \in SUBSET (0..n)
    OBVIOUS
  <2> HIDE DEF Bad
  <2>2. PICK m \in Bad : \A k \in Bad : m <= k
    BY <1>1, <2>1, LeastOf
  <2>3. m \in Nat /\ m # 0 /\ m \in 0..n
    BY <1>1, <1>4, <2>1
  <2> DEFINE k == m - 1
  <2>4. k \in 0..(n - 1) /\ k \in 0..n /\ k + 1 = m /\ k \notin Bad
    <3>1. m - 1 \in 0..n /\ ~(m <= m - 1)
      BY <1>1, <2>3
    <3>2. m - 1 \notin Bad
      BY <2>2, <3>1
    <3> QED
      BY <1>1, <2>3, <3>2
  <2> HIDE DEF k
  <2>5. HasNext(rows, n, k) /\ LevelsAre(after[k], rows, k)
    BY <2>4 DEF HasNext, Bad
  <2>6. after[m] = applyTablet(after[k], rows[k + 1])
    BY <1>3, <2>3, <2>4 DEF k
  <2>7. LevelsAre(applyTablet(after[k], rows[k + 1]), rows, k + 1)
    BY <2>5, LevelsGrow
  <2> QED
    BY <2>4, <2>6, <2>7 DEF Bad
<1>6. n \in 0..n
  BY <1>1
<1> QED
  BY <1>2, <1>5, <1>6

\* The two lists the skew is measured on.
LEMMA MeasuredLists ==
    ASSUME NEW rows, NEW n, IsRows(rows, n), NEW l, LevelsAre(l, rows, n)
    PROVE  /\ IsMembers(l.tablets, n)
           /\ IsFiniteSet(DOMAIN l.loads) /\ DOMAIN l.loads = {rows[i].be : i \in 1..n}
           /\ \A b \in DOMAIN l.loads : /\ b \in Int
                                       /\ l.loads[b].rows \in Int /\ l.loads[b].bytes \in Int
<1>1. n \in Nat /\ \A i \in 1..n : IsRow(rows[i])
  BY DEF IsRows
<1>2. IsMembers(l.tablets, n)
  <2> DEFINE t(i) == [rows |-> OrZero(rows[i].rows), bytes |-> OrZero(rows[i].bytes)]
             T == {t(i) : i \in 1..n}
  <2>1. l.tablets = [i \in 1..n |-> t(i)]
    BY DEF LevelsAre
  <2>2. \A i \in 1..n : t(i).rows \in Int /\ t(i).bytes \in Int
    BY <1>1 DEF IsRow
  <2>3. \A i \in 1..n : t(i) \in T
    OBVIOUS
  <2> HIDE DEF t, T
  <2>4. l.tablets \in [1..n -> T]
    BY <2>1, <2>3
  <2>5. DOMAIN l.tablets = 1..n /\ Len(l.tablets) = n
    BY <1>1, <2>4
  <2> QED
    BY <2>1, <2>2, <2>5 DEF IsMembers
<1>3. /\ IsFiniteSet(DOMAIN l.loads) /\ DOMAIN l.loads = {rows[i].be : i \in 1..n}
      /\ \A b \in DOMAIN l.loads : l.loads[b].rows \in Int /\ l.loads[b].bytes \in Int
  BY DEF LevelsAre, LoadsAre
<1>4. \A b \in DOMAIN l.loads : b \in Int
  BY <1>1, <1>3 DEF IsRow
<1> QED
  BY <1>2, <1>3, <1>4

\* applyTabletLoads and computeSkew keep their promises on any rows, by induction on their
\* number (storage_service.go:221-334).
THEOREM LevelsAgree ==
    ASSUME NEW rows, NEW n, IsRows(rows, n)
    PROVE  LevelsOf(applyTabletLoads(rows), rows) /\ SoundSkew(applyTabletLoads(rows))
<1> DEFINE l == applyTabletLoads(rows)
<1>1. n \in Nat /\ DOMAIN rows = 1..n /\ Len(rows) = n
      /\ \A i \in 1..n : IsRow(rows[i])
  BY DEF IsRows
<1>2. LevelsAre(l, rows, n)
  BY LevelsOfRows
<1> HIDE DEF l
<1>3. LevelsOf(l, rows)
  <2>1. \A b \in DOMAIN l.loads : l.loads[b] = LoadAfter(rows, b, n)
    BY <1>2 DEF LevelsAre, LoadsAre
  <2>2. \A b : Mine(rows, b, n) = {i \in DOMAIN rows : rows[i].be = b}
    BY <1>1 DEF Mine
  <2>3. ASSUME NEW b \in DOMAIN l.loads
        PROVE  LET mine == {i \in DOMAIN rows : rows[i].be = b}
               IN /\ l.loads[b].tabletNum = Cardinality(mine)
                  /\ l.loads[b].rows = SumFunction([i \in mine |-> OrZero(rows[i].rows)])
                  /\ l.loads[b].bytes = SumFunction([i \in mine |-> OrZero(rows[i].bytes)])
    <3> DEFINE mine == {i \in DOMAIN rows : rows[i].be = b}
    <3>1. Mine(rows, b, n) = mine
      BY <2>2
    <3> HIDE DEF mine
    <3>2. /\ l.loads[b].tabletNum = Cardinality(mine)
          /\ l.loads[b].rows = Of(rows, b, n, "rows")
          /\ l.loads[b].bytes = Of(rows, b, n, "bytes")
      <4>1. l.loads[b] = LoadAfter(rows, b, n)
        BY <2>1
      <4>2. /\ LoadAfter(rows, b, n).tabletNum = Cardinality(Mine(rows, b, n))
            /\ LoadAfter(rows, b, n).rows = Of(rows, b, n, "rows")
            /\ LoadAfter(rows, b, n).bytes = Of(rows, b, n, "bytes")
        BY DEF LoadAfter
      <4> QED
        BY <3>1, <4>1, <4>2
    <3>3. /\ Of(rows, b, n, "rows") = SumFunction([i \in mine |-> OrZero(rows[i].rows)])
          /\ Of(rows, b, n, "bytes") = SumFunction([i \in mine |-> OrZero(rows[i].bytes)])
      BY <3>1 DEF Of
    <3> QED
      BY <3>2, <3>3 DEF mine
  <2>4. SumFunction([i \in DOMAIN l.tablets |-> l.tablets[i].rows])
          = SumFunction([i \in 1..n |-> OrZero(rows[i].rows)])
    <3>1. l.tablets = [i \in 1..n |-> [rows |-> OrZero(rows[i].rows), bytes |-> OrZero(rows[i].bytes)]]
      BY <1>2 DEF LevelsAre
    <3>2. [i \in DOMAIN l.tablets |-> l.tablets[i].rows] = [i \in 1..n |-> OrZero(rows[i].rows)]
      BY <3>1
    <3> QED
      BY <3>2
  <2>5. {i \in DOMAIN rows : ~rows[i].ok} = {i \in 1..n : ~rows[i].ok}
    BY <1>1
  <2>6. /\ SumFunction([b \in DOMAIN l.loads |-> l.loads[b].tabletNum]) = n
        /\ SumFunction([b \in DOMAIN l.loads |-> l.loads[b].rows])
              = SumFunction([i \in 1..n |-> OrZero(rows[i].rows)])
        /\ SumFunction([b \in DOMAIN l.loads |-> l.loads[b].rowsetNum]) = l.rowsetTotal
        /\ l.abnormal = Cardinality({i \in 1..n : ~rows[i].ok})
    BY <1>2 DEF LevelsAre
  <2> QED
    BY <1>1, <2>3, <2>4, <2>5, <2>6 DEF LevelsOf
<1>4. SoundSkew(l)
  <2>1. IsMembers(l.tablets, n)
    BY <1>2, MeasuredLists
  <2>2. /\ IsFiniteSet(DOMAIN l.loads) /\ \A b \in DOMAIN l.loads : b \in Int
        /\ \A b \in DOMAIN l.loads : l.loads[b].rows \in Int /\ l.loads[b].bytes \in Int
    BY <1>2, MeasuredLists
  <2> QED
    BY <1>1, <2>1, <2>2, SkewIsSound
<1> QED
  BY <1>3, <1>4 DEF l
=============================================================================

----------------------------- MODULE Recursion ------------------------------
(***************************************************************************)
(* Induction over the numbers, recursive functions of a number, and sums   *)
(* over a finite set, in the form the proofs of the other modules cite.     *)
(***************************************************************************)
EXTENDS Integers, NaturalsInduction, WellFoundedInduction, FiniteSetTheorems, TLAPS

\* A set of numbers has a least one.
LEMMA Least ==
  ASSUME NEW T \in SUBSET Nat, T # {}
  PROVE  \E m \in T : \A k \in T : m <= k
<1>1. PICK m \in T : \A k \in T : ~ (<<k, m>> \in OpToRel(<, Nat))
  <2>1. \E m \in T : \A k \in T : ~ (<<k, m>> \in OpToRel(<, Nat))
    BY NatLessThanWellFounded, WFMin
  <2> QED
    BY <2>1
<1>2. \A k \in T : <<k, m>> \in OpToRel(<, Nat) <=> k < m
  BY DEF OpToRel
<1>3. \A k \in T : ~ (k < m) /\ k \in Nat /\ m \in Nat
  BY <1>1, <1>2
<1> QED
  BY <1>3

\* A set with 0 and with the successor of each of its numbers has all numbers.
LEMMA Induct ==
  ASSUME NEW T \in SUBSET Nat, 0 \in T, \A n \in T : n + 1 \in T
  PROVE  \A n \in Nat : n \in T
<1> DEFINE U == Nat \ T
<1> SUFFICES ASSUME U # {} PROVE FALSE
  OBVIOUS
<1>1. PICK m \in U : \A k \in U : m <= k
  <2> HIDE DEF U
  <2>1. U \in SUBSET Nat
    BY DEF U
  <2> QED
    BY <2>1, Least
<1>2. m \in Nat /\ m # 0 /\ m - 1 \in Nat /\ m - 1 < m /\ (m - 1) + 1 = m
  OBVIOUS
<1>3. m - 1 \notin U
  BY <1>1, <1>2
<1> QED
  BY <1>2, <1>3

\* What is reached from base in k steps, for k up to n, is defined.
Iterates(S, base, step, n) ==
  \E g \in [0 .. n -> S] :
    g = [k \in 0 .. n |-> IF k = 0 THEN base ELSE step[g[k - 1]]]

\* Every step function has iterates.
LEMMA Iterated ==
  ASSUME NEW S, NEW base \in S, NEW step \in [S -> S], NEW n \in Nat
  PROVE  Iterates(S, base, step, n)
<1> DEFINE Of(m) == \E g \in [0 .. m -> S] :
                      g = [k \in 0 .. m |-> IF k = 0 THEN base ELSE step[g[k - 1]]]
           T == {m \in Nat : Of(m)}
<1>1. Of(0)
  <2> DEFINE g == [k \in 0 .. 0 |-> base]
  <2>1. g \in [0 .. 0 -> S] /\ g = [k \in 0 .. 0 |-> IF k = 0 THEN base ELSE step[g[k - 1]]]
    OBVIOUS
  <2> QED
    BY <2>1
<1>2. ASSUME NEW m \in Nat, Of(m) PROVE Of(m + 1)
  <2>1. PICK h \in [0 .. m -> S] :
          h = [k \in 0 .. m |-> IF k = 0 THEN base ELSE step[h[k - 1]]]
    BY <1>2
  <2> DEFINE g == [k \in 0 .. (m + 1) |-> IF k = 0 THEN base ELSE step[h[k - 1]]]
  <2>2. \A k \in 0 .. m : g[k] = h[k]
    BY <2>1
  <2>3. \A k \in 0 .. (m + 1) : k # 0 => k - 1 \in 0 .. m
    OBVIOUS
  <2>4. g = [k \in 0 .. (m + 1) |-> IF k = 0 THEN base ELSE step[g[k - 1]]]
    BY <2>2, <2>3
  <2>5. g \in [0 .. (m + 1) -> S]
    BY <2>3
  <2> QED
    BY <2>4, <2>5
<1> HIDE DEF Of
<1>3. T \in SUBSET Nat /\ 0 \in T /\ \A m \in T : m + 1 \in T
  BY <1>1, <1>2
<1>4. \A m \in Nat : m \in T
  <2> HIDE DEF T
  <2> QED
    BY <1>3, Induct
<1>5. Of(n)
  BY <1>4
<1> QED
  BY <1>5 DEF Of, Iterates

\* What is so of k whenever it is so of all numbers below it is so of all.
LEMMA FromBelow ==
  ASSUME NEW N \in Nat, NEW T,
         \A k \in 0..N : (\A j \in 0..(k - 1) : j \in T) => k \in T
  PROVE  \A k \in 0..N : k \in T
<1> DEFINE U == {k \in 0..N : k \notin T}
<1> SUFFICES ASSUME U # {} PROVE FALSE
  OBVIOUS
<1>1. PICK m \in U : \A k \in U : m <= k
  <2>1. U \in SUBSET Nat
    OBVIOUS
  <2> HIDE DEF U
  <2> QED
    BY <2>1, Least
<1>2. \A j \in 0..(m - 1) : j \in 0..N /\ ~ (m <= j)
  OBVIOUS
<1>3. \A j \in 0..(m - 1) : j \in T
  BY <1>1, <1>2
<1> QED
  BY <1>3

\* g follows prev down to 0, and takes a step for each number on the way.
Descends(N, prev, base, step, g) ==
  g = [k \in 0..N |-> IF k = 0 THEN base ELSE step[k][g[prev[k]]]]

\* Such a g exists when prev leads down.
LEMMA Descent ==
  ASSUME NEW N \in Nat, NEW prev, \A k \in 1..N : prev[k] \in 0..(k - 1),
         NEW base, NEW step
  PROVE  \E g : Descends(N, prev, base, step, g)
<1> DEFINE T == {n \in Nat : n <= N => \E g : Descends(n, prev, base, step, g)}
<1>1. 0 \in T
  <2> DEFINE g == [k \in 0..0 |-> base]
  <2>1. g = [k \in 0..0 |-> IF k = 0 THEN base ELSE step[k][g[prev[k]]]]
    OBVIOUS
  <2> HIDE DEF g
  <2>2. Descends(0, prev, base, step, g)
    BY <2>1 DEF Descends
  <2> QED
    BY <2>2
<1>2. ASSUME NEW n \in T PROVE n + 1 \in T
  <2> SUFFICES ASSUME n + 1 <= N PROVE \E h : Descends(n + 1, prev, base, step, h)
    OBVIOUS
  <2>1. PICK g : Descends(n, prev, base, step, g)
    OBVIOUS
  <2> DEFINE h == [k \in 0..(n + 1) |-> IF k = 0 THEN base ELSE step[k][g[prev[k]]]]
  <2>2. \A k \in 0..n : h[k] = g[k]
    <3>1. \A k \in 0..n : g[k] = IF k = 0 THEN base ELSE step[k][g[prev[k]]]
      BY <2>1 DEF Descends
    <3>2. \A k \in 0..n : k \in 0..(n + 1)
      OBVIOUS
    <3> QED
      BY <3>1, <3>2
  <2>3. \A k \in 0..(n + 1) : k # 0 => prev[k] \in 0..n
    <3> SUFFICES ASSUME NEW k \in 0..(n + 1), k # 0 PROVE prev[k] \in 0..n
      OBVIOUS
    <3>1. k \in 1..N /\ k - 1 <= n
      OBVIOUS
    <3>2. prev[k] \in 0..(k - 1)
      BY <3>1
    <3> QED
      BY <3>1, <3>2
  <2>4. h = [k \in 0..(n + 1) |-> IF k = 0 THEN base ELSE step[k][h[prev[k]]]]
    BY <2>2, <2>3
  <2> HIDE DEF h
  <2>5. Descends(n + 1, prev, base, step, h)
    BY <2>4 DEF Descends
  <2> QED
    BY <2>5
<1>3. T \in SUBSET Nat
  OBVIOUS
<1>4. \A n \in Nat : n \in T
  <2> HIDE DEF T
  <2> QED
    BY <1>1, <1>2, <1>3, Induct
<1> QED
  BY <1>4

-----------------------------------------------------------------------------
(* Sums over a finite set.  MapThenSumSet takes the elements in some order,  *)
(* and which makes no difference.                                          *)

Chosen(s) == CHOOSE x \in s : TRUE

\* g sums f over each of the sets in A, taking their elements in that order.
Sums(f, A, g) ==
  g = [s \in A |-> IF s = {} THEN 0 ELSE f[Chosen(s)] + g[s \ {Chosen(s)}]]

SumOver(f, S) == (CHOOSE g : Sums(f, SUBSET S, g))[S]

SumsAll(f, S, g) == Sums(f, SUBSET S, g) /\ \A s \in SUBSET S : g[s] \in Int

\* The values of f on S can be summed.
Summable(f, S) == IsFiniteSet(S) /\ \A x \in S : f[x] \in Int

AtMost(S, n) == {s \in SUBSET S : Cardinality(s) <= n}

LEMMA ChosenIs ==
  ASSUME NEW S, IsFiniteSet(S), NEW s \in SUBSET S, s # {}
  PROVE  /\ Chosen(s) \in s /\ s \ {Chosen(s)} \in SUBSET S
         /\ Cardinality(s \ {Chosen(s)}) = Cardinality(s) - 1
         /\ Cardinality(s) \in Nat /\ Cardinality(s) # 0
<1>1. Chosen(s) \in s
  BY DEF Chosen
<1>2. IsFiniteSet(s)
  BY FS_Subset
<1>3. Cardinality(s) \in Nat /\ Cardinality(s) # 0
  BY <1>2, FS_CardinalityType, FS_EmptySet
<1> QED
  BY <1>1, <1>2, <1>3, FS_RemoveElement

\* Among the subsets of a finite set there is one with the fewest elements.
LEMMA Fewest ==
  ASSUME NEW S, IsFiniteSet(S), NEW T \in SUBSET SUBSET S, T # {}
  PROVE  \E s \in T : \A r \in T : Cardinality(s) <= Cardinality(r)
<1> DEFINE N == {Cardinality(s) : s \in T}
<1>1. \A s \in T : Cardinality(s) \in Nat
  BY FS_Subset, FS_CardinalityType
<1>2. N \in SUBSET Nat /\ N # {}
  BY <1>1
<1>3. PICK n \in N : \A k \in N : n <= k
  <2> HIDE DEF N
  <2> QED
    BY <1>2, Least
<1> QED
  BY <1>3

LEMMA SumsUpTo ==
  ASSUME NEW f, NEW S, Summable(f, S), NEW n \in Nat
  PROVE  \E g : Sums(f, AtMost(S, n), g) /\ \A s \in AtMost(S, n) : g[s] \in Int
<1> DEFINE Typed(A, g) == \A s \in A : g[s] \in Int
           T == {m \in Nat : \E g : Sums(f, AtMost(S, m), g) /\ Typed(AtMost(S, m), g)}
<1>0. IsFiniteSet(S) /\ \A x \in S : f[x] \in Int
  BY DEF Summable
<1>1. 0 \in T
  <2>1. AtMost(S, 0) = {{}}
    <3>1. \A s \in SUBSET S : Cardinality(s) <= 0 => s = {}
      <4> SUFFICES ASSUME NEW s \in SUBSET S, Cardinality(s) <= 0, s # {} PROVE FALSE
        OBVIOUS
      <4>1. Cardinality(s) \in Nat /\ Cardinality(s) # 0
        BY <1>0, ChosenIs
      <4> QED
        BY <4>1
    <3>2. Cardinality({}) = 0
      BY FS_EmptySet
    <3> QED
      BY <3>1, <3>2 DEF AtMost
  <2> DEFINE g == [s \in {{}} |-> 0]
  <2>2. Sums(f, {{}}, g) /\ Typed({{}}, g)
    BY DEF Sums
  <2> QED
    BY <2>1, <2>2
<1>2. ASSUME NEW m \in T PROVE m + 1 \in T
  <2> DEFINE A == AtMost(S, m)
             B == AtMost(S, m + 1)
  <2>1. PICK g : Sums(f, A, g) /\ Typed(A, g)
    OBVIOUS
  <2> DEFINE h == [s \in B |-> IF s = {} THEN 0 ELSE f[Chosen(s)] + g[s \ {Chosen(s)}]]
  <2>2. \A s \in B : s # {} => s \ {Chosen(s)} \in A /\ Chosen(s) \in S
    BY <1>0, ChosenIs DEF AtMost
  <2>3. \A s \in A : s \in B /\ h[s] = g[s]
    <3>1. A \subseteq B
      <4> SUFFICES ASSUME NEW s \in A PROVE s \in B
        OBVIOUS
      <4>1. Cardinality(s) \in Nat
        BY <1>0, FS_Subset, FS_CardinalityType DEF AtMost
      <4> QED
        BY <4>1 DEF AtMost
    <3> QED
      BY <2>1, <3>1 DEF Sums
  <2> HIDE DEF A, B
  <2>4. Typed(B, h)
    <3> SUFFICES ASSUME NEW s \in B PROVE h[s] \in Int
      OBVIOUS
    <3>1. CASE s = {}
      BY <3>1
    <3>2. CASE s # {}
      <4>1. g[s \ {Chosen(s)}] \in Int /\ f[Chosen(s)] \in Int
        BY <1>0, <2>1, <2>2, <3>2
      <4> QED
        BY <3>2, <4>1
    <3> QED
      BY <3>1, <3>2
  <2>5. Sums(f, B, h)
    <3>1. \A s \in B : s # {} => h[s \ {Chosen(s)}] = g[s \ {Chosen(s)}]
      BY <2>2, <2>3
    <3>2. h = [s \in B |-> IF s = {} THEN 0 ELSE f[Chosen(s)] + h[s \ {Chosen(s)}]]
      BY <3>1
    <3> HIDE DEF h
    <3> QED
      BY <3>2 DEF Sums
  <2>6. m + 1 \in Nat /\ B = AtMost(S, m + 1)
    BY DEF B
  <2> HIDE DEF h
  <2> QED
    BY <2>4, <2>5, <2>6
<1>3. T \in SUBSET Nat
  OBVIOUS
<1>4. \A m \in Nat : m \in T
  <2> HIDE DEF T
  <2> QED
    BY <1>1, <1>2, <1>3, Induct
<1> QED
  BY <1>4

\* Two sums agree where both are defined.
LEMMA SumsSame ==
  ASSUME NEW f, NEW S, NEW R \in SUBSET S, IsFiniteSet(R), NEW g, NEW h,
         Sums(f, SUBSET S, g), Sums(f, SUBSET R, h)
  PROVE  g[R] = h[R]
<1> DEFINE T == {s \in SUBSET R : g[s] # h[s]}
<1> SUFFICES ASSUME T # {} PROVE FALSE
  <2>1. R \in SUBSET R
    OBVIOUS
  <2> QED
    BY <2>1
<1>1. PICK s \in T : \A r \in T : Cardinality(s) <= Cardinality(r)
  BY Fewest
<1>2. /\ g[s] = IF s = {} THEN 0 ELSE f[Chosen(s)] + g[s \ {Chosen(s)}]
      /\ h[s] = IF s = {} THEN 0 ELSE f[Chosen(s)] + h[s \ {Chosen(s)}]
  BY DEF Sums
<1>3. s # {}
  BY <1>2
<1>4. s \ {Chosen(s)} \notin T
  BY <1>1, <1>3, ChosenIs
<1> QED
  BY <1>2, <1>3, <1>4, ChosenIs

\* The sums over all subsets of a finite set.
LEMMA SumsExist ==
  ASSUME NEW f, NEW S, Summable(f, S)
  PROVE  \E g : SumsAll(f, S, g) /\ SumOver(f, S) = g[S]
<1>1. SUBSET S = AtMost(S, Cardinality(S)) /\ Cardinality(S) \in Nat
  BY FS_Subset, FS_CardinalityType DEF AtMost, Summable
<1>2. PICK g : Sums(f, SUBSET S, g) /\ \A s \in SUBSET S : g[s] \in Int
  <2>1. \A n \in Nat : \E g : Sums(f, AtMost(S, n), g) /\ \A s \in AtMost(S, n) : g[s] \in Int
    BY SumsUpTo
  <2> QED
    BY <1>1, <2>1
<1> DEFINE c == CHOOSE h : Sums(f, SUBSET S, h)
<1>3. Sums(f, SUBSET S, c)
  BY <1>2
<1>4. SumOver(f, S) = c[S]
  BY DEF SumOver
<1> HIDE DEF c
<1>5. c[S] = g[S]
  <2>1. IsFiniteSet(S) /\ S \in SUBSET S
    BY DEF Summable
  <2> QED
    BY <1>2, <1>3, <2>1, SumsSame
<1> QED
  BY <1>2, <1>4, <1>5 DEF SumsAll

\* Any element can come first.
LEMMA AnyOrder ==
  ASSUME NEW f, NEW S, Summable(f, S), NEW g, SumsAll(f, S, g), NEW a \in S
  PROVE  g[S] = g[S \ {a}] + f[a]
<1> DEFINE T == {s \in SUBSET S : \E b \in s : g[s] # g[s \ {b}] + f[b]}
<1> SUFFICES ASSUME T # {} PROVE FALSE
  OBVIOUS
<1>0. IsFiniteSet(S) /\ T \in SUBSET SUBSET S
  BY FS_Subset DEF Summable
<1>1. PICK s \in T : \A r \in T : Cardinality(s) <= Cardinality(r)
  <2> HIDE DEF T
  <2> QED
    BY <1>0, Fewest
<1>2. PICK b \in s : g[s] # g[s \ {b}] + f[b]
  OBVIOUS
<1> DEFINE c == Chosen(s)
<1>3. /\ c \in s /\ s \ {c} \in SUBSET S /\ Cardinality(s) \in Nat
      /\ Cardinality(s \ {c}) = Cardinality(s) - 1
      /\ Cardinality(s \ {b}) = Cardinality(s) - 1
      /\ s \ {b} \in SUBSET S
  <2>1. IsFiniteSet(s)
    BY <1>0, FS_Subset
  <2> QED
    BY <1>0, <2>1, ChosenIs, FS_RemoveElement
<1>9. \A d \in S : f[d] \in Int
  BY DEF Summable
<1>4. g[s] = g[s \ {c}] + f[c]
  <2>1. g[s] = f[c] + g[s \ {c}]
    BY <1>3 DEF Sums, SumsAll
  <2>2. g[s \ {c}] \in Int /\ f[c] \in Int
    BY <1>3, <1>9 DEF SumsAll
  <2> HIDE DEF c
  <2> QED
    BY <2>1, <2>2
<1> HIDE DEF c
<1>5. c # b
  BY <1>2, <1>4
<1>6. s \ {c} \notin T /\ s \ {b} \notin T
  <2>1. ~ (Cardinality(s) <= Cardinality(s) - 1)
    BY <1>3
  <2> HIDE DEF T
  <2> QED
    BY <1>1, <1>3, <2>1
<1>7. g[s \ {c}] = g[(s \ {c}) \ {b}] + f[b] /\ g[s \ {b}] = g[(s \ {b}) \ {c}] + f[c]
  <2>1. \A r \in SUBSET S : r \notin T => \A d \in r : g[r] = g[r \ {d}] + f[d]
    OBVIOUS
  <2>2. b \in s \ {c} /\ c \in s \ {b}
    BY <1>3, <1>5
  <2> HIDE DEF T
  <2> QED
    BY <1>3, <1>6, <2>1, <2>2
<1>8. (s \ {c}) \ {b} = (s \ {b}) \ {c}
  OBVIOUS
<1> DEFINE x == g[(s \ {c}) \ {b}]
<1>10. g[s] = (x + f[b]) + f[c]
  BY <1>4, <1>7
<1>11. g[s] # (x + f[c]) + f[b]
  BY <1>2, <1>7, <1>8
<1>12. x \in Int /\ f[b] \in Int /\ f[c] \in Int
  BY <1>3, <1>9 DEF SumsAll
<1> HIDE DEF T, x
<1> QED
  BY <1>10, <1>11, <1>12

LEMMA SumType ==
  ASSUME NEW f, NEW S, Summable(f, S)
  PROVE  SumOver(f, S) \in Int
BY SumsExist DEF SumsAll

LEMMA SumEmpty == ASSUME NEW f PROVE SumOver(f, {}) = 0 /\ Summable(f, {})
<1>1. Summable(f, {})
  BY FS_EmptySet DEF Summable
<1>2. PICK g : SumsAll(f, {}, g) /\ SumOver(f, {}) = g[{}]
  BY <1>1, SumsExist
<1>3. {} \in SUBSET {}
  OBVIOUS
<1> QED
  BY <1>1, <1>2, <1>3 DEF Sums, SumsAll

\* Functions that agree on a set have the same sum over it.
LEMMA SumAgree ==
  ASSUME NEW f, NEW h, NEW S, Summable(f, S), \A x \in S : f[x] = h[x]
  PROVE  SumOver(f, S) = SumOver(h, S) /\ Summable(h, S)
<1>1. \A s \in SUBSET S : s # {} => Chosen(s) \in S
  BY DEF Chosen
<1>2. \A g : [s \in SUBSET S |-> IF s = {} THEN 0 ELSE f[Chosen(s)] + g[s \ {Chosen(s)}]]
           = [s \in SUBSET S |-> IF s = {} THEN 0 ELSE h[Chosen(s)] + g[s \ {Chosen(s)}]]
  BY <1>1
<1>3. \A g : Sums(f, SUBSET S, g) <=> Sums(h, SUBSET S, g)
  BY <1>2 DEF Sums
<1>4. (CHOOSE g : Sums(f, SUBSET S, g)) = (CHOOSE g : Sums(h, SUBSET S, g))
  BY <1>3
<1> QED
  BY <1>4 DEF SumOver, Summable

\* One element more or less.
LEMMA SumAdd ==
  ASSUME NEW f, NEW S, Summable(f, S), NEW a \in S
  PROVE  /\ Summable(f, S \ {a}) /\ SumOver(f, S \ {a}) \in Int /\ f[a] \in Int
         /\ SumOver(f, S) = SumOver(f, S \ {a}) + f[a]
<1> DEFINE R == S \ {a}
<1>1. Summable(f, R) /\ f[a] \in Int
  BY FS_Subset DEF Summable
<1>2. PICK g : SumsAll(f, S, g) /\ SumOver(f, S) = g[S]
  BY SumsExist
<1>3. PICK h : SumsAll(f, R, h) /\ SumOver(f, R) = h[R]
  BY <1>1, SumsExist
<1>4. R \in SUBSET S /\ R \in SUBSET R /\ S \in SUBSET S /\ IsFiniteSet(R)
  BY <1>1 DEF Summable
<1>5. g[S] = g[R] + f[a]
  BY <1>2, AnyOrder
<1> HIDE DEF R
<1>6. g[R] = h[R]
  BY <1>2, <1>3, <1>4, SumsSame DEF SumsAll
<1> USE DEF R
<1>7. h[R] \in Int
  BY <1>3, <1>4 DEF SumsAll
<1> QED
  BY <1>1, <1>2, <1>3, <1>5, <1>6, <1>7

\* Whether a sum is cut to its width at each step or once makes no difference.
LEMMA ModUnique ==
  ASSUME NEW m \in Nat \ {0}, NEW q \in Int, NEW r \in 0 .. (m - 1)
  PROVE  (m * q + r) % m = r
<1> DEFINE x == m * q + r
           p == x \div m
<1>1. x \in Int /\ p \in Int /\ (x % m) \in 0 .. (m - 1) /\ x = m * p + (x % m)
  OBVIOUS
<1>2. m * (q - p) = (x % m) - r
  <2>1. m * (q - p) = m * q - m * p
    BY <1>1
  <2>2. m * q \in Int /\ m * p \in Int
    BY <1>1
  <2> QED
    BY <1>1, <2>1, <2>2
<1> HIDE DEF x, p
<1>3. -m < m * (q - p) /\ m * (q - p) < m
  BY <1>1, <1>2
<1>4. q - p = 0
  <2>1. CASE q - p >= 1
    <3>1. m * (q - p) >= m
      BY <1>1, <2>1
    <3> QED
      BY <1>1, <1>3, <3>1
  <2>2. CASE q - p <= -1
    <3>1. m * (q - p) <= -m
      BY <1>1, <2>2
    <3> QED
      BY <1>1, <1>3, <3>1
  <2> QED
    BY <1>1, <2>1, <2>2
<1>5. m * (q - p) = 0
  BY <1>4
<1> QED
  BY <1>1, <1>2, <1>5 DEF x

LEMMA ModSum ==
  ASSUME NEW m \in Nat \ {0}, NEW x \in Int, NEW y \in Int, NEW z \in Int
  PROVE  ((x % m) + z + y) % m = (x + z + (y % m)) % m
<1> DEFINE X == x % m
           Y == y % m
           s == X + z + Y
           S == s % m
           a == x \div m
           b == y \div m
           c == s \div m
<1>1. /\ a \in Int /\ b \in Int /\ c \in Int /\ X \in Int /\ Y \in Int
      /\ x = m * a + X /\ y = m * b + Y
  OBVIOUS
<1>2. s \in Int /\ S \in 0 .. (m - 1) /\ s = m * c + S
  <2>1. s \in Int
    BY <1>1
  <2> HIDE DEF s
  <2> QED
    BY <2>1
<1>3. s = X + z + Y
  OBVIOUS
<1> HIDE DEF X, Y, s, S, a, b, c
<1>4. m * (c + b) = m * c + m * b /\ m * (c + a) = m * c + m * a
  BY <1>1, <1>2
<1>5. m * a \in Int /\ m * b \in Int /\ m * c \in Int
  BY <1>1, <1>2
<1>6. X + z + y = m * (c + b) + S
  BY <1>1, <1>2, <1>3, <1>4, <1>5
<1>7. x + z + Y = m * (c + a) + S
  BY <1>1, <1>2, <1>3, <1>4, <1>5
<1>8. (m * (c + b) + S) % m = S /\ (m * (c + a) + S) % m = S
  <2>1. c + b \in Int /\ c + a \in Int
    BY <1>1, <1>2
  <2> QED
    BY <1>2, <2>1, ModUnique
<1>9. (X + z + y) % m = (x + z + Y) % m
  BY <1>6, <1>7, <1>8
<1> QED
  BY <1>9 DEF X, Y

LEMMA ModAdd ==
  ASSUME NEW m \in Nat \ {0}, NEW x \in Int, NEW y \in Int
  PROVE  ((x % m) + y) % m = (x + y) % m
<1>1. \A z \in Int : ((x % m) + y + z) % m = (x + y + (z % m)) % m
  BY ModSum
<1>2. 0 % m = 0 /\ (x % m) \in Int
  OBVIOUS
<1>3. PICK z \in Int : z = 0
  OBVIOUS
<1>4. ((x % m) + y + z) % m = (x + y + (z % m)) % m
  BY <1>1
<1>5. (x % m) + y + z = (x % m) + y /\ x + y + (z % m) = x + y
  BY <1>2, <1>3
<1> QED
  BY <1>4, <1>5

=============================================================================

------------------------------ MODULE LeakProofs ------------------------------
(***************************************************************************)
(* Proofs about LeakDetect, for any program, heap and listing of threads:  *)
(* the binary search finds the block that holds an address, memory is read *)
(* only while the listed threads are stopped, and no block that is shown   *)
(* has been freed.                                                         *)
(***************************************************************************)
EXTENDS LeakDetect, Recursion, FiniteSetTheorems, TLAPS

-----------------------------------------------------------------------------
(* find_block.                                                             *)

\* The loop, from w[1] to w[2], once more.
Narrowed(arr, a, g, w) ==
  LET middle == (w[1] + w[2]) \div 2
  IN IF w[1] >= w[2] - 1 THEN w[1]
     ELSE IF Below(a, arr[middle + 1]) THEN g[<<w[1], middle>>] ELSE g[<<middle, w[2]>>]

EndsOf(n) == (0 .. n) \X (0 .. n)
Within(n, m) == {w \in EndsOf(n) : w[2] - w[1] <= m}

\* The loop ends, so that there is a function that does what it does.
LEMMA NarrowDefined ==
  ASSUME NEW arr, Len(arr) \in Nat, NEW a
  PROVE  \A w \in EndsOf(Len(arr)) : narrow(arr, a)[w] = Narrowed(arr, a, narrow(arr, a), w)
<1> DEFINE n == Len(arr)
           T == {m \in Nat : ~ \E g : g = [w \in Within(n, m) |-> Narrowed(arr, a, g, w)]}
<1>1. n \in Nat
  OBVIOUS
<1> HIDE DEF n
<1>2. T = {}
  <2> SUFFICES ASSUME T # {} PROVE FALSE
    OBVIOUS
  <2>1. PICK m \in T : \A k \in T : m <= k
    BY Least
  <2>2. m \in Nat /\ ~ \E g : g = [w \in Within(n, m) |-> Narrowed(arr, a, g, w)]
    OBVIOUS
  <2>3. CASE m = 0
    <3> DEFINE g == [w \in Within(n, m) |-> w[1]]
    <3>1. \A w \in Within(n, m) : w[1] >= w[2] - 1
      BY <1>1, <2>3 DEF Within, EndsOf
    <3>2. \A w \in Within(n, m) : Narrowed(arr, a, g, w) = w[1]
      BY <3>1 DEF Narrowed
    <3>3. g = [w \in Within(n, m) |-> Narrowed(arr, a, g, w)]
      BY <3>2
    <3> QED
      BY <2>2, <3>3
  <2>4. CASE m > 0
    <3>1. m - 1 \in Nat /\ m - 1 \notin T
      BY <2>1, <2>2, <2>4
    <3>2. PICK h : h = [w \in Within(n, m - 1) |-> Narrowed(arr, a, h, w)]
      BY <3>1
    <3> DEFINE g == [w \in Within(n, m) |-> Narrowed(arr, a, h, w)]
    <3>3. \A v \in Within(n, m - 1) : v \in Within(n, m) /\ g[v] = h[v]
      <4>1. \A v \in Within(n, m - 1) : v \in Within(n, m)
        BY <1>1, <2>2 DEF Within, EndsOf
      <4>2. \A v \in Within(n, m - 1) : h[v] = Narrowed(arr, a, h, v)
        BY <3>2
      <4> QED
        BY <4>1, <4>2
    <3>4. ASSUME NEW w \in Within(n, m)
          PROVE  Narrowed(arr, a, h, w) = Narrowed(arr, a, g, w)
      <4> DEFINE middle == (w[1] + w[2]) \div 2
      <4>1. CASE w[1] >= w[2] - 1
        BY <4>1 DEF Narrowed
      <4>2. CASE ~(w[1] >= w[2] - 1)
        <5>1. w[1] \in 0 .. n /\ w[2] \in 0 .. n /\ w[2] - w[1] <= m
          BY DEF Within, EndsOf
        <5>2. middle \in 0 .. n /\ w[1] < middle /\ middle < w[2]
          BY <1>1, <4>2, <5>1
        <5> HIDE DEF middle
        <5>3. <<w[1], middle>> \in Within(n, m - 1) /\ <<middle, w[2]>> \in Within(n, m - 1)
          BY <1>1, <2>2, <5>1, <5>2 DEF Within, EndsOf
        <5>4. g[<<w[1], middle>>] = h[<<w[1], middle>>] /\ g[<<middle, w[2]>>] = h[<<middle, w[2]>>]
          BY <3>3, <5>3
        <5> HIDE DEF g
        <5> QED
          BY <4>2, <5>4 DEF Narrowed, middle
      <4> QED
        BY <4>1, <4>2
    <3>5. g = [w \in Within(n, m) |-> Narrowed(arr, a, g, w)]
      BY <3>4
    <3> QED
      BY <2>2, <3>5
  <2> QED
    BY <2>2, <2>3, <2>4
<1>3. \E g : g = [w \in EndsOf(n) |-> Narrowed(arr, a, g, w)]
  <2>1. \E g : g = [w \in Within(n, n) |-> Narrowed(arr, a, g, w)]
    BY <1>1, <1>2
  <2>2. Within(n, n) = EndsOf(n)
    BY <1>1 DEF Within, EndsOf
  <2> QED
    BY <2>1, <2>2
<1>4. narrow(arr, a) = CHOOSE g : g = [w \in EndsOf(n) |-> Narrowed(arr, a, g, w)]
  BY DEF narrow, EndsOf, Narrowed, n
<1>5. narrow(arr, a) = [w \in EndsOf(n) |-> Narrowed(arr, a, narrow(arr, a), w)]
  BY <1>3, <1>4
<1> HIDE DEF n
<1>6. \A w \in EndsOf(n) : narrow(arr, a)[w] = Narrowed(arr, a, narrow(arr, a), w)
  BY <1>5
<1> QED
  BY <1>6 DEF n

\* "Invariant: data[first].addr <= val < data[last].addr" (leakdetect.c): it holds
\* at the end of the loop, between a block and the next one.
Brackets(arr, a, first, last) ==
  ~ Below(a, arr[first + 1]) /\ Below(a, arr[last + 1])

LEMMA NarrowBrackets ==
  ASSUME NEW arr, Len(arr) \in Nat, NEW a,
         NEW first \in 0 .. Len(arr), NEW last \in 0 .. Len(arr),
         first < last, Brackets(arr, a, first, last)
  PROVE  LET found == narrow(arr, a)[<<first, last>>]
         IN found \in first .. (last - 1) /\ Brackets(arr, a, found, found + 1)
<1> DEFINE n == Len(arr)
           f == narrow(arr, a)
           Good(i, j) == f[<<i, j>>] \in i .. (j - 1) /\ Brackets(arr, a, f[<<i, j>>], f[<<i, j>>] + 1)
           Bad(i, j) == i < j /\ Brackets(arr, a, i, j) /\ ~Good(i, j)
           T == {m \in Nat : \E i, j \in 0 .. n : j - i = m /\ Bad(i, j)}
<1>1. n \in Nat
  OBVIOUS
<1>2. ASSUME NEW i \in 0 .. n, NEW j \in 0 .. n
      PROVE  f[<<i, j>>] =
               IF i >= j - 1 THEN i
               ELSE IF Below(a, arr[(i + j) \div 2 + 1]) THEN f[<<i, (i + j) \div 2>>]
               ELSE f[<<(i + j) \div 2, j>>]
  <2>1. <<i, j>> \in EndsOf(n)
    BY DEF EndsOf
  <2>2. f[<<i, j>>] = Narrowed(arr, a, f, <<i, j>>)
    BY <2>1, NarrowDefined
  <2> QED
    BY <2>2 DEF Narrowed
<1> HIDE DEF f, n
<1>3. T = {}
  <2> SUFFICES ASSUME T # {} PROVE FALSE
    OBVIOUS
  <2>1. PICK m \in T : \A k \in T : m <= k
    <3>1. T \in SUBSET Nat
      OBVIOUS
    <3> QED
      BY <3>1, Least
  <2>2. PICK i \in 0 .. n, j \in 0 .. n : j - i = m /\ Bad(i, j)
    BY <2>1
  <2>3. i \in Nat /\ j \in Nat /\ m \in Nat /\ i < j
    BY <1>1, <2>2
  <2>4. CASE i >= j - 1
    <3>1. f[<<i, j>>] = i
      BY <1>2, <2>2, <2>4
    <3>2. j = i + 1
      BY <2>3, <2>4
    <3> QED
      BY <2>2, <2>3, <3>1, <3>2
  <2>5. CASE ~(i >= j - 1)
    <3> DEFINE middle == (i + j) \div 2
    <3>1. middle \in 0 .. n /\ i < middle /\ middle < j
      BY <1>1, <2>2, <2>3, <2>5
    <3>2. f[<<i, j>>] = IF Below(a, arr[middle + 1]) THEN f[<<i, middle>>] ELSE f[<<middle, j>>]
      BY <1>2, <2>5
    <3> HIDE DEF middle
    <3>3. middle - i \in Nat /\ middle - i < m /\ j - middle \in Nat /\ j - middle < m
      BY <2>2, <2>3, <3>1
    <3>4. middle - i \notin T /\ j - middle \notin T
      <4> HIDE DEF T
      <4> QED
        BY <2>1, <2>3, <3>3
    <3>5. ~Bad(i, middle) /\ ~Bad(middle, j)
      <4> HIDE DEF Bad
      <4> QED
        BY <2>2, <3>1, <3>3, <3>4
    <3>6. Brackets(arr, a, i, j) /\ ~Good(i, j)
      BY <2>2
    <3>7. CASE Below(a, arr[middle + 1])
      <4>1. Brackets(arr, a, i, middle) /\ f[<<i, j>>] = f[<<i, middle>>]
        BY <3>2, <3>6, <3>7 DEF Brackets
      <4>2. Good(i, middle)
        BY <3>1, <3>5, <4>1
      <4> QED
        BY <2>3, <3>1, <3>6, <4>1, <4>2
    <3>8. CASE ~Below(a, arr[middle + 1])
      <4>1. Brackets(arr, a, middle, j) /\ f[<<i, j>>] = f[<<middle, j>>]
        BY <3>2, <3>6, <3>8 DEF Brackets
      <4>2. Good(middle, j)
        BY <3>1, <3>5, <4>1
      <4> QED
        BY <2>3, <3>1, <3>6, <4>1, <4>2
    <3> QED
      BY <3>7, <3>8
  <2> QED
    BY <2>4, <2>5
<1>4. last - first \in Nat /\ first \in 0 .. n /\ last \in 0 .. n
  BY <1>1 DEF n
<1>5. ~Bad(first, last)
  <2> HIDE DEF Bad
  <2> QED
    BY <1>3, <1>4
<1>6. Good(first, last)
  BY <1>5
<1> QED
  BY <1>6 DEF f

\* A sequence in Sorted(S) holds the blocks of S, in the order of their addresses.
LEMMA SortedHolds ==
  ASSUME NEW S \in SUBSET Heap, NEW s \in Sorted(S)
  PROVE  /\ s \in Seq(S) /\ {s[i] : i \in DOMAIN s} = S
         /\ \A i, j \in DOMAIN s : i < j => s[i].addr <= s[j].addr
<1> DEFINE n == Cardinality(S)
<1>1. IsFiniteSet(S)
  BY LeakAssumption, FS_Subset
<1>2. n \in Nat /\ IsFiniteSet(1 .. n) /\ Cardinality(1 .. n) = n
  BY <1>1, FS_CardinalityType, FS_Interval
<1>3. s \in [1 .. n -> S] /\ \A i, j \in 1 .. n : i # j => s[i] # s[j]
  BY DEF Sorted, SetToSeqs
<1>4. s \in Injection(1 .. n, S)
  BY <1>3 DEF Injection, IsInjective
<1> HIDE DEF n
<1>5. s \in Surjection(1 .. n, S)
  BY <1>1, <1>2, <1>4, FS_Injection DEF n
<1>6. \A b \in S : \E i \in 1 .. n : s[i] = b
  BY <1>5 DEF Surjection
<1>7. s \in Seq(S) /\ DOMAIN s = 1 .. n
  BY <1>2, <1>3
<1>8. \A b \in S : b.addr \in Nat
  BY LeakAssumption
<1>9. \A i, j \in DOMAIN s : i < j => ~compare_blocks(s[j], s[i])
  BY DEF Sorted
<1> QED
  BY <1>3, <1>6, <1>7, <1>8, <1>9 DEF compare_blocks

LEMMA Listed ==
  ASSUME NEW S, IsFiniteSet(S)
  PROVE  SetToSeq(S) \in Seq(S) /\ {SetToSeq(S)[i] : i \in DOMAIN SetToSeq(S)} = S
<1> DEFINE n == Cardinality(S)
           s == SetToSeq(S)
<1>1. n \in Nat /\ IsFiniteSet(1 .. n) /\ Cardinality(1 .. n) = n
  BY FS_CardinalityType, FS_Interval
<1>2. \E f \in [1 .. n -> S] : IsInjective(f)
  BY FS_CardinalityType DEF ExistsBijection, Bijection, Injection
<1> HIDE DEF n
<1>3. s \in [1 .. n -> S] /\ IsInjective(s)
  BY <1>2 DEF SetToSeq, n
<1> HIDE DEF s
<1>4. s \in Injection(1 .. n, S)
  BY <1>3 DEF Injection
<1>5. s \in Surjection(1 .. n, S)
  BY <1>1, <1>4, FS_Injection DEF n
<1>6. s \in Seq(S) /\ {s[i] : i \in DOMAIN s} = S
  BY <1>1, <1>3, <1>5 DEF Surjection
<1> QED
  BY <1>6 DEF s

\* What find_block returns is a block of the array, the one before the next block
\* that begins above a.
LEMMA FoundIs ==
  ASSUME NEW arr, Len(arr) \in Nat, NEW a
  PROVE  \/ /\ find_block(arr, a) = {}
            /\ Len(arr) = 0 \/ Below(a, arr[1])
         \/ \E k \in 1 .. Len(arr) :
              /\ find_block(arr, a) = {b \in {arr[k]} : a < b.addr + b.size}
              /\ ~ Below(a, arr[k])
              /\ k < Len(arr) => Below(a, arr[k + 1])
<1> DEFINE n == Len(arr)
           found == IF Below(a, arr[n]) THEN narrow(arr, a)[<<0, n - 1>>] ELSE n - 1
<1>1. CASE n = 0 \/ Below(a, arr[1])
  BY <1>1 DEF find_block
<1>2. CASE ~(n = 0 \/ Below(a, arr[1]))
  <2>1. find_block(arr, a) = {b \in {arr[found + 1]} : a < b.addr + b.size}
    BY <1>2 DEF find_block
  <2>2. CASE ~Below(a, arr[n])
    <3>1. found + 1 = n /\ n \in 1 .. n
      BY <1>2, <2>2
    <3> QED
      BY <2>1, <2>2, <3>1
  <2>3. CASE Below(a, arr[n])
    <3>1. 0 \in 0 .. n /\ n - 1 \in 0 .. n /\ 0 < n - 1 /\ 0 + 1 = 1 /\ n - 1 + 1 = n
      <4>1. n # 1
        BY <1>2, <2>3
      <4> QED
        BY <1>2, <4>1
    <3>2. Brackets(arr, a, 0, n - 1)
      BY <1>2, <2>3, <3>1 DEF Brackets
    <3>3. found = narrow(arr, a)[<<0, n - 1>>]
      BY <2>3
    <3> HIDE DEF found
    <3>4. found \in 0 .. (n - 2) /\ Brackets(arr, a, found, found + 1)
      <4>1. found \in 0 .. (n - 1 - 1) /\ Brackets(arr, a, found, found + 1)
        BY <3>1, <3>2, <3>3, NarrowBrackets
      <4> QED
        BY <4>1
    <3>5. found + 1 \in 1 .. n /\ (found + 1) + 1 = found + 2
      BY <3>4
    <3> QED
      BY <2>1, <3>4, <3>5 DEF Brackets
  <2> QED
    BY <2>2, <2>3
<1> QED
  BY <1>1, <1>2

\* Binary search over the sorted table answers the block that holds an address,
\* and none for an address that no block holds (leakdetect.c, find_block).
THEOREM FindBlockFinds ==
  ASSUME NEW S \in SUBSET Heap, NEW arr \in Sorted(S), NEW a \in Int
  PROVE  find_block(arr, a) = {b \in S : b.addr <= a /\ a < b.addr + b.size}
<1>1. /\ arr \in Seq(S) /\ {arr[i] : i \in DOMAIN arr} = S
      /\ \A i, j \in DOMAIN arr : i < j => arr[i].addr <= arr[j].addr
  BY SortedHolds
<1>2. Len(arr) \in Nat /\ DOMAIN arr = 1 .. Len(arr)
  BY <1>1
<1>3. \A b \in S : b.addr \in Nat /\ b.size \in Nat
  BY LeakAssumption
<1>4. \A b, c \in S : b # c => /\ b.addr # c.addr
                               /\ b.addr + b.size <= c.addr \/ c.addr + c.size <= b.addr
  BY LeakAssumption
<1>5. \A i \in 1 .. Len(arr) : arr[i] \in S
  BY <1>1, <1>2
<1>6. \A b \in S : \E i \in 1 .. Len(arr) : arr[i] = b
  BY <1>1, <1>2
<1>7. CASE find_block(arr, a) = {} /\ (Len(arr) = 0 \/ Below(a, arr[1]))
  <2>1. ASSUME NEW b \in S, b.addr <= a PROVE FALSE
    <3>1. PICK i \in 1 .. Len(arr) : arr[i] = b
      BY <1>6
    <3>2. 1 \in DOMAIN arr /\ i \in DOMAIN arr /\ Below(a, arr[1]) /\ arr[1] \in S
      BY <1>2, <1>5, <1>7, <3>1
    <3>3. arr[1].addr <= b.addr
      <4>1. CASE i = 1
        BY <1>3, <3>1, <4>1
      <4>2. CASE i # 1
        BY <1>1, <1>2, <3>1, <3>2, <4>2
      <4> QED
        BY <4>1, <4>2
    <3> QED
      BY <1>3, <2>1, <3>2, <3>3 DEF Below
  <2> QED
    BY <1>7, <2>1
<1>8. ASSUME NEW k \in 1 .. Len(arr), ~ Below(a, arr[k]),
             k < Len(arr) => Below(a, arr[k + 1]),
             find_block(arr, a) = {b \in {arr[k]} : a < b.addr + b.size}
      PROVE  find_block(arr, a) = {b \in S : b.addr <= a /\ a < b.addr + b.size}
  <2>1. arr[k] \in S /\ arr[k].addr <= a
    BY <1>3, <1>5, <1>8 DEF Below
  <2>2. ASSUME NEW b \in S, b.addr <= a, a < b.addr + b.size, b # arr[k] PROVE FALSE
    <3>1. PICK i \in 1 .. Len(arr) : arr[i] = b
      BY <1>6
    <3>2. CASE i < k
      <4>1. b.addr <= arr[k].addr
        BY <1>1, <1>2, <3>1, <3>2
      <4> QED
        BY <1>3, <1>4, <2>1, <2>2, <4>1
    <3>3. CASE k < i
      <4>1. k + 1 \in 1 .. Len(arr) /\ k < Len(arr) /\ arr[k + 1] \in S
        BY <1>2, <1>5, <3>3
      <4>2. arr[k + 1].addr <= b.addr
        <5>1. CASE i = k + 1
          BY <1>3, <3>1, <5>1
        <5>2. CASE i # k + 1
          BY <1>1, <1>2, <3>1, <3>3, <4>1, <5>2
        <5> QED
          BY <5>1, <5>2
      <4> QED
        BY <1>3, <1>8, <2>2, <4>1, <4>2 DEF Below
    <3>4. i # k
      BY <2>2, <3>1
    <3> QED
      BY <3>2, <3>3, <3>4
  <2> QED
    BY <1>8, <2>1, <2>2
<1> QED
  BY <1>2, <1>7, <1>8, FoundIs

-----------------------------------------------------------------------------
(* The inductive invariants.                                               *)

\* Each of the places that hold a block holds a reference to it; those that
\* prepare_block took are held by the search.
Counts(b, S) == IF b \in S THEN 1 ELSE 0
HeldBySearch == IF at = "scan" THEN table ELSE {}

Counted ==
  \A b \in Heap :
    refcount[b] >= Counts(b, table) + Counts(b, leaks) + Counts(b, HeldBySearch)

\* While a search goes on the window shows no report, and the sorted blocks
\* are those of the table.
InSearch ==
  /\ at \in {"stop", "wait", "prepare", "scan"} => leaks = {}
  /\ at = "scan" => {block_arr[i] : i \in DOMAIN block_arr} = table

\* A clone that leaks_find has got through with does not run.
Stilled ==
  /\ at = "wait" => todo # <<>>
  /\ at \in {"stop", "wait"} =>
       \A q \in clones : q \in Range(todo) \/ ps[q] # "running"
  /\ at \in {"prepare", "scan", "resume"} => \A q \in clones : ps[q] # "running"

\* Nothing needs to be assumed for these.
SearchInv == LeakTypeOK /\ Counted /\ InSearch /\ Stilled

\* A process that is killed is killed as a whole, and nothing is pending for it.
DiesWhole ==
  /\ \A q \in Threads : Live(q) <=> Live(Root)
  /\ ~Live(Root) => ~traced /\ sigstop = {}

\* During a search all threads are clones and the process is traced; otherwise
\* none is stopped or about to be stopped.
StoppedInSearch ==
  /\ at \in {"stop", "wait", "prepare", "scan", "resume"} =>
       clones = Threads /\ (Live(Root) => traced)
  /\ at = "idle" => ProgramResumed

ProgramInv == DiesWhole /\ StoppedInSearch

-----------------------------------------------------------------------------
(* Types.                                                                  *)

\* What a search finds is in the array it searches.
LEMMA FoundInHeap ==
  ASSUME NEW arr \in Seq(Heap), NEW a
  PROVE  find_block(arr, a) \subseteq Heap
<1>1. Len(arr) \in Nat /\ \A k \in 1 .. Len(arr) : arr[k] \in Heap
  OBVIOUS
<1> QED
  BY <1>1, FoundIs

\* What is held can be let go.
LEMMA Spare ==
  ASSUME LeakTypeOK, Counted, NEW b \in table \cup leaks
  PROVE  refcount[b] - 1 \in Nat
<1>1. b \in Heap /\ refcount[b] \in Nat
  BY DEF LeakTypeOK
<1>2. refcount[b] >= Counts(b, table) + Counts(b, leaks) + Counts(b, HeldBySearch)
  BY <1>1 DEF Counted
<1>3. Counts(b, table) + Counts(b, leaks) + Counts(b, HeldBySearch) >= 1
  BY DEF Counts
<1> QED
  BY <1>1, <1>2, <1>3 DEF Counts

LEMMA TypeStep ==
  SearchInv /\ [LeakNext]_leakVars => LeakTypeOK'
<1> SUFFICES ASSUME SearchInv, [LeakNext]_leakVars PROVE LeakTypeOK'
  OBVIOUS
<1> USE DEF Places, searchVars, blockVars, kernelVars, memVars
<1>0. LeakTypeOK /\ Counted /\ InSearch
  BY DEF SearchInv
<1>1. CASE OpenMem
  BY <1>0, <1>1 DEF LeakTypeOK, OpenMem
<1>2. CASE OpenFails
  BY <1>0, <1>2 DEF LeakTypeOK, OpenFails
<1>3. CASE Prepare
  <2>1. table \in SUBSET Heap
    BY <1>0 DEF LeakTypeOK
  <2>2. block_arr' \in Seq(table)
    BY <1>3, <2>1, SortedHolds DEF Prepare
  <2>3. block_arr' \in Seq(Heap)
    BY <2>1, <2>2
  <2>4. \A b \in Heap : (IF b \in table THEN prepare_block(b) ELSE refcount[b]) \in Nat
    BY <1>0 DEF LeakTypeOK, prepare_block
  <2>5. refcount' \in [Heap -> Nat]
    BY <1>3, <2>4 DEF Prepare
  <2> QED
    BY <1>0, <1>3, <2>3, <2>5 DEF LeakTypeOK, Prepare
<1>4. CASE PrepareDead
  BY <1>0, <1>4 DEF LeakTypeOK, PrepareDead
<1>5. CASE Scan
  <2>1. scan_block(Head(block_list)) \subseteq Heap
    <3>1. \A a : find_block(block_arr, mem[a]) \subseteq Heap
      BY <1>0, FoundInHeap DEF LeakTypeOK
    <3> QED
      BY <3>1 DEF scan_block
  <2>2. marked' \subseteq Heap
    BY <1>0, <1>5, <2>1 DEF Scan, LeakTypeOK
  <2> QED
    BY <1>0, <1>5, <2>2 DEF LeakTypeOK, Scan
<1>6. CASE Collect
  <2> DEFINE arr == {block_arr[i] : i \in DOMAIN block_arr}
  <2>1. arr = table
    BY <1>0, <1>6 DEF InSearch, Collect
  <2>2. \A b \in Heap : (IF b \in arr \cap marked THEN refcount[b] - 1 ELSE refcount[b]) \in Nat
    BY <1>0, <2>1, Spare DEF LeakTypeOK
  <2>3. refcount' \in [Heap -> Nat] /\ leaks' \subseteq Heap
    BY <1>0, <1>6, <2>1, <2>2 DEF LeakTypeOK, Collect
  <2> QED
    BY <1>0, <1>6, <2>3 DEF LeakTypeOK, Collect
<1>7. CASE Resume
  <2>1. ps' \in [Threads -> {"running", "stopped", "gone", "zombie"}]
    BY <1>0, <1>7 DEF LeakTypeOK, Resume
  <2> QED
    BY <1>0, <1>7, <2>1 DEF LeakTypeOK, Resume
<1>8. CASE kill_SIGSTOP
  <2>1. Head(todo) \in Threads
    BY <1>0, <1>8 DEF LeakTypeOK, kill_SIGSTOP
  <2> QED
    BY <1>0, <1>8, <2>1 DEF LeakTypeOK, kill_SIGSTOP
<1>9. CASE Waited
  <2>1. todo' \in Seq(Threads)
    BY <1>0, <1>9 DEF LeakTypeOK, Waited, SearchInv, Stilled
  <2> QED
    BY <1>0, <1>9, <2>1 DEF LeakTypeOK, Waited
<1>10. CASE generate_leak_cb
  <2>1. clones' \subseteq Threads /\ todo' = SetToSeq(clones') /\ Root \in Threads
    BY <1>10, LeakAssumption DEF generate_leak_cb
  <2>2. todo' \in Seq(Threads)
    <3>1. IsFiniteSet(clones')
      BY <2>1, LeakAssumption, FS_Subset
    <3>2. todo' \in Seq(clones')
      BY <2>1, <3>1, Listed
    <3> QED
      BY <2>1, <3>2
  <2>3. refcount' \in [Heap -> Nat]
    BY <1>0, <1>10, Spare DEF LeakTypeOK, generate_leak_cb
  <2>4. sigstop' \subseteq Threads /\ traced' \in BOOLEAN
    BY <1>0, <1>10, <2>1 DEF LeakTypeOK, generate_leak_cb, Live
  <2> QED
    BY <1>0, <1>10, <2>1, <2>2, <2>3, <2>4 DEF LeakTypeOK, generate_leak_cb
<1>11. CASE Reset
  <2>1. refcount' \in [Heap -> Nat]
    BY <1>0, <1>11, Spare DEF LeakTypeOK, Reset
  <2> QED
    BY <1>0, <1>11, <2>1 DEF LeakTypeOK, Reset
<1>12. ASSUME NEW b \in Heap, Freed(b) PROVE LeakTypeOK'
  <2>1. refcount' \in [Heap -> Nat]
    BY <1>0, <1>12, Spare DEF LeakTypeOK, Freed, block_unref
  <2> QED
    BY <1>0, <1>12, <2>1 DEF LeakTypeOK, Freed
<1>13. CASE Store
  <2>1. mem' \in [Readable -> Pointers]
    BY <1>0, <1>13 DEF LeakTypeOK, Store
  <2> QED
    BY <1>0, <1>13, <2>1 DEF LeakTypeOK, Store
<1>14. CASE Die
  <2>1. ps' \in [Threads -> {"running", "stopped", "gone", "zombie"}]
    BY <1>14 DEF Die
  <2> QED
    BY <1>0, <1>14, <2>1 DEF LeakTypeOK, Die
<1>15. ASSUME NEW q \in Threads, Stops(q) PROVE LeakTypeOK'
  BY <1>0, <1>15 DEF LeakTypeOK, Stops
<1>16. CASE UNCHANGED leakVars
  BY <1>0, <1>16 DEF LeakTypeOK, leakVars
<1> QED
  BY <1>1, <1>2, <1>3, <1>4, <1>5, <1>6, <1>7, <1>8, <1>9, <1>10, <1>11, <1>12, <1>13,
     <1>14, <1>15, <1>16 DEF LeakNext, MemprofStep

-----------------------------------------------------------------------------
(* Counting.                                                               *)

\* Steps that leave the references and what holds them alone.
LEMMA StillCounted ==
  ASSUME LeakTypeOK, Counted, UNCHANGED <<table, refcount>>, leaks' \subseteq leaks,
         at' # "scan" \/ at = "scan"
  PROVE  Counted'
BY DEF LeakTypeOK, Counted, Counts, HeldBySearch

LEMMA CountedStep ==
  SearchInv /\ [LeakNext]_leakVars => Counted'
<1> SUFFICES ASSUME SearchInv, [LeakNext]_leakVars PROVE Counted'
  OBVIOUS
<1> USE DEF blockVars, searchVars
<1>0. LeakTypeOK /\ Counted /\ InSearch
  BY DEF SearchInv
<1>1. CASE OpenMem
  BY <1>0, <1>1, StillCounted DEF OpenMem
<1>2. CASE OpenFails
  BY <1>0, <1>2, StillCounted DEF OpenFails
<1>3. CASE Prepare
  BY <1>0, <1>3 DEF Prepare, prepare_block, Counted, Counts, HeldBySearch, LeakTypeOK
<1>4. CASE PrepareDead
  BY <1>0, <1>4, StillCounted DEF PrepareDead
<1>5. CASE Scan
  BY <1>0, <1>5, StillCounted DEF Scan
<1>6. CASE Collect
  <2>1. /\ leaks = {} /\ leaks' = table \ marked /\ table' = table /\ at' # "scan"
        /\ refcount' = [b \in Heap |-> IF b \in table \cap marked THEN refcount[b] - 1
                                                                  ELSE refcount[b]]
    BY <1>0, <1>6 DEF Collect, InSearch
  <2>2. HeldBySearch = table /\ HeldBySearch' = {}
    BY <1>6, <2>1 DEF HeldBySearch, Collect
  <2>3. \A b \in Heap : refcount[b] \in Nat
    BY <1>0 DEF LeakTypeOK
  <2> QED
    BY <1>0, <2>1, <2>2, <2>3 DEF Counted, Counts
<1>7. CASE Resume
  BY <1>0, <1>7, StillCounted DEF Resume
<1>8. CASE kill_SIGSTOP
  BY <1>0, <1>8, StillCounted DEF kill_SIGSTOP
<1>9. CASE Waited
  BY <1>0, <1>9, StillCounted DEF Waited
<1>10. CASE generate_leak_cb
  BY <1>0, <1>10 DEF generate_leak_cb, Counted, Counts, HeldBySearch, LeakTypeOK
<1>11. CASE Reset
  BY <1>0, <1>11 DEF Reset, Counted, Counts, HeldBySearch, LeakTypeOK
<1>12. ASSUME NEW b \in Heap, Freed(b) PROVE Counted'
  BY <1>0, <1>12 DEF Freed, block_unref, Counted, Counts, HeldBySearch, LeakTypeOK
<1>13. CASE Store
  BY <1>0, <1>13, StillCounted DEF Store
<1>14. CASE Die
  BY <1>0, <1>14, StillCounted DEF Die
<1>15. ASSUME NEW q \in Threads, Stops(q) PROVE Counted'
  BY <1>0, <1>15, StillCounted DEF Stops
<1>16. CASE UNCHANGED leakVars
  BY <1>0, <1>16, StillCounted DEF leakVars
<1> QED
  BY <1>1, <1>2, <1>3, <1>4, <1>5, <1>6, <1>7, <1>8, <1>9, <1>10, <1>11, <1>12, <1>13,
     <1>14, <1>15, <1>16 DEF LeakNext, MemprofStep

LEMMA InSearchStep ==
  SearchInv /\ [LeakNext]_leakVars => InSearch'
<1> SUFFICES ASSUME SearchInv, [LeakNext]_leakVars PROVE InSearch'
  OBVIOUS
<1> USE DEF InSearch, blockVars, searchVars
<1>0. LeakTypeOK /\ InSearch
  BY DEF SearchInv
<1>1. CASE OpenMem
  BY <1>0, <1>1 DEF OpenMem
<1>2. CASE OpenFails
  BY <1>2 DEF OpenFails
<1>3. CASE Prepare
  <2>1. table \in SUBSET Heap /\ leaks = {} /\ leaks' = leaks /\ table' = table /\ at' = "scan"
    BY <1>0, <1>3 DEF Prepare, LeakTypeOK
  <2>2. block_arr' \in Sorted(table)
    BY <1>3 DEF Prepare
  <2>3. {block_arr'[i] : i \in DOMAIN block_arr'} = table
    BY <2>1, <2>2, SortedHolds
  <2> QED
    BY <2>1, <2>3
<1>4. CASE PrepareDead
  BY <1>4 DEF PrepareDead
<1>5. CASE Scan
  BY <1>0, <1>5 DEF Scan
<1>6. CASE Collect
  BY <1>6 DEF Collect
<1>7. CASE Resume
  BY <1>7 DEF Resume
<1>8. CASE kill_SIGSTOP
  BY <1>0, <1>8 DEF kill_SIGSTOP
<1>9. CASE Waited
  BY <1>0, <1>9 DEF Waited
<1>10. CASE generate_leak_cb
  BY <1>10 DEF generate_leak_cb
<1>11. CASE Reset
  BY <1>11 DEF Reset
<1>12. ASSUME NEW b \in Heap, Freed(b) PROVE InSearch'
  BY <1>12 DEF Freed
<1>13. CASE Store
  BY <1>0, <1>13 DEF Store
<1>14. CASE Die
  BY <1>0, <1>14 DEF Die
<1>15. ASSUME NEW q \in Threads, Stops(q) PROVE InSearch'
  BY <1>0, <1>15 DEF Stops
<1>16. CASE UNCHANGED leakVars
  BY <1>0, <1>16 DEF leakVars
<1> QED
  BY <1>1, <1>2, <1>3, <1>4, <1>5, <1>6, <1>7, <1>8, <1>9, <1>10, <1>11, <1>12, <1>13,
     <1>14, <1>15, <1>16 DEF LeakNext, MemprofStep

-----------------------------------------------------------------------------
(* Stopping.                                                               *)

LEMMA HeadOrTail ==
  ASSUME NEW s \in Seq(Threads), s # <<>>, NEW q \in Range(s)
  PROVE  q = Head(s) \/ q \in Range(Tail(s))
<1>1. PICK i \in 1 .. Len(s) : s[i] = q
  BY DEF Range
<1>2. CASE i = 1
  BY <1>1, <1>2
<1>3. CASE i # 1
  <2>1. i - 1 \in DOMAIN Tail(s) /\ Tail(s)[i - 1] = q
    BY <1>1, <1>3
  <2> QED
    BY <2>1 DEF Range
<1> QED
  BY <1>2, <1>3

\* Steps that let no thread run, and take none from the clones still to be stopped.
LEMMA StillStilled ==
  ASSUME Stilled, UNCHANGED <<at, todo, clones>>,
         \A q \in clones : ps[q] # "running" => ps'[q] # "running"
  PROVE  Stilled'
BY DEF Stilled

LEMMA StilledStep ==
  SearchInv /\ [LeakNext]_leakVars => Stilled'
<1> SUFFICES ASSUME SearchInv, [LeakNext]_leakVars PROVE Stilled'
  OBVIOUS
<1> USE DEF kernelVars, searchVars
<1>0. LeakTypeOK /\ Stilled
  BY DEF SearchInv
<1>1. CASE OpenMem
  <2>1. \A q \in clones : ps[q] # "running"
    BY <1>0, <1>1 DEF OpenMem, Stilled, Range
  <2> QED
    BY <1>1, <2>1 DEF OpenMem, Stilled
<1>2. CASE OpenFails
  BY <1>2 DEF OpenFails, Stilled
<1>3. CASE Prepare
  BY <1>0, <1>3 DEF Prepare, Stilled
<1>4. CASE PrepareDead
  BY <1>4 DEF PrepareDead, Stilled
<1>5. CASE Scan
  BY <1>0, <1>5, StillStilled DEF Scan
<1>6. CASE Collect
  BY <1>0, <1>6 DEF Collect, Stilled
<1>7. CASE Resume
  BY <1>7 DEF Resume, Stilled
<1>8. CASE kill_SIGSTOP
  BY <1>0, <1>8 DEF kill_SIGSTOP, Stilled
<1>9. CASE Waited
  <2>1. /\ at' = "stop" /\ clones' = clones /\ ps' = ps /\ todo' = Tail(todo)
        /\ todo # <<>> /\ todo \in Seq(Threads) /\ ps[Head(todo)] # "running"
        /\ \A q \in clones : q \in Range(todo) \/ ps[q] # "running"
    BY <1>0, <1>9 DEF Waited, Stilled, IsStopped, LeakTypeOK
  <2>2. \A q \in clones : q \in Range(Tail(todo)) \/ ps[q] # "running"
    BY <2>1, HeadOrTail
  <2> QED
    BY <2>1, <2>2 DEF Stilled
<1>10. CASE generate_leak_cb
  <2>1. clones' \in SUBSET Threads /\ todo' = SetToSeq(clones') /\ at' = "stop"
    BY <1>10, LeakAssumption DEF generate_leak_cb
  <2>2. \A q \in clones' : q \in Range(todo')
    <3>1. IsFiniteSet(clones')
      BY <2>1, LeakAssumption, FS_Subset
    <3> QED
      BY <2>1, <3>1, Listed DEF Range
  <2> QED
    BY <2>1, <2>2 DEF Stilled
<1>11. CASE Reset
  BY <1>0, <1>11, StillStilled DEF Reset
<1>12. ASSUME NEW b \in Heap, Freed(b) PROVE Stilled'
  BY <1>0, <1>12, StillStilled DEF Freed
<1>13. CASE Store
  BY <1>0, <1>13, StillStilled DEF Store
<1>14. CASE Die
  <2>1. \A q \in Threads : ps'[q] # "running"
    BY <1>14 DEF Die
  <2>2. UNCHANGED <<at, todo, clones>> /\ clones \subseteq Threads
    BY <1>0, <1>14 DEF Die, LeakTypeOK
  <2> QED
    BY <1>0, <2>1, <2>2, StillStilled
<1>15. ASSUME NEW q \in Threads, Stops(q) PROVE Stilled'
  <2>1. \A p \in Threads : ps[p] # "running" => ps'[p] # "running"
    BY <1>0, <1>15 DEF Stops, LeakTypeOK
  <2>2. UNCHANGED <<at, todo, clones>> /\ clones \subseteq Threads
    BY <1>0, <1>15 DEF Stops, LeakTypeOK
  <2> QED
    BY <1>0, <2>1, <2>2, StillStilled
<1>16. CASE UNCHANGED leakVars
  BY <1>0, <1>16, StillStilled DEF leakVars
<1> QED
  BY <1>1, <1>2, <1>3, <1>4, <1>5, <1>6, <1>7, <1>8, <1>9, <1>10, <1>11, <1>12, <1>13,
     <1>14, <1>15, <1>16 DEF LeakNext, MemprofStep

LEMMA SearchInit ==
  LeakInit => SearchInv
<1> SUFFICES ASSUME LeakInit PROVE SearchInv
  OBVIOUS
<1>1. LeakTypeOK
  <2>1. <<>> \in Seq(Threads) /\ <<>> \in Seq(Heap)
    OBVIOUS
  <2>2. mem \in [Readable -> Pointers]
    BY LeakAssumption DEF LeakInit
  <2>3. refcount \in [Heap -> Nat] /\ ps \in [Threads -> {"running", "stopped", "gone", "zombie"}]
    BY DEF LeakInit
  <2> QED
    BY <2>1, <2>2, <2>3 DEF LeakInit, LeakTypeOK, Places
<1>2. Counted
  BY DEF LeakInit, Counted, Counts, HeldBySearch
<1>3. InSearch /\ Stilled
  BY DEF LeakInit, InSearch, Stilled
<1> QED
  BY <1>1, <1>2, <1>3 DEF SearchInv

LEMMA SearchStep ==
  SearchInv /\ [LeakNext]_leakVars => SearchInv'
BY TypeStep, CountedStep, InSearchStep, StilledStep DEF SearchInv

\* Whatever threads process_get_clones finds and whatever fails, the counts
\* cover what is held and the clones that were found are still.
THEOREM SearchKept == LeakSpec => []SearchInv
BY SearchInit, SearchStep, PTL DEF LeakSpec

-----------------------------------------------------------------------------
(* What is shown.                                                          *)

LEMMA HoldersCounted ==
  ASSUME NEW b, NEW S, NEW T
  PROVE  Cardinality({x \in {"table", "leaks"} : b \in (IF x = "table" THEN S ELSE T)})
           = Counts(b, S) + Counts(b, T)
<1> DEFINE H == {x \in {"table", "leaks"} : b \in (IF x = "table" THEN S ELSE T)}
<1>1. CASE b \in S /\ b \in T
  <2>1. H = {"table"} \cup {"leaks"}
    BY <1>1
  <2>2. IsFiniteSet({"table"}) /\ Cardinality({"table"}) = 1
    BY FS_Singleton
  <2>3. Cardinality({"table"} \cup {"leaks"}) = 2
    BY <2>2, FS_AddElement
  <2> QED
    BY <1>1, <2>1, <2>3 DEF Counts
<1>2. CASE b \in S /\ b \notin T
  <2>1. H = {"table"}
    BY <1>2
  <2>2. Cardinality(H) = 1
    BY <2>1, FS_Singleton
  <2> QED
    BY <1>2, <2>2 DEF Counts
<1>3. CASE b \notin S /\ b \in T
  <2>1. H = {"leaks"}
    BY <1>3
  <2>2. Cardinality(H) = 1
    BY <2>1, FS_Singleton
  <2> QED
    BY <1>3, <2>2 DEF Counts
<1>4. CASE b \notin S /\ b \notin T
  <2>1. H = {}
    BY <1>4
  <2> QED
    BY <1>4, <2>1, FS_EmptySet DEF Counts
<1> QED
  BY <1>1, <1>2, <1>3, <1>4

\* A block that is in the table or among the leaks on screen has not been freed
\* (block_unref in src/process.c, called by both).
THEOREM BlocksLive == LeakSpec => []ShownBlocksLive
<1>1. SearchInv => ShownBlocksLive
  <2> SUFFICES ASSUME SearchInv, NEW b \in Heap
               PROVE  refcount[b] >= Counts(b, table) + Counts(b, leaks)
    BY HoldersCounted DEF ShownBlocksLive
  <2>1. refcount[b] \in Nat /\ Counts(b, HeldBySearch) \in Nat
    BY DEF SearchInv, LeakTypeOK, Counts
  <2>2. refcount[b] >= Counts(b, table) + Counts(b, leaks) + Counts(b, HeldBySearch)
    BY DEF SearchInv, Counted
  <2> QED
    BY <2>1, <2>2 DEF Counts
<1> QED
  BY <1>1, SearchKept, PTL

-----------------------------------------------------------------------------
(* When every thread is found and memprof can open the memory it may read. *)

LEMMA DiesWholeStep ==
  LeakTypeOK /\ DiesWhole /\ [LeakNext]_leakVars => DiesWhole'
<1> SUFFICES ASSUME LeakTypeOK, DiesWhole, [LeakNext]_leakVars PROVE DiesWhole'
  OBVIOUS
<1> USE DEF kernelVars
<1>1. CASE UNCHANGED kernelVars
  BY <1>1 DEF DiesWhole, Live
<1>2. CASE Resume
  <2>1. \A q \in Threads : Live(q)' <=> Live(q)
    BY <1>2 DEF Resume, LeakTypeOK, Live
  <2> QED
    BY <1>2, <2>1, LeakAssumption DEF Resume, DiesWhole
<1>3. CASE kill_SIGSTOP
  <2>1. Head(todo) \in Threads
    BY <1>3 DEF LeakTypeOK, kill_SIGSTOP
  <2> QED
    BY <1>3, <2>1 DEF kill_SIGSTOP, DiesWhole, Live
<1>4. CASE generate_leak_cb
  BY <1>4 DEF generate_leak_cb, DiesWhole, Live
<1>5. CASE Die
  BY <1>5, LeakAssumption DEF Die, DiesWhole, Live
<1>6. ASSUME NEW q \in Threads, Stops(q) PROVE DiesWhole'
  <2>1. \A p \in Threads : Live(p)' <=> Live(p)
    BY <1>6 DEF Stops, LeakTypeOK, Live
  <2> QED
    BY <1>6, <2>1, LeakAssumption DEF Stops, DiesWhole
<1> QED
  BY <1>1, <1>2, <1>3, <1>4, <1>5, <1>6 DEF LeakNext, MemprofStep, leakVars, OpenMem, OpenFails,
     Prepare, PrepareDead, Scan, Collect, Waited, Reset, Freed, Store

\* Steps that change neither where the search is nor what it stopped.
LEMMA StillInSearch ==
  ASSUME StoppedInSearch, UNCHANGED <<at, clones, kernelVars>>
  PROVE  StoppedInSearch'
BY DEF StoppedInSearch, ProgramResumed, kernelVars, Live

LEMMA StoppedInSearchStep ==
  ASSUME Listings \subseteq {Threads}, "open" \notin Faults
  PROVE  SearchInv /\ ProgramInv /\ [LeakNext]_leakVars => StoppedInSearch'
<1> SUFFICES ASSUME SearchInv, ProgramInv, [LeakNext]_leakVars PROVE StoppedInSearch'
  OBVIOUS
<1> USE DEF kernelVars, searchVars
<1>0. LeakTypeOK /\ Stilled /\ DiesWhole /\ StoppedInSearch /\ Root \in Threads
  BY LeakAssumption DEF SearchInv, ProgramInv
<1>1. CASE OpenMem
  BY <1>0, <1>1 DEF OpenMem, StoppedInSearch, Live
<1>2. CASE OpenFails
  BY <1>0, <1>2 DEF OpenFails, StoppedInSearch, DiesWhole, ProgramResumed, Live
<1>3. CASE Prepare
  BY <1>0, <1>3 DEF Prepare, StoppedInSearch, Live
<1>4. CASE PrepareDead
  BY <1>4 DEF PrepareDead, StoppedInSearch
<1>5. CASE Scan
  BY <1>0, <1>5, StillInSearch DEF Scan
<1>6. CASE Collect
  BY <1>0, <1>6 DEF Collect, StoppedInSearch, Live
<1>7. CASE Resume
  <2>1. at = "resume" /\ clones = Threads /\ (Live(Root) => traced) /\ sigstop \subseteq Threads
    BY <1>0, <1>7 DEF Resume, StoppedInSearch, LeakTypeOK
  <2>2. traced <=> Live(Root)
    BY <1>0, <2>1 DEF DiesWhole
  <2>3. Live(Root) => ps[Root] = "stopped"
    BY <1>0, <2>1 DEF Stilled, Live
  <2>4. ps[Root] = "stopped" => Live(Root)
    BY DEF Live
  <2>5. traced' = FALSE /\ sigstop' = {} /\ at' = "idle"
    BY <1>7, <2>1, <2>2, <2>3 DEF Resume
  <2>6. \A q \in Threads : ps'[q] # "stopped"
    BY <1>0, <1>7, <2>1, <2>2, <2>3, <2>4 DEF Resume, LeakTypeOK
  <2> QED
    BY <2>5, <2>6 DEF StoppedInSearch, ProgramResumed
<1>8. CASE kill_SIGSTOP
  BY <1>0, <1>8 DEF kill_SIGSTOP, StoppedInSearch, Live
<1>9. CASE Waited
  BY <1>0, <1>9 DEF Waited, StoppedInSearch, Live
<1>10. CASE generate_leak_cb
  BY <1>10 DEF generate_leak_cb, StoppedInSearch, Live
<1>11. CASE Reset
  BY <1>0, <1>11, StillInSearch DEF Reset
<1>12. ASSUME NEW b \in Heap, Freed(b) PROVE StoppedInSearch'
  BY <1>0, <1>12, StillInSearch DEF Freed
<1>13. CASE Store
  BY <1>0, <1>13, StillInSearch DEF Store
<1>14. CASE Die
  <2>1. \A q \in Threads : ps'[q] \in {"gone", "zombie"}
    BY <1>14 DEF Die
  <2>2. ~Live(Root)' /\ UNCHANGED <<at, clones>> /\ traced' = FALSE /\ sigstop' = {}
    BY <1>0, <1>14, <2>1 DEF Die, Live
  <2> QED
    BY <1>0, <2>1, <2>2 DEF StoppedInSearch, ProgramResumed
<1>15. ASSUME NEW q \in Threads, Stops(q) PROVE StoppedInSearch'
  <2>1. at # "idle"
    BY <1>0, <1>15 DEF Stops, StoppedInSearch, ProgramResumed
  <2>2. Live(Root)' <=> Live(Root)
    BY <1>0, <1>15 DEF Stops, LeakTypeOK, Live
  <2> QED
    BY <1>0, <1>15, <2>1, <2>2 DEF Stops, StoppedInSearch
<1>16. CASE UNCHANGED leakVars
  BY <1>0, <1>16, StillInSearch DEF leakVars
<1> QED
  BY <1>1, <1>2, <1>3, <1>4, <1>5, <1>6, <1>7, <1>8, <1>9, <1>10, <1>11, <1>12, <1>13,
     <1>14, <1>15, <1>16 DEF LeakNext, MemprofStep

\* Memory is read only while the program is stopped, and when leaks_find is
\* over no thread is left stopped, about to be or traced: provided that
\* process_get_clones misses no thread (pid_table in src/server.c has the threads
\* whose clone message was received) and that memprof does not run out of
\* descriptors, since leaks_find returns without detaching when open fails.
THEOREM LeakKept ==
  ASSUME Listings \subseteq {Threads}, "open" \notin Faults
  PROVE  LeakSpec => []LeakInv
<1>1. LeakInit => ProgramInv
  BY LeakAssumption DEF LeakInit, ProgramInv, DiesWhole, StoppedInSearch, ProgramResumed, Live
<1>2. SearchInv /\ ProgramInv /\ [LeakNext]_leakVars => ProgramInv'
  BY DiesWholeStep, StoppedInSearchStep DEF SearchInv, ProgramInv
<1>3. SearchInv /\ ProgramInv => LeakInv
  <2> SUFFICES ASSUME SearchInv, ProgramInv PROVE LeakInv
    OBVIOUS
  <2>1. ScansStillMemory
    BY DEF SearchInv, ProgramInv, Stilled, StoppedInSearch, ScansStillMemory
  <2>2. ProgramResumed
    BY DEF ProgramInv, StoppedInSearch, ProgramResumed
  <2> QED
    BY <2>1, <2>2 DEF SearchInv, LeakInv
<1> QED
  BY <1>1, <1>2, <1>3, SearchKept, PTL DEF LeakSpec

-----------------------------------------------------------------------------
(* What is reported, when every thread is found and every block of the     *)
(* program can be read.                                                    *)

\* Where a word of b points, in the table.
Successors(b) == {c \in table : PointsTo(b, c)}

\* The words that are looked at in b are words of the stack.
OnStack(b) == b.addr = Esp /\ b.size \in 0 .. (StartStack - Esp)

\* What is still to be scanned is a root or was marked, what is marked can be
\* reached, and what is not to be scanned any more has had its successors marked.
Pending(b) == \E i \in DOMAIN block_list : block_list[i] = b

Marking ==
  /\ block_arr \in Sorted(table)
  /\ \A i \in DOMAIN block_list :
       block_list[i] \in Sections \cup marked \/ OnStack(block_list[i])
  /\ \A b \in Sections \cup marked : Pending(b) \/ Successors(b) \subseteq marked
  /\ marked \subseteq Reach(Sections \cup {StackBlock})

ReportInv ==
  /\ block_list \in Seq([addr : Nat, size : Nat])
  /\ at = "scan" /\ Live(Root) => Marking
  /\ LeaksBetween

LEMMA WordsScanned ==
  ASSUME NEW b, b.addr \in Nat, b.size \in Nat
  PROVE  WordsUsed(b) \subseteq WordsRead(b)
<1>1. (b.size \div 4) <= (b.size + 3) \div 4 /\ (b.size \div 8) <= (b.size + 3) \div 4
  OBVIOUS
<1>2. b.size \div WordSize <= (b.size + 3) \div 4
  <2>1. WordSize = 4 \/ WordSize = 8
    BY LeakAssumption
  <2> QED
    BY <1>1, <2>1
<1>3. b.size \div WordSize \in Int /\ (b.size + 3) \div 4 \in Int
  <2>1. WordSize = 4 \/ WordSize = 8
    BY LeakAssumption
  <2> QED
    BY <2>1
<1>4. \A i \in 0 .. (b.size \div WordSize - 1) : i \in 0 .. ((b.size + 3) \div 4 - 1)
  BY <1>2, <1>3
<1> QED
  BY <1>4 DEF WordsUsed, WordsRead

\* The part of the stack that is scanned, if any, is part of the stack.
LEMMA StackScanned ==
  ASSUME NEW b, OnStack(b)
  PROVE  WordsUsed(b) \subseteq WordsUsed(StackBlock)
<1>1. StartStack - Esp \in Nat /\ b.size \in Nat /\ b.size <= StartStack - Esp
  BY LeakAssumption DEF OnStack
<1>2. /\ b.size \div WordSize <= (StartStack - Esp) \div WordSize
      /\ b.size \div WordSize \in Int /\ (StartStack - Esp) \div WordSize \in Int
  <2> DEFINE m == StartStack - Esp
  <2>1. WordSize = 4 \/ WordSize = 8
    BY LeakAssumption
  <2>2. m \in Nat /\ b.size <= m
    BY <1>1
  <2> HIDE DEF m
  <2>3. (b.size \div 4) <= (m \div 4) /\ (b.size \div 8) <= (m \div 8)
    BY <1>1, <2>2
  <2>4. /\ b.size \div 4 \in Int /\ m \div 4 \in Int
        /\ b.size \div 8 \in Int /\ m \div 8 \in Int
    BY <1>1, <2>2
  <2>5. b.size \div WordSize <= m \div WordSize /\ b.size \div WordSize \in Int /\ m \div WordSize \in Int
    BY <2>1, <2>3, <2>4
  <2> QED
    BY <2>5 DEF m
<1>3. \A i \in 0 .. (b.size \div WordSize - 1) : i \in 0 .. ((StartStack - Esp) \div WordSize - 1)
  BY <1>2
<1>4. b.addr = Esp /\ StackBlock.addr = Esp /\ StackBlock.size = StartStack - Esp
  BY DEF OnStack, StackBlock
<1> QED
  BY <1>3, <1>4 DEF WordsUsed

\* The roots are finitely many: the sections, and parts of the stack.
LEMMA StackRooted ==
  ASSUME NEW q, NEW b \in StackRoots(q)
  PROVE  OnStack(b) /\ b \in [addr : Nat, size : Nat]
<1>1. PICK m \in read_stack_maps :
        /\ Esp >= m.addr /\ Esp < m.addr + m.size
        /\ b = [addr |-> Esp,
                size |-> IF StartStack > m.addr /\ StartStack < m.addr + m.size
                         THEN StartStack - Esp ELSE m.addr + m.size - Esp]
  BY DEF StackRoots
<1>2. m.addr \in Int /\ m.size \in Int
  <2>1. \A a \in Nat : HexAsDecimal(a) \in Int
    BY DEF HexAsDecimal
  <2> QED
    BY <2>1, LeakAssumption DEF read_stack_maps
<1>3. Esp \in Nat /\ StartStack \in Nat /\ Esp < StartStack
  BY LeakAssumption
<1>4. b.addr = Esp /\ b.size = IF StartStack > m.addr /\ StartStack < m.addr + m.size
                               THEN StartStack - Esp ELSE m.addr + m.size - Esp
  BY <1>1
<1>5. b.size \in 0 .. (StartStack - Esp)
  BY <1>1, <1>2, <1>3, <1>4
<1>6. b.size \in Nat
  BY <1>3, <1>5
<1> QED
  BY <1>1, <1>3, <1>4, <1>5, <1>6 DEF OnStack

LEMMA RootsFinite ==
  IsFiniteSet(RootBlocks)
<1>1. PICK l : read_stack_maps = {} \/ read_stack_maps = {l}
  BY DEF read_stack_maps
<1> DEFINE r(m) == [addr |-> Esp,
                    size |-> IF StartStack > m.addr /\ StartStack < m.addr + m.size
                             THEN StartStack - Esp ELSE m.addr + m.size - Esp]
<1>2. UNION {StackRoots(q) : q \in clones} \subseteq {r(l)}
  BY <1>1 DEF StackRoots
<1>3. IsFiniteSet({r(l)})
  BY FS_Singleton
<1>4. IsFiniteSet(UNION {StackRoots(q) : q \in clones})
  BY <1>2, <1>3, FS_Subset
<1> QED
  BY <1>4, LeakAssumption, FS_Union DEF RootBlocks

\* Reach is closed, and the least of the closed sets.
LEMMA ReachLeast ==
  ASSUME NEW S, NEW T \in SUBSET table,
         \A b \in S \cup T : Successors(b) \subseteq T
  PROVE  Reach(S) \subseteq T
BY DEF Reach, Successors

LEMMA ReachClosed ==
  ASSUME NEW S, NEW b \in S \cup Reach(S)
  PROVE  Successors(b) \subseteq Reach(S)
<1> SUFFICES ASSUME NEW c \in table, PointsTo(b, c),
                    NEW T \in SUBSET table,
                    \A e \in S \cup T : {d \in table : PointsTo(e, d)} \subseteq T
             PROVE  c \in T
  BY DEF Reach, Successors
<1>1. b \in S \cup T
  BY DEF Reach
<1> QED
  BY <1>1

\* A scan marks what the words of the block point to.
LEMMA ScanFinds ==
  ASSUME LeakTypeOK, Marking, ps[Root] = "stopped",
         NEW b, b.addr \in Nat, b.size \in Nat
  PROVE  /\ scan_block(b) \subseteq Successors(b)
         /\ WordsRead(b) \subseteq Readable => Successors(b) \subseteq marked \cup scan_block(b)
<1>1. CASE ~(WordsRead(b) \subseteq Readable)
  BY <1>1 DEF scan_block
<1>2. CASE WordsRead(b) \subseteq Readable
  <2>1. WordsUsed(b) \subseteq Readable
    BY <1>2, WordsScanned
  <2>2. \A a \in WordsUsed(b) :
          find_block(block_arr, mem[a]) = {c \in table : c.addr <= mem[a] /\ mem[a] < c.addr + c.size}
    <3>1. \A a \in WordsUsed(b) : mem[a] \in Int
      BY <2>1, LeakAssumption DEF LeakTypeOK
    <3>2. table \in SUBSET Heap /\ block_arr \in Sorted(table)
      BY DEF LeakTypeOK, Marking
    <3> QED
      BY <3>1, <3>2, FindBlockFinds
  <2> DEFINE pointed == UNION {find_block(block_arr, mem[a]) : a \in WordsUsed(b)}
  <2>3. scan_block(b) = pointed \ marked
    BY <1>2 DEF scan_block
  <2>4. pointed = Successors(b)
    BY <2>1, <2>2 DEF Successors, PointsTo
  <2> HIDE DEF pointed
  <2>5. scan_block(b) = Successors(b) \ marked
    BY <2>3, <2>4
  <2> QED
    BY <2>5
<1> QED
  BY <1>1, <1>2

AllListed ==
  at \in {"stop", "wait", "prepare", "scan", "resume"} => clones = Threads

LEMMA AllListedStep ==
  ASSUME Listings \subseteq {Threads}
  PROVE  AllListed /\ [LeakNext]_leakVars => AllListed'
BY DEF AllListed, LeakNext, MemprofStep, leakVars, searchVars, OpenMem, OpenFails, Prepare,
       PrepareDead, Scan, Collect, Resume, kill_SIGSTOP, Waited, generate_leak_cb, Reset, Freed,
       Store, Die, Stops

\* Steps that neither mark nor change what is marked or how it is reached.
LEMMA StillReported ==
  ASSUME ReportInv, UNCHANGED <<at, block_arr, marked, block_list, table, leaks, mem>>,
         Live(Root)' => Live(Root)
  PROVE  ReportInv'
<1>1. Searched' => Searched
  BY DEF Searched
<1>2. Reach(Sections)' = Reach(Sections)
      /\ Reach(Sections \cup {StackBlock})' = Reach(Sections \cup {StackBlock})
  BY DEF Reach, PointsTo
<1>3. LeaksBetween'
  BY <1>1, <1>2 DEF ReportInv, LeaksBetween
<1>4. Marking => Marking'
  <2>1. \A b : Successors(b)' = Successors(b)
    BY DEF Successors, PointsTo
  <2>2. \A b : Pending(b)' <=> Pending(b)
    BY DEF Pending
  <2> QED
    BY <1>2, <2>1, <2>2 DEF Marking
<1> QED
  BY <1>3, <1>4 DEF ReportInv

\* Steps to a place where nothing is claimed.
LEMMA NothingReported ==
  ASSUME ReportInv, at' \notin {"scan", "resume"}, UNCHANGED block_list
  PROVE  ReportInv'
BY DEF ReportInv, LeaksBetween, Searched

LEMMA InLarger ==
  ASSUME NEW A, NEW B, A \subseteq B, NEW s \in Seq(A)
  PROVE  s \in Seq(B)
OBVIOUS

LEMMA PrepareReports ==
  ASSUME SearchInv, ReportInv, Prepare
  PROVE  ReportInv'
<1>0. LeakTypeOK
  BY DEF SearchInv
<1>1. \A b \in RootBlocks : (b \in Sections \/ OnStack(b)) /\ b \in [addr : Nat, size : Nat]
  <2>1. \A b \in Sections : b \in [addr : Nat, size : Nat]
    BY LeakAssumption
  <2> QED
    BY <2>1, StackRooted DEF RootBlocks
<1>2. block_list' \in Seq(RootBlocks) /\ {block_list'[i] : i \in DOMAIN block_list'} = RootBlocks
  BY RootsFinite, Listed DEF Prepare
<1>3. block_list' \in Seq([addr : Nat, size : Nat])
  <2>1. RootBlocks \subseteq [addr : Nat, size : Nat]
    BY <1>1
  <2> QED
    BY <1>2, <2>1, InLarger
<1>4. marked' = {} /\ at' = "scan" /\ block_arr' \in Sorted(table') /\ table' = table
  BY DEF Prepare, blockVars
<1>5. \A b \in Sections : Pending(b)'
  <2>1. \A b \in Sections : b \in {block_list'[i] : i \in DOMAIN block_list'}
    BY <1>2 DEF RootBlocks
  <2> QED
    BY <2>1 DEF Pending
<1>6. \A i \in DOMAIN block_list' : block_list'[i] \in Sections \/ OnStack(block_list'[i])
  <2>1. \A i \in DOMAIN block_list' : block_list'[i] \in RootBlocks
    BY <1>2
  <2> QED
    BY <1>1, <2>1
<1>7. Marking'
  <2>1. \A i \in DOMAIN block_list' :
           block_list'[i] \in Sections \cup marked' \/ OnStack(block_list'[i])
    BY <1>6
  <2>2. \A b \in Sections \cup marked' : Pending(b)'
    BY <1>4, <1>5
  <2>3. marked' \subseteq Reach(Sections \cup {StackBlock})'
    BY <1>4
  <2>4. block_arr' \in Sorted(table)'
    BY <1>4 DEF Sorted
  <2> QED
    BY <2>1, <2>2, <2>3, <2>4 DEF Marking, OnStack
<1> QED
  BY <1>3, <1>4, <1>7 DEF ReportInv, LeaksBetween, Searched

\* What is scanned after a step: what was found and what was left.
LEMMA ListedNext ==
  ASSUME NEW B, NEW new \in SUBSET B, IsFiniteSet(new), NEW list \in Seq(B), list # <<>>
  PROVE  /\ SetToSeq(new) \o Tail(list) \in Seq(B)
         /\ Range(SetToSeq(new) \o Tail(list)) = new \cup Range(Tail(list))
         /\ Range(list) = {Head(list)} \cup Range(Tail(list))
<1> DEFINE s == SetToSeq(new)
           t == Tail(list)
           next == s \o t
<1>1. s \in Seq(B) /\ {s[i] : i \in DOMAIN s} = new
  <2>1. SetToSeq(new) \in Seq(new) /\ {SetToSeq(new)[i] : i \in DOMAIN SetToSeq(new)} = new
    BY Listed
  <2> QED
    BY <2>1
<1>2. t \in Seq(B) /\ Len(t) = Len(list) - 1 /\ \A i \in 1 .. Len(t) : t[i] = list[i + 1]
  OBVIOUS
<1>3. {list[i] : i \in DOMAIN list} = {Head(list)} \cup {t[i] : i \in DOMAIN t}
  <2>1. \A i \in 1 .. Len(list) : i = 1 \/ (i - 1 \in 1 .. Len(t) /\ t[i - 1] = list[i])
    BY <1>2
  <2>2. 1 \in DOMAIN list /\ Head(list) = list[1]
    OBVIOUS
  <2>3. \A i \in DOMAIN t : i + 1 \in DOMAIN list /\ t[i] = list[i + 1]
    BY <1>2
  <2> HIDE DEF t
  <2> QED
    BY <2>1, <2>2, <2>3
<1> HIDE DEF s, t
<1>4. next \in Seq(B) /\ Len(next) = Len(s) + Len(t)
  <2>1. s \in Seq(B) /\ t \in Seq(B)
    BY <1>1, <1>2
  <2> QED
    BY <2>1
<1>5. {next[i] : i \in DOMAIN next} = new \cup {t[i] : i \in DOMAIN t}
  <2>1. \A i \in DOMAIN next :
           \/ i \in DOMAIN s /\ next[i] = s[i]
           \/ i - Len(s) \in DOMAIN t /\ next[i] = t[i - Len(s)]
    BY <1>1, <1>2, <1>4
  <2>2. \A i \in DOMAIN s : i \in DOMAIN next /\ next[i] = s[i]
    BY <1>1, <1>2, <1>4
  <2>3. \A i \in DOMAIN t : i + Len(s) \in DOMAIN next /\ next[i + Len(s)] = t[i]
    BY <1>1, <1>2, <1>4
  <2>4. \A x : x \in {next[i] : i \in DOMAIN next} => x \in new \cup {t[i] : i \in DOMAIN t}
    BY <1>1, <2>1
  <2>5. \A x \in new : x \in {next[i] : i \in DOMAIN next}
    BY <1>1, <2>2
  <2>6. \A i \in DOMAIN t : t[i] \in {next[i_1] : i_1 \in DOMAIN next}
    BY <2>3
  <2> QED
    BY <2>4, <2>5, <2>6
<1> QED
  BY <1>3, <1>4, <1>5 DEF s, t, Range

LEMMA ScanReports ==
  ASSUME SearchInv, AllListed, ReportInv, Scan,
         \A b \in Heap \cup Sections : WordsRead(b) \subseteq Readable
  PROVE  ReportInv'
<1> DEFINE Blocks == [addr : Nat, size : Nat]
           b == Head(block_list)
           new == scan_block(b)
           rest == Range(Tail(block_list))
<1>0. LeakTypeOK /\ at = "scan" /\ at' = "scan" /\ block_list # <<>>
  BY DEF SearchInv, Scan
<1>1. /\ marked' = marked \cup new /\ block_list' = SetToSeq(new) \o Tail(block_list)
      /\ UNCHANGED <<block_arr, table, mem, ps>>
  BY DEF Scan, blockVars, kernelVars, memVars
<1>2. block_list \in Seq(Blocks) /\ b \in Blocks /\ Heap \subseteq Blocks
  <2>1. block_list \in Seq(Blocks) /\ Heap \subseteq Blocks
    BY LeakAssumption DEF ReportInv
  <2> HIDE DEF Blocks
  <2> QED
    BY <1>0, <2>1
<1>3. b.addr \in Nat /\ b.size \in Nat
  BY <1>2
<1>4. new \in SUBSET Blocks /\ IsFiniteSet(new)
  <2>1. new \subseteq Heap
    BY <1>0, FoundInHeap DEF scan_block, LeakTypeOK
  <2> QED
    BY <1>2, <2>1, LeakAssumption, FS_Subset
<1> HIDE DEF new, Blocks
<1>5. /\ block_list' \in Seq(Blocks)
      /\ Range(block_list') = new \cup rest
      /\ Range(block_list) = {b} \cup rest
  BY <1>0, <1>1, <1>2, <1>4, ListedNext
<1> HIDE DEF b, rest
<1>6. ASSUME Live(Root)' PROVE Marking'
  <2>1. Live(Root) /\ ps[Root] = "stopped"
    BY <1>0, <1>1, <1>6, LeakAssumption DEF Live, SearchInv, Stilled, AllListed
  <2>2. Marking
    BY <1>0, <2>1 DEF ReportInv
  <2>3. /\ new \subseteq Successors(b)
        /\ WordsRead(b) \subseteq Readable => Successors(b) \subseteq marked \cup new
    BY <1>0, <1>3, <2>1, <2>2, ScanFinds DEF new
  <2>4. b \in Sections \cup marked \/ OnStack(b)
    <3>1. b \in Range(block_list)
      BY <1>5
    <3> QED
      BY <2>2, <3>1 DEF Marking, Range
  <2>5. \A x : Pending(x) <=> x = b \/ x \in rest
    <3>1. \A x : Pending(x) <=> x \in Range(block_list)
      BY DEF Pending, Range
    <3> QED
      BY <1>5, <3>1
  <2>6. \A x : Pending(x)' <=> x \in new \/ x \in rest
    <3>1. \A x : Pending(x)' <=> x \in Range(block_list')
      BY DEF Pending, Range
    <3> QED
      BY <1>5, <3>1
  <2>7. \A x : Successors(x)' = Successors(x)
    BY <1>1 DEF Successors, PointsTo
  <2>8. Reach(Sections \cup {StackBlock})' = Reach(Sections \cup {StackBlock})
    BY <1>1 DEF Reach, PointsTo
  <2>9. block_arr' \in Sorted(table)'
    BY <1>1, <2>2 DEF Marking, Sorted
  <2>10. \A i \in DOMAIN block_list' :
           block_list'[i] \in Sections \cup marked' \/ OnStack(block_list'[i])
    <3>1. \A x : Pending(x) => x \in Sections \cup marked \/ OnStack(x)
      BY <2>2 DEF Marking, Pending
    <3>2. \A x \in new \cup rest : x \in Sections \cup marked' \/ OnStack(x)
      BY <1>1, <2>5, <3>1
    <3> QED
      BY <1>5, <3>2 DEF Range
  <2>11. \A x \in Sections \cup marked' : Pending(x)' \/ Successors(x)' \subseteq marked'
    <3> SUFFICES ASSUME NEW x \in Sections \cup marked', x \notin new, x \notin rest
                 PROVE  Successors(x) \subseteq marked'
      BY <2>6, <2>7
    <3>1. x \in Sections \cup marked
      BY <1>1
    <3>2. CASE x = b
      <4>1. x \in Heap \cup Sections
        BY <1>0, <3>1 DEF LeakTypeOK
      <4> QED
        BY <1>1, <2>3, <3>2, <4>1
    <3>3. CASE x # b
      BY <1>1, <2>2, <2>5, <3>1, <3>3 DEF Marking
    <3> QED
      BY <3>2, <3>3
  <2>12. marked' \subseteq Reach(Sections \cup {StackBlock})'
    <3> DEFINE S == Sections \cup {StackBlock}
    <3>1. Successors(b) \subseteq Reach(S)
      <4>1. CASE b \in Sections \cup marked
        BY <2>2, <4>1, ReachClosed DEF Marking
      <4>2. CASE OnStack(b)
        <5>1. \A c : PointsTo(b, c) => PointsTo(StackBlock, c)
          BY <4>2, StackScanned DEF PointsTo
        <5>2. Successors(b) \subseteq Successors(StackBlock)
          BY <5>1 DEF Successors
        <5>3. Successors(StackBlock) \subseteq Reach(S)
          BY ReachClosed
        <5> QED
          BY <5>2, <5>3
      <4> QED
        BY <2>4, <4>1, <4>2
    <3>2. marked \subseteq Reach(S)
      BY <2>2 DEF Marking
    <3> HIDE DEF S
    <3>3. marked' \subseteq Reach(S)
      BY <1>1, <2>3, <3>1, <3>2
    <3> QED
      BY <2>8, <3>3 DEF S
  <2> QED
    BY <2>9, <2>10, <2>11, <2>12 DEF Marking, OnStack
<1> QED
  BY <1>0, <1>5, <1>6 DEF ReportInv, LeaksBetween, Searched, Blocks

LEMMA CollectReports ==
  ASSUME SearchInv, ReportInv, Collect
  PROVE  ReportInv'
<1>0. LeakTypeOK /\ at = "scan" /\ at' = "resume" /\ block_list = <<>> /\ block_list' = block_list
  BY DEF SearchInv, Collect
<1>1. leaks' = table \ marked /\ UNCHANGED <<table, mem, ps>>
  BY DEF SearchInv, InSearch, Collect, kernelVars, memVars
<1>2. ASSUME Live(Root)' PROVE LeaksBetween'
  <2>1. Marking
    BY <1>0, <1>1, <1>2 DEF ReportInv, Live
  <2>2. \A b : ~Pending(b)
    BY <1>0 DEF Pending
  <2>3. marked \subseteq table
    <3>1. marked \subseteq Reach(Sections \cup {StackBlock})
      BY <2>1 DEF Marking
    <3> QED
      BY <3>1 DEF Reach
  <2>4. Reach(Sections) \subseteq marked
    BY <2>1, <2>2, <2>3, ReachLeast DEF Marking
  <2>5. leaks' \cap Reach(Sections) = {} /\ table \ Reach(Sections \cup {StackBlock}) \subseteq leaks'
    BY <1>1, <2>1, <2>4 DEF Marking
  <2>6. Reach(Sections)' = Reach(Sections)
        /\ Reach(Sections \cup {StackBlock})' = Reach(Sections \cup {StackBlock})
    BY <1>1 DEF Reach, PointsTo
  <2> QED
    BY <1>1, <2>5, <2>6 DEF LeaksBetween
<1>3. LeaksBetween'
  BY <1>2 DEF LeaksBetween, Searched
<1> QED
  BY <1>0, <1>3 DEF ReportInv

LEMMA ReportStep ==
  ASSUME \A b \in Heap \cup Sections : WordsRead(b) \subseteq Readable
  PROVE  SearchInv /\ AllListed /\ ReportInv /\ [LeakNext]_leakVars => ReportInv'
<1> SUFFICES ASSUME SearchInv, AllListed, ReportInv, [LeakNext]_leakVars PROVE ReportInv'
  OBVIOUS
<1> USE DEF searchVars, blockVars, kernelVars, memVars
<1>0. LeakTypeOK
  BY DEF SearchInv
<1>1. CASE OpenMem
  BY <1>1, NothingReported DEF OpenMem
<1>2. CASE OpenFails
  BY <1>2, NothingReported DEF OpenFails
<1>3. CASE Prepare
  BY <1>3, PrepareReports
<1>4. CASE PrepareDead
  BY <1>4, NothingReported DEF PrepareDead
<1>5. CASE Scan
  BY <1>5, ScanReports
<1>6. CASE Collect
  BY <1>6, CollectReports
<1>7. CASE Resume
  BY <1>7, NothingReported DEF Resume
<1>8. CASE kill_SIGSTOP
  BY <1>8, NothingReported DEF kill_SIGSTOP
<1>9. CASE Waited
  BY <1>9, NothingReported DEF Waited
<1>10. CASE generate_leak_cb
  BY <1>10, NothingReported DEF generate_leak_cb
<1>11. CASE Reset
  BY <1>11, NothingReported DEF Reset
<1>12. ASSUME NEW b \in Heap, Freed(b) PROVE ReportInv'
  BY <1>12, NothingReported DEF Freed
<1>13. CASE Store
  <2>1. at \notin {"scan", "resume"}
    BY <1>13 DEF Store, SearchInv, Stilled, AllListed
  <2> QED
    BY <1>13, <2>1, NothingReported DEF Store
<1>14. CASE Die
  <2>1. ~Live(Root)'
    BY <1>14, LeakAssumption DEF Die, Live
  <2> QED
    BY <1>14, <2>1, StillReported DEF Die
<1>15. ASSUME NEW q \in Threads, Stops(q) PROVE ReportInv'
  <2>1. Live(Root)' <=> Live(Root)
    BY <1>0, <1>15, LeakAssumption DEF Stops, LeakTypeOK, Live
  <2> QED
    BY <1>15, <2>1, StillReported DEF Stops
<1>16. CASE UNCHANGED leakVars
  BY <1>16, StillReported DEF leakVars, Live
<1> QED
  BY <1>1, <1>2, <1>3, <1>4, <1>5, <1>6, <1>7, <1>8, <1>9, <1>10, <1>11, <1>12, <1>13,
     <1>14, <1>15, <1>16 DEF LeakNext, MemprofStep

\* leaks_find reports no block that the data sections lead to, and every block
\* that neither they nor the stack lead to, whatever the program stored before
\* it was stopped and whenever it is killed: provided that process_get_clones
\* misses no thread, and that the words scan_block reads, (size + 3) / 4 of them,
\* can be read in every block.
THEOREM ReportsBetween ==
  ASSUME Listings \subseteq {Threads},
         \A b \in Heap \cup Sections : WordsRead(b) \subseteq Readable
  PROVE  LeakSpec => []LeaksBetween
<1>1. LeakInit => AllListed /\ ReportInv
  BY DEF LeakInit, AllListed, ReportInv, LeaksBetween, Searched
<1>2. SearchInv /\ AllListed /\ ReportInv /\ [LeakNext]_leakVars => (AllListed /\ ReportInv)'
  BY AllListedStep, ReportStep
<1>3. ReportInv => LeaksBetween
  BY DEF ReportInv
<1> QED
  BY <1>1, <1>2, <1>3, SearchKept, PTL DEF LeakSpec

===============================================================================

---------------------------- MODULE SpeedProofs -----------------------------
(***************************************************************************)
(* Proofs about Speed, for any set of descriptors, any rate and any mix of *)
(* execs, exits, failures and signals: what memprof does with a report,    *)
(* that the timers are armed at their rate with their handlers, that the   *)
(* program's own descriptors are left alone, and that the number of        *)
(* samples is right.                                                       *)
(***************************************************************************)
EXTENDS Speed, Recursion, FiniteSetTheorems

-----------------------------------------------------------------------------
(* process_command.                                                        *)

Objs == [status : {"STARTING", "RUNNING", "EXITING", "DETACHED", "DEFUNCT", "REFUSED"},
         seqno : Nat, queue : SUBSET Records, table : SUBSET Nat, bytes_used : Nat]

LEMMA DueType ==
  ASSUME NEW o \in Objs, NEW r
  PROVE  /\ Due(o, r) \in Objs
         /\ Due(o, r).status = o.status /\ Due(o, r).seqno = o.seqno + 1
         /\ Due(o, r).queue = o.queue
         /\ IF r.operation = "MI_TIME" /\ o.seqno + 1 \notin o.table
            THEN /\ Due(o, r).table = o.table \cup {o.seqno + 1}
                 /\ Due(o, r).bytes_used = o.bytes_used + 1
            ELSE Due(o, r).table = o.table /\ Due(o, r).bytes_used = o.bytes_used
<1> DEFINE p == [o EXCEPT !.seqno = @ + 1]
<1>1. /\ p \in Objs /\ p.seqno = o.seqno + 1 /\ p.status = o.status /\ p.queue = o.queue
      /\ p.table = o.table /\ p.bytes_used = o.bytes_used
  BY DEF Objs
<1>2. Due(o, r) = IF r.operation = "MI_TIME" /\ p.seqno \notin p.table
                  THEN [p EXCEPT !.table = p.table \cup {p.seqno}, !.bytes_used = p.bytes_used + 1]
                  ELSE p
  BY DEF Due, Counts
<1> HIDE DEF p
<1>3. CASE r.operation = "MI_TIME" /\ p.seqno \notin p.table
  <2> DEFINE d == [p EXCEPT !.table = p.table \cup {p.seqno}, !.bytes_used = p.bytes_used + 1]
  <2>1. Due(o, r) = d
    BY <1>2, <1>3
  <2>2. p.table \cup {p.seqno} \in SUBSET Nat /\ p.bytes_used + 1 \in Nat
    BY <1>1 DEF Objs
  <2>3. d \in Objs
    BY <1>1, <2>2 DEF Objs
  <2>4. /\ d.status = p.status /\ d.seqno = p.seqno /\ d.queue = p.queue
        /\ d.table = p.table \cup {p.seqno} /\ d.bytes_used = p.bytes_used + 1
    BY <1>1 DEF Objs
  <2> HIDE DEF d
  <2> QED
    BY <1>1, <1>3, <2>1, <2>3, <2>4
<1>4. CASE ~(r.operation = "MI_TIME" /\ p.seqno \notin p.table)
  <2>1. Due(o, r) = p
    BY <1>2, <1>4
  <2> QED
    BY <1>1, <1>4, <2>1
<1> QED
  BY <1>3, <1>4

\* The first report of the queue.
First(p) == CHOOSE q \in p.queue : \A x \in p.queue : q.seqno <= x.seqno

LEMMA FirstIs ==
  ASSUME NEW p \in Objs, p.queue # {}
  PROVE  First(p) \in p.queue /\ \A x \in p.queue : First(p).seqno <= x.seqno
<1> DEFINE T == {x.seqno : x \in p.queue}
<1>1. T \in SUBSET Nat /\ T # {}
  BY DEF Objs, Records
<1>2. PICK m \in T : \A k \in T : m <= k
  <2> HIDE DEF T
  <2> QED
    BY <1>1, Least
<1>3. \E q \in p.queue : \A x \in p.queue : q.seqno <= x.seqno
  BY <1>2
<1> QED
  BY <1>3 DEF First

\* The loop over the queue, once.
Drained(p) ==
  IF p.queue = {} THEN p
  ELSE IF First(p).seqno = p.seqno THEN Due([p EXCEPT !.queue = @ \ {First(p)}], First(p))
  ELSE p

LEMMA DrainedType ==
  ASSUME NEW p \in Objs
  PROVE  Drained(p) \in Objs
<1>1. [p EXCEPT !.queue = @ \ {First(p)}] \in Objs
  BY DEF Objs
<1> QED
  BY <1>1, DueType DEF Drained

\* process_command is k turns of the loop, for some number of turns that no
\* queue outlasts.
After(o, r, g, n) ==
  g \in [0 .. n -> Objs] /\ g[0] = Due(o, r) /\ \A k \in 1 .. n : g[k] = Drained(g[k - 1])

LEMMA CommandIs ==
  ASSUME NEW o \in Objs, IsFiniteSet(o.queue), NEW r, r.seqno = o.seqno
  PROVE  \E g : /\ After(o, r, g, Cardinality(o.queue))
                /\ process_command(o, r) = g[Cardinality(o.queue)]
<1> DEFINE n == Cardinality(o.queue)
           step == [p \in Objs |-> Drained(p)]
           P(g) == g = [k \in 0 .. n |-> IF k = 0 THEN Due(o, r)
                                         ELSE IF g[k - 1].queue = {} THEN g[k - 1]
                                         ELSE LET q == CHOOSE q \in g[k - 1].queue :
                                                         \A x \in g[k - 1].queue : q.seqno <= x.seqno
                                              IN IF q.seqno = g[k - 1].seqno
                                                 THEN Due([g[k - 1] EXCEPT !.queue = @ \ {q}], q)
                                                 ELSE g[k - 1]]
<1>1. n \in Nat
  BY FS_CardinalityType
<1>2. process_command(o, r) = (CHOOSE g : P(g))[n]
  BY DEF process_command
<1>3. \A g : P(g) <=> g = [k \in 0 .. n |-> IF k = 0 THEN Due(o, r) ELSE Drained(g[k - 1])]
  BY DEF Drained, First
<1> HIDE DEF n, P
<1>4. PICK g \in [0 .. n -> Objs] :
        g = [k \in 0 .. n |-> IF k = 0 THEN Due(o, r) ELSE step[g[k - 1]]]
  <2>1. step \in [Objs -> Objs] /\ Due(o, r) \in Objs
    BY DrainedType, DueType
  <2> HIDE DEF step
  <2>2. Iterates(Objs, Due(o, r), step, n)
    BY <1>1, <2>1, Iterated
  <2> QED
    BY <2>2 DEF Iterates
<1>5. P(g)
  <2>1. \A k \in 0 .. n : k # 0 => k - 1 \in 0 .. n /\ step[g[k - 1]] = Drained(g[k - 1])
    BY <1>1
  <2>2. g = [k \in 0 .. n |-> IF k = 0 THEN Due(o, r) ELSE Drained(g[k - 1])]
    BY <1>4, <2>1
  <2> QED
    BY <1>3, <2>2
<1> DEFINE c == CHOOSE h : P(h)
<1>6. P(c)
  BY <1>5
<1> HIDE DEF c
<1>7. c = [k \in 0 .. n |-> IF k = 0 THEN Due(o, r) ELSE Drained(c[k - 1])]
  BY <1>3, <1>6
<1>8. DOMAIN c = 0 .. n /\ c[0] = Due(o, r) /\ \A k \in 1 .. n : c[k] = Drained(c[k - 1])
  BY <1>1, <1>7
<1>9. c \in [0 .. n -> Objs]
  <2> DEFINE T == {k \in Nat : k \in 0 .. n => c[k] \in Objs}
  <2>1. T \in SUBSET Nat /\ 0 \in T
    <3>1. Due(o, r) \in Objs
      BY DueType
    <3> QED
      BY <1>8, <3>1
  <2>2. ASSUME NEW k \in T PROVE k + 1 \in T
    <3>1. k \in Nat /\ (k + 1 \in 0 .. n => k + 1 \in 1 .. n /\ k \in 0 .. n /\ (k + 1) - 1 = k)
      BY <1>1
    <3>2. CASE k + 1 \in 0 .. n
      <4>1. c[k] \in Objs /\ c[k + 1] = Drained(c[k])
        BY <1>8, <3>1, <3>2
      <4> QED
        BY <3>1, <4>1, DrainedType
    <3> QED
      BY <3>1, <3>2
  <2>3. \A k \in Nat : k \in T
    <3> HIDE DEF T
    <3> QED
      BY <2>1, <2>2, Induct
  <2>4. \A k \in 0 .. n : c[k] \in Objs
    BY <1>1, <2>3
  <2> QED
    BY <1>7, <2>4
<1>10. After(o, r, c, n) /\ process_command(o, r) = c[n]
  BY <1>2, <1>8, <1>9 DEF After, c
<1> QED
  BY <1>10 DEF n

-----------------------------------------------------------------------------
(* What the loop does to the queue and to the number of samples.           *)

IsSample(r) == IF r.operation = "MI_TIME" THEN 1 ELSE 0

LEMMA SampleAdded ==
  ASSUME NEW S, IsFiniteSet(S), NEW r, r \notin S
  PROVE  /\ Cardinality(Samples(S)) \in Nat
         /\ Cardinality(Samples(S \cup {r})) = Cardinality(Samples(S)) + IsSample(r)
<1>1. IsFiniteSet(Samples(S)) /\ Cardinality(Samples(S)) \in Nat
  BY FS_Subset, FS_CardinalityType DEF Samples
<1>2. CASE r.operation = "MI_TIME"
  <2>1. Samples(S \cup {r}) = Samples(S) \cup {r} /\ r \notin Samples(S)
    BY <1>2 DEF Samples
  <2>2. Cardinality(Samples(S) \cup {r}) = Cardinality(Samples(S)) + 1
    BY <1>1, <2>1, FS_AddElement
  <2> QED
    BY <1>1, <1>2, <2>1, <2>2 DEF IsSample
<1>3. CASE r.operation # "MI_TIME"
  <2>1. Samples(S \cup {r}) = Samples(S)
    BY <1>3 DEF Samples
  <2> QED
    BY <1>1, <1>3, <2>1 DEF IsSample
<1> QED
  BY <1>2, <1>3

LEMMA SampleTaken ==
  ASSUME NEW S, IsFiniteSet(S), NEW r \in S
  PROVE  /\ IsFiniteSet(S \ {r})
         /\ Cardinality(Samples(S \ {r})) \in Nat
         /\ Cardinality(Samples(S)) = Cardinality(Samples(S \ {r})) + IsSample(r)
<1>1. IsFiniteSet(S \ {r}) /\ r \notin S \ {r} /\ (S \ {r}) \cup {r} = S
  BY FS_Subset
<1>2. Cardinality(Samples((S \ {r}) \cup {r})) = Cardinality(Samples(S \ {r})) + IsSample(r)
      /\ Cardinality(Samples(S \ {r})) \in Nat
  BY <1>1, SampleAdded
<1> QED
  BY <1>1, <1>2

\* A queue holds each number once, and none that was dealt with; the addresses
\* of samples are numbers that came before.
Queued(o) ==
  /\ IsFiniteSet(o.queue)
  /\ \A x, y \in o.queue : x.seqno = y.seqno => x = y
  /\ \A x \in o.queue : x.seqno >= o.seqno
  /\ \A n \in o.table : n <= o.seqno

\* No report in the queue is due.
Waiting(o) == \A x \in o.queue : x.seqno # o.seqno

\* p is what the loop may have made of o and the report r that was due.
Reached(o, r, p) ==
  /\ p \in Objs /\ p.status = o.status /\ Queued(p)
  /\ p.queue \subseteq o.queue /\ o.seqno < p.seqno
  /\ p.bytes_used + Cardinality(Samples(p.queue))
       = o.bytes_used + Cardinality(Samples(o.queue)) + IsSample(r)
  /\ \A n \in o.seqno .. (p.seqno - 1) : n = o.seqno \/ \E x \in o.queue : x.seqno = n
  /\ \A x \in o.queue : x \in p.queue \/ x.seqno < p.seqno

\* Applying a report counts it, at an address that no sample has.
LEMMA DueCounts ==
  ASSUME NEW o \in Objs, \A n \in o.table : n <= o.seqno, NEW r
  PROVE  /\ Due(o, r).bytes_used = o.bytes_used + IsSample(r)
         /\ \A n \in Due(o, r).table : n <= Due(o, r).seqno
<1>1. o.seqno \in Nat /\ o.table \in SUBSET Nat /\ o.seqno + 1 \notin o.table /\ o.bytes_used \in Nat
  BY DEF Objs
<1>2. Due(o, r).seqno = o.seqno + 1
  BY DueType
<1>3. CASE r.operation = "MI_TIME"
  <2>1. Due(o, r).table = o.table \cup {o.seqno + 1} /\ Due(o, r).bytes_used = o.bytes_used + 1
    BY <1>1, <1>3, DueType
  <2> QED
    BY <1>1, <1>2, <1>3, <2>1 DEF IsSample
<1>4. CASE r.operation # "MI_TIME"
  <2>1. Due(o, r).table = o.table /\ Due(o, r).bytes_used = o.bytes_used
    BY <1>4, DueType
  <2> QED
    BY <1>1, <1>2, <1>4, <2>1 DEF IsSample
<1> QED
  BY <1>3, <1>4

LEMMA DueReaches ==
  ASSUME NEW o \in Objs, Queued(o), Waiting(o), NEW r
  PROVE  Reached(o, r, Due(o, r))
<1> DEFINE p == Due(o, r)
<1>1. p \in Objs /\ p.status = o.status /\ p.seqno = o.seqno + 1 /\ p.queue = o.queue
  BY DueType
<1>2. p.bytes_used = o.bytes_used + IsSample(r) /\ \A n \in p.table : n <= p.seqno
  BY DueCounts DEF Queued
<1>3. o.seqno \in Nat /\ o.bytes_used \in Nat /\ \A x \in o.queue : x.seqno \in Nat
  BY DEF Objs, Records
<1>4. Cardinality(Samples(o.queue)) \in Nat /\ IsSample(r) \in Nat
  <2>1. IsFiniteSet(Samples(o.queue))
    BY FS_Subset DEF Samples, Queued
  <2> QED
    BY <2>1, FS_CardinalityType DEF IsSample
<1> HIDE DEF p
<1>5. Queued(p)
  BY <1>1, <1>2, <1>3 DEF Queued, Waiting
<1>6. Reached(o, r, p)
  BY <1>1, <1>2, <1>3, <1>4, <1>5 DEF Reached
<1> QED
  BY <1>6 DEF p

LEMMA DrainedReaches ==
  ASSUME NEW o \in Objs, NEW r, NEW p, Reached(o, r, p)
  PROVE  /\ Reached(o, r, Drained(p))
         /\ \/ Waiting(p) /\ Drained(p) = p
            \/ Cardinality(Drained(p).queue) = Cardinality(p.queue) - 1 /\ Cardinality(p.queue) > 0
<1>1. p \in Objs /\ Queued(p)
  BY DEF Reached
<1>2. p.seqno \in Nat /\ \A x \in p.queue : x.seqno \in Nat
  BY <1>1 DEF Objs, Records
<1>3. CASE p.queue = {}
  BY <1>3 DEF Drained, Waiting
<1>4. CASE p.queue # {} /\ First(p).seqno # p.seqno
  <2>1. First(p) \in p.queue /\ \A x \in p.queue : First(p).seqno <= x.seqno
    BY <1>1, <1>4, FirstIs
  <2>2. Waiting(p)
    BY <1>1, <1>2, <1>4, <2>1 DEF Waiting, Queued
  <2> QED
    BY <1>4, <2>2 DEF Drained
<1>5. CASE p.queue # {} /\ First(p).seqno = p.seqno
  <2> DEFINE q == First(p)
             u == [p EXCEPT !.queue = @ \ {q}]
             d == Due(u, q)
  <2>1. q \in p.queue
    BY <1>1, <1>5, FirstIs
  <2>2. Drained(p) = d
    BY <1>5 DEF Drained
  <2>3. /\ u \in Objs /\ u.status = p.status /\ u.seqno = p.seqno /\ u.queue = p.queue \ {q}
        /\ u.table = p.table /\ u.bytes_used = p.bytes_used
    BY <1>1 DEF Objs
  <2>4. q.seqno = p.seqno
    BY <1>5
  <2> HIDE DEF q, u
  <2>5. d \in Objs /\ d.status = p.status /\ d.seqno = p.seqno + 1 /\ d.queue = p.queue \ {q}
    BY <2>3, DueType
  <2>6. d.bytes_used = p.bytes_used + IsSample(q) /\ \A n \in d.table : n <= d.seqno
    BY <1>1, <2>3, DueCounts DEF Queued
  <2> HIDE DEF d
  <2>7. /\ IsFiniteSet(d.queue) /\ Cardinality(Samples(d.queue)) \in Nat
        /\ Cardinality(Samples(p.queue)) = Cardinality(Samples(d.queue)) + IsSample(q)
    BY <1>1, <2>1, <2>5, SampleTaken DEF Queued
  <2>8. Cardinality(d.queue) = Cardinality(p.queue) - 1 /\ Cardinality(p.queue) > 0
    <3>1. IsFiniteSet(p.queue)
      BY <1>1 DEF Queued
    <3>2. Cardinality(p.queue \ {q}) = Cardinality(p.queue) - 1 /\ Cardinality(p.queue) \in Nat
      BY <2>1, <3>1, FS_RemoveElement, FS_CardinalityType
    <3>3. Cardinality(d.queue) \in Nat
      BY <2>7, FS_CardinalityType
    <3> QED
      BY <2>5, <3>2, <3>3
  <2>9. Queued(d)
    <3>1. \A x \in d.queue : x \in p.queue /\ x.seqno # p.seqno
      BY <1>1, <2>1, <2>4, <2>5 DEF Queued
    <3> QED
      BY <1>1, <1>2, <2>5, <2>6, <2>7, <3>1 DEF Queued
  <2>10. Reached(o, r, d)
    <3>1. p.queue \subseteq o.queue /\ o.seqno < p.seqno /\ o.seqno \in Nat /\ o.bytes_used \in Nat
      BY DEF Reached, Objs
    <3>2. p.bytes_used \in Nat /\ IsSample(q) \in Nat
      BY <1>1 DEF Objs, IsSample
    <3>3. d.bytes_used + Cardinality(Samples(d.queue)) = p.bytes_used + Cardinality(Samples(p.queue))
      BY <2>6, <2>7, <3>2
    <3>4. \A n \in o.seqno .. (d.seqno - 1) : n = o.seqno \/ \E x \in o.queue : x.seqno = n
      <4> SUFFICES ASSUME NEW n \in o.seqno .. (d.seqno - 1)
                   PROVE  n = o.seqno \/ \E x \in o.queue : x.seqno = n
        OBVIOUS
      <4>1. n \in o.seqno .. (p.seqno - 1) \/ n = q.seqno
        BY <1>2, <2>4, <2>5, <3>1
      <4> QED
        BY <2>1, <3>1, <4>1 DEF Reached
    <3>5. \A x \in o.queue : x \in d.queue \/ x.seqno < d.seqno
      <4> SUFFICES ASSUME NEW x \in o.queue PROVE x \in d.queue \/ x.seqno < d.seqno
        OBVIOUS
      <4>1. x.seqno \in Nat
        BY DEF Objs, Records
      <4>2. x \in p.queue \/ x.seqno < p.seqno
        BY DEF Reached
      <4> QED
        BY <1>2, <2>4, <2>5, <4>1, <4>2
    <3>6. d.status = o.status /\ d.queue \subseteq o.queue /\ o.seqno < d.seqno
      BY <1>2, <2>5, <3>1 DEF Reached
    <3>7. d.bytes_used + Cardinality(Samples(d.queue))
            = o.bytes_used + Cardinality(Samples(o.queue)) + IsSample(r)
      BY <3>3 DEF Reached
    <3> QED
      BY <2>5, <2>9, <3>4, <3>5, <3>6, <3>7 DEF Reached
  <2> QED
    BY <2>2, <2>8, <2>10
<1> QED
  BY <1>3, <1>4, <1>5

\* The report that is due and those it was kept from, counted, once each: after
\* the loop nothing in the queue is due.
LEMMA Processed ==
  ASSUME NEW o \in Objs, Queued(o), Waiting(o), NEW r, r.seqno = o.seqno
  PROVE  Reached(o, r, process_command(o, r)) /\ Waiting(process_command(o, r))
<1> DEFINE n == Cardinality(o.queue)
<1>1. IsFiniteSet(o.queue) /\ n \in Nat
  BY FS_CardinalityType DEF Queued
<1>2. PICK g : After(o, r, g, n) /\ process_command(o, r) = g[n]
  BY <1>1, CommandIs
<1> HIDE DEF n
<1> DEFINE Good(k) == Reached(o, r, g[k]) /\ (Waiting(g[k]) \/ Cardinality(g[k].queue) <= n - k)
           T == {k \in Nat : k \in 0 .. n => Good(k)}
<1>3. 0 \in T
  <2>1. g[0] = Due(o, r) /\ Due(o, r).queue = o.queue
    BY <1>2, DueType DEF After
  <2>2. Reached(o, r, g[0]) /\ Cardinality(g[0].queue) <= n - 0
    BY <1>1, <2>1, DueReaches DEF n
  <2> QED
    BY <2>2
<1>4. ASSUME NEW k \in T PROVE k + 1 \in T
  <2> SUFFICES ASSUME k + 1 \in 0 .. n PROVE Good(k + 1)
    OBVIOUS
  <2>1. k \in Nat /\ k \in 0 .. n /\ k + 1 \in 1 .. n /\ (k + 1) - 1 = k
    BY <1>1
  <2>2. Good(k) /\ g[k + 1] = Drained(g[k])
    BY <1>2, <2>1 DEF After
  <2>3. /\ Reached(o, r, g[k + 1])
        /\ \/ Waiting(g[k]) /\ g[k + 1] = g[k]
           \/ Cardinality(g[k + 1].queue) = Cardinality(g[k].queue) - 1 /\ Cardinality(g[k].queue) > 0
    BY <2>2, DrainedReaches
  <2>4. CASE Waiting(g[k]) /\ g[k + 1] = g[k]
    BY <2>3, <2>4
  <2>5. CASE ~Waiting(g[k]) /\ Cardinality(g[k + 1].queue) = Cardinality(g[k].queue) - 1
    <3>1. Cardinality(g[k].queue) \in Nat /\ Cardinality(g[k].queue) <= n - k
      BY <2>2, <2>5, FS_CardinalityType DEF Reached, Queued
    <3>2. Cardinality(g[k + 1].queue) <= n - (k + 1)
      BY <1>1, <2>1, <2>5, <3>1
    <3> QED
      BY <2>3, <3>2
  <2>6. CASE Waiting(g[k]) /\ Cardinality(g[k + 1].queue) = Cardinality(g[k].queue) - 1
                           /\ Cardinality(g[k].queue) > 0
    <3>1. Drained(g[k]) = g[k]
      <4>1. CASE g[k].queue = {}
        BY <4>1 DEF Drained
      <4>2. CASE g[k].queue # {}
        <5>1. g[k] \in Objs
          BY <2>2 DEF Reached
        <5>2. First(g[k]).seqno # g[k].seqno
          BY <2>6, <4>2, <5>1, FirstIs DEF Waiting
        <5> QED
          BY <4>2, <5>2 DEF Drained
      <4> QED
        BY <4>1, <4>2
    <3> QED
      BY <2>2, <2>3, <2>6, <3>1
  <2> QED
    BY <2>3, <2>4, <2>5, <2>6
<1>5. \A k \in Nat : k \in T
  <2>1. T \in SUBSET Nat
    OBVIOUS
  <2> HIDE DEF T
  <2> QED
    BY <1>3, <1>4, <2>1, Induct
<1>6. Good(n)
  BY <1>1, <1>5
<1>7. Waiting(g[n])
  <2>1. CASE Cardinality(g[n].queue) <= n - n
    <3>1. IsFiniteSet(g[n].queue) /\ Cardinality(g[n].queue) \in Nat
      BY <1>6, FS_CardinalityType DEF Reached, Queued
    <3>2. Cardinality(g[n].queue) = 0
      BY <1>1, <2>1, <3>1
    <3>3. g[n].queue = {}
      BY <3>1, <3>2, FS_EmptySet
    <3> QED
      BY <3>3 DEF Waiting
  <2> QED
    BY <1>6, <2>1
<1> QED
  BY <1>2, <1>6, <1>7

-----------------------------------------------------------------------------
(* Types, and what the handler's place in the program's life rules out.    *)

LEMMA Numbered ==
  FDs \subseteq Nat /\ 0 \in FDs
BY SpeedAssumption

LEMMA LowestIs ==
  ASSUME SomeFree
  PROVE  Lowest \in FDs /\ fds[Lowest] = "free"
<1> DEFINE T == {d \in FDs : fds[d] = "free"}
<1>1. T \in SUBSET Nat /\ T # {}
  BY Numbered DEF SomeFree
<1>2. PICK m \in T : \A k \in T : m <= k
  <2> HIDE DEF T
  <2> QED
    BY <1>1, Least
<1>3. \E d \in FDs : fds[d] = "free" /\ \A e \in FDs : fds[e] = "free" => d <= e
  BY <1>2
<1> QED
  BY <1>3 DEF Lowest

\* No handler runs before it is installed or after the end, and a number is
\* held only between the steps that take and write it.
HandlerInv ==
  /\ main \in {"init", "connected", "armed"} => handled = {} /\ sig = "idle"
  /\ ~Alive => sig = "idle"
  /\ main = "init" => lib.seqno = 0 /\ \A d \in FDs : fds[d] # "lib"
  /\ held.handler # NoNumber <=> sig = "write"
  /\ held.thread # NoNumber => main \in {"numbered", "stopped", "killed"}
  /\ main \in {"numbered", "stopped"} => held.thread # NoNumber

\* What process_command may be given is what a socket may carry.
LEMMA CommandType ==
  ASSUME NEW o \in Objs, IsFiniteSet(o.queue), NEW r \in Records
  PROVE  process_command(o, r) \in Objs
<1>1. CASE r.seqno = o.seqno
  <2>1. PICK g : After(o, r, g, Cardinality(o.queue)) /\ process_command(o, r) = g[Cardinality(o.queue)]
    BY <1>1, CommandIs
  <2>2. Cardinality(o.queue) \in Nat
    BY FS_CardinalityType
  <2> QED
    BY <2>1, <2>2 DEF After
<1>2. CASE r.seqno # o.seqno
  <2>1. process_command(o, r) = [o EXCEPT !.queue = @ \cup {r}]
    BY <1>2 DEF process_command
  <2>2. o.queue \cup {r} \in SUBSET Records
    BY DEF Objs
  <2> QED
    BY <2>1, <2>2 DEF Objs
<1> QED
  BY <1>1, <1>2

\* The parts of the state that the program's image has.
LibTypeOK ==
  lib \in [tracing : BOOLEAN, socket : {"none", "memprof"}, outfd : FDs, seqno : Nat,
           type : {"rtc", "perfctr", "itimer"}, irq_rate : Nat]

LEMMA RateIs ==
  ASSUME NEW i
  PROVE  /\ irq_rate(i) \in Rates
         /\ 1000000 \div irq_rate(i) <= i \/ irq_rate(i) = 8192
         /\ \A s \in Rates : s < irq_rate(i) => ~(1000000 \div s <= i)
<1> DEFINE Enough == {r \in Rates : 1000000 \div r <= i \/ r = 8192}
<1>1. Enough \in SUBSET Nat /\ 8192 \in Enough
  BY DEF Rates
<1>2. PICK m \in Enough : \A k \in Enough : m <= k
  <2> HIDE DEF Enough
  <2> QED
    BY <1>1, Least
<1>3. irq_rate(i) \in Enough /\ \A s \in Enough : irq_rate(i) <= s
  <2>1. irq_rate(i) = CHOOSE r \in Enough : \A s \in Enough : r <= s
    BY DEF irq_rate
  <2> HIDE DEF Enough
  <2> QED
    BY <1>2, <2>1
<1>4. \A s \in Rates : s \in Nat
  BY DEF Rates
<1>5. ASSUME NEW s \in Rates, s < irq_rate(i), 1000000 \div s <= i PROVE FALSE
  <2>1. s \in Enough /\ irq_rate(i) \in Nat /\ s \in Nat
    BY <1>3, <1>4, <1>5
  <2> QED
    BY <1>3, <1>5, <2>1
<1> QED
  BY <1>3, <1>5

LEMMA LibTypeStep ==
  SpeedTypeOK /\ [SpeedNext]_speedVars => LibTypeOK'
<1> SUFFICES ASSUME SpeedTypeOK, [SpeedNext]_speedVars PROVE LibTypeOK'
  OBVIOUS
<1> USE DEF LibTypeOK
<1>0. LibTypeOK
  BY DEF SpeedTypeOK
<1>1. CASE UNCHANGED lib
  BY <1>0, <1>1
<1>2. CASE construct
  <2>1. Lowest \in FDs
    BY <1>2, LowestIs DEF construct
  <2> QED
    BY <1>0, <1>2, <2>1 DEF construct, memprof_init, stop_tracing
<1>3. CASE mi_start
  <2>1. irq_rate(profile_interval) \in Nat
    BY RateIs DEF Rates
  <2> QED
    BY <1>0, <1>3, <2>1 DEF mi_start, start_rtc_timer, mi_perfctr_start, start_itimer_timer
<1>4. CASE SetType
  BY <1>0, <1>4 DEF SetType, Source
<1>5. CASE sigprof_handler
  BY <1>0, <1>5 DEF sigprof_handler
<1>6. CASE WriteSample
  BY <1>0, <1>6 DEF WriteSample, stop_tracing
<1>7. CASE execve
  BY <1>0, <1>7, Numbered DEF execve, FreshLib
<1>8. CASE atexit_trap
  BY <1>0, <1>8 DEF atexit_trap
<1>9. CASE ExitDone
  BY <1>0, <1>9 DEF ExitDone
<1> QED
  BY <1>1, <1>2, <1>3, <1>4, <1>5, <1>6, <1>7, <1>8, <1>9
     DEF SpeedNext, HandlerStep, StartStep, ExitStep, ServerStep, speedVars, clientVars, memprofVars,
         init_sighandler, Fire, reset_itimer_timer, Open, mi_stop, exit_wait, ExitAnswer, Leave,
         input_func, InputEOF, process_detach

LEMMA HandlerStepKeeps ==
  SpeedTypeOK /\ HandlerInv /\ [SpeedNext]_speedVars => HandlerInv'
<1> SUFFICES ASSUME SpeedTypeOK, HandlerInv, [SpeedNext]_speedVars PROVE HandlerInv'
  OBVIOUS
<1> USE DEF HandlerInv, Alive, NoNumber, clientVars, memprofVars
<1>0. /\ lib.seqno \in Nat /\ main \in Places
      /\ held \in [thread : Nat \cup {-1}, handler : Nat \cup {-1}]
      /\ fds \in [FDs -> {"free", "lib", "file", "socket"}]
      /\ lib \in [tracing : BOOLEAN, socket : {"none", "memprof"}, outfd : FDs, seqno : Nat,
              type : {"rtc", "perfctr", "itimer"}, irq_rate : Nat]
  BY DEF SpeedTypeOK
<1>1. CASE construct
  BY <1>0, <1>1 DEF construct
<1>2. CASE mi_start
  BY <1>0, <1>2 DEF mi_start
<1>3. CASE init_sighandler
  BY <1>0, <1>3 DEF init_sighandler
<1>4. CASE SetType
  BY <1>0, <1>4 DEF SetType
<1>5. ASSUME NEW t \in timers, Fire(t) PROVE HandlerInv'
  BY <1>0, <1>5 DEF Fire
<1>6. CASE sigprof_handler
  BY <1>0, <1>6 DEF sigprof_handler
<1>7. CASE WriteSample
  <2>1. \A d \in FDs : fds'[d] = "lib" => fds[d] = "lib"
    BY <1>0, <1>7 DEF WriteSample, Closes
  <2>2. lib'.seqno = lib.seqno
    BY <1>0, <1>7 DEF WriteSample, stop_tracing
  <2> QED
    BY <1>0, <1>7, <2>1, <2>2 DEF WriteSample
<1>8. CASE reset_itimer_timer
  BY <1>0, <1>8 DEF reset_itimer_timer
<1>9. ASSUME NEW kind \in {"file", "socket"}, Open(kind) PROVE HandlerInv'
  BY <1>0, <1>9 DEF Open, InProgram
<1>10. CASE execve
  <2>1. lib'.seqno = 0
    BY <1>10 DEF execve, FreshLib
  <2> QED
    BY <1>0, <1>10, <2>1 DEF execve
<1>11. CASE atexit_trap
  BY <1>0, <1>11 DEF atexit_trap
<1>12. CASE mi_stop
  BY <1>0, <1>12 DEF mi_stop
<1>13. CASE exit_wait
  BY <1>0, <1>13 DEF exit_wait
<1>14. CASE ExitAnswer
  BY <1>0, <1>14 DEF ExitAnswer
<1>15. CASE ExitDone
  BY <1>0, <1>15 DEF ExitDone
<1>16. CASE Leave
  BY <1>0, <1>16 DEF Leave
<1>17. CASE UNCHANGED clientVars
  BY <1>17
<1> QED
  BY <1>1, <1>2, <1>3, <1>4, <1>5, <1>6, <1>7, <1>8, <1>9, <1>10, <1>11, <1>12, <1>13, <1>14,
     <1>15, <1>16, <1>17
     DEF SpeedNext, HandlerStep, StartStep, ExitStep, ServerStep, speedVars,
         input_func, InputEOF, process_detach

-----------------------------------------------------------------------------
(* The program's descriptors.                                              *)

\* While tracing is on, outfd is the library's own; after exit_wait closed it,
\* nothing else has its number until tracing is off.
OwnsInv ==
  /\ lib.tracing /\ Alive /\ main # "init" =>
       fds[lib.outfd] = "lib" \/ (main = "closed" /\ fds[lib.outfd] = "free")
  /\ OwnDescriptors

LEMMA ClosesOwn ==
  ASSUME SpeedTypeOK, OwnsInv, Alive, main # "init", Closes(lib.outfd)
  PROVE  OwnDescriptors' /\ fds'[lib.outfd] = "free"
BY DEF SpeedTypeOK, OwnsInv, Closes, OwnDescriptors

LEMMA OwnsStep ==
  SpeedTypeOK /\ HandlerInv /\ OwnsInv /\ [SpeedNext]_speedVars => OwnsInv'
<1> SUFFICES ASSUME SpeedTypeOK, HandlerInv, OwnsInv, [SpeedNext]_speedVars PROVE OwnsInv'
  OBVIOUS
<1> USE DEF OwnsInv, OwnDescriptors, Alive, clientVars, memprofVars
<1>0. /\ main \in Places /\ fds \in [FDs -> {"free", "lib", "file", "socket"}]
      /\ lib \in [tracing : BOOLEAN, socket : {"none", "memprof"}, outfd : FDs, seqno : Nat,
                  type : {"rtc", "perfctr", "itimer"}, irq_rate : Nat]
  BY DEF SpeedTypeOK
<1>1. CASE construct
  <2>1. Lowest \in FDs /\ fds[Lowest] = "free" /\ UNCHANGED harm
    BY <1>1, LowestIs DEF construct
  <2>2. lib'.tracing => fds'[lib'.outfd] = "lib"
    <3>1. CASE lib' = [lib EXCEPT !.tracing = FALSE]
      BY <1>0, <3>1
    <3>2. CASE lib' = memprof_init(lib) /\ fds' = [fds EXCEPT ![Lowest] = "lib"]
      <4>1. lib'.outfd = Lowest
        BY <1>0, <3>2 DEF memprof_init
      <4> QED
        BY <1>0, <2>1, <3>2, <4>1
    <3>3. CASE lib' = stop_tracing(memprof_init(lib))
      BY <1>0, <3>3 DEF memprof_init, stop_tracing
    <3> QED
      BY <1>1, <3>1, <3>2, <3>3 DEF construct
  <2> QED
    BY <2>1, <2>2
<1>2. CASE mi_start
  <2>1. lib'.tracing = lib.tracing /\ lib'.outfd = lib.outfd
    BY <1>0, <1>2 DEF mi_start, start_rtc_timer, mi_perfctr_start, start_itimer_timer
  <2> QED
    BY <1>2, <2>1 DEF mi_start
<1>3. CASE init_sighandler
  BY <1>3 DEF init_sighandler
<1>4. CASE SetType
  <2>1. lib'.tracing = lib.tracing /\ lib'.outfd = lib.outfd
    BY <1>0, <1>4 DEF SetType
  <2> QED
    BY <1>4, <2>1 DEF SetType
<1>5. ASSUME NEW t \in timers, Fire(t) PROVE OwnsInv'
  BY <1>5 DEF Fire
<1>6. CASE sigprof_handler
  <2>1. lib'.tracing = lib.tracing /\ lib'.outfd = lib.outfd
    BY <1>0, <1>6 DEF sigprof_handler
  <2> QED
    BY <1>6, <2>1 DEF sigprof_handler
<1>7. CASE WriteSample
  <2>1. Alive /\ main # "init" /\ UNCHANGED main
    BY <1>7 DEF WriteSample, HandlerInv
  <2>2. CASE CanSend(lib.outfd) /\ UNCHANGED <<lib, fds, harm>>
    BY <2>1, <2>2
  <2>3. CASE Stray(lib.outfd) /\ harm' = harm \cup {lib.tracing} /\ UNCHANGED <<lib, fds>>
    BY <2>1, <2>3 DEF Stray
  <2>4. CASE lib' = stop_tracing(lib) /\ Closes(lib.outfd)
    <3>1. lib'.tracing = FALSE
      BY <1>0, <2>4 DEF stop_tracing
    <3>2. OwnDescriptors'
      BY <2>1, <2>4, ClosesOwn
    <3> QED
      BY <3>1, <3>2
  <2> QED
    BY <1>7, <2>2, <2>3, <2>4 DEF WriteSample
<1>8. CASE reset_itimer_timer
  BY <1>8 DEF reset_itimer_timer
<1>9. ASSUME NEW kind \in {"file", "socket"}, Open(kind) PROVE OwnsInv'
  <2>1. Lowest \in FDs /\ fds[Lowest] = "free"
    BY <1>9, LowestIs DEF Open
  <2>2. \A d \in FDs : fds[d] = "lib" => fds'[d] = "lib"
    BY <1>0, <1>9, <2>1 DEF Open
  <2>3. main \in {"run", "leaving"} /\ UNCHANGED <<main, lib, harm>>
    BY <1>9 DEF Open, InProgram
  <2> QED
    BY <1>0, <2>2, <2>3
<1>10. CASE execve
  BY <1>10 DEF execve
<1>11. CASE atexit_trap
  <2>1. lib'.tracing = lib.tracing /\ lib'.outfd = lib.outfd
    BY <1>0, <1>11 DEF atexit_trap
  <2> QED
    BY <1>11, <2>1 DEF atexit_trap
<1>12. CASE mi_stop
  BY <1>12 DEF mi_stop
<1>13. CASE exit_wait
  <2>1. CASE UNCHANGED <<fds, harm>>
    BY <1>13, <2>1 DEF exit_wait
  <2>2. CASE main' = "closed" /\ Closes(lib.outfd)
    BY <1>13, <2>2, ClosesOwn DEF exit_wait
  <2> QED
    BY <1>13, <2>1, <2>2 DEF exit_wait
<1>14. CASE ExitAnswer
  BY <1>14, ClosesOwn DEF ExitAnswer
<1>15. CASE ExitDone
  <2>1. lib'.tracing = FALSE
    BY <1>0, <1>15 DEF ExitDone
  <2> QED
    BY <1>15, <2>1 DEF ExitDone
<1>16. CASE Leave
  BY <1>16 DEF Leave
<1>17. CASE UNCHANGED clientVars
  BY <1>17
<1> QED
  BY <1>1, <1>2, <1>3, <1>4, <1>5, <1>6, <1>7, <1>8, <1>9, <1>10, <1>11, <1>12, <1>13, <1>14,
     <1>15, <1>16, <1>17
     DEF SpeedNext, HandlerStep, StartStep, ExitStep, ServerStep, speedVars,
         input_func, InputEOF, process_detach

-----------------------------------------------------------------------------
(* Timers.                                                                 *)

\* The device that the kind of profile would rather use is not for this image.
WithoutDevice ==
  /\ setup.type = "time" => "rtc" \notin setup.devices \/ rtc = "earlier"
  /\ setup.type = "cycles" => "perfctr" \notin setup.devices

\* Which timers there can be, for this image and those left by earlier ones.
TimersInv ==
  /\ rtc # "none" => setup.type = "time" /\ "rtc" \in setup.devices
  /\ rtc = "mine" => main \notin {"init", "connected"} /\ lib.irq_rate = irq_rate(profile_interval)
  /\ "rtc" \in timers => rtc # "none"
  /\ "perfctr" \in timers => setup.type = "cycles" /\ "perfctr" \in setup.devices
  /\ "itimer" \in timers \/ lib.type = "itimer" => WithoutDevice
  /\ main \in {"armed", "handler"} /\ Source = "itimer" => WithoutDevice

\* Which signals have handlers, and that profile_type, once assigned, is the
\* timer's.
SignalsInv ==
  /\ main = "handler" => handled = {SignalOf(Source)}
  /\ main = "run" => lib.type = Source /\ SignalOf(Source) \in handled
  /\ lib.type = "itimer" /\ handled # {} => SignalOf("itimer") \in handled
  /\ setup.type = "cycles" => handled \subseteq {"SIGPROF"}
  /\ SignalsHandled

\* From mi_start on the timer is armed, except while its own signal is handled.
ArmedInv ==
  main \in {"armed", "handler", "run"} =>
    early \/ Source \in timers \/ (main = "run" /\ sig # "idle" /\ Source # "rtc")

LEMMA SetupIs ==
  SpeedTypeOK => setup.type \in {"time", "cycles"}
BY SpeedAssumption, SMT DEF SpeedTypeOK

\* The rate asked for, as an interval.
LEMMA IntervalIs ==
  SpeedTypeOK => profile_interval \in Nat /\ profile_interval < 2000000
<1> SUFFICES ASSUME SpeedTypeOK PROVE profile_interval \in Nat /\ profile_interval < 2000000
  OBVIOUS
<1> DEFINE r == setup.rate
<1>1. r \in Nat /\ 2 <= r /\ r <= 1000000
  BY SpeedAssumption DEF SpeedTypeOK
<1>2. profile_interval = (2000000 + r) \div (2 * r)
  BY DEF profile_interval
<1> HIDE DEF r
<1>3. (2000000 + r) \div (2 * r) \in Nat /\ (2000000 + r) \div (2 * r) < 2000000
  BY <1>1
<1> QED
  BY <1>2, <1>3

LEMMA SourceIs ==
  /\ setup.type = "time" /\ rtc = "mine" => Source = "rtc"
  /\ setup.type = "cycles" /\ "perfctr" \in setup.devices => Source = "perfctr"
  /\ ~(setup.type = "time" /\ rtc = "mine") /\ ~(setup.type = "cycles" /\ "perfctr" \in setup.devices)
       => Source = "itimer"
BY DEF Source

LEMMA NextSourceIs ==
  /\ setup'.type = "time" /\ rtc' = "mine" => Source' = "rtc"
  /\ setup'.type = "cycles" /\ "perfctr" \in setup'.devices => Source' = "perfctr"
  /\ ~(setup'.type = "time" /\ rtc' = "mine") /\ ~(setup'.type = "cycles" /\ "perfctr" \in setup'.devices)
       => Source' = "itimer"
BY DEF Source

LEMMA SameInterval ==
  ASSUME UNCHANGED setup
  PROVE  /\ profile_interval' = profile_interval
         /\ irq_rate(profile_interval)' = irq_rate(profile_interval)
         /\ \A t : SignalOf(t)' = SignalOf(t)
<1>1. profile_interval' = profile_interval
  BY DEF profile_interval
<1>2. \A t : SignalOf(t)' = SignalOf(t)
  BY DEF SignalOf
<1> QED
  BY <1>1, <1>2

LEMMA SameSource ==
  ASSUME UNCHANGED <<rtc, setup>>
  PROVE  Source' = Source /\ WithoutDevice' = WithoutDevice
<1>1. Source' = Source
  BY DEF Source
<1>2. WithoutDevice' = WithoutDevice
  BY DEF WithoutDevice
<1> QED
  BY <1>1, <1>2

\* Steps that leave the timers and what they depend on alone.
TimerVars == <<rtc, timers, handled, setup, early, lib.type, lib.irq_rate>>

LEMMA StillTimed ==
  ASSUME TimersInv, SignalsInv, UNCHANGED TimerVars,
         main' = main \/ main' \notin {"init", "connected", "armed", "handler", "run"}
  PROVE  TimersInv' /\ SignalsInv'
<1>1. Source' = Source /\ WithoutDevice' = WithoutDevice /\ profile_interval' = profile_interval
      /\ irq_rate(profile_interval)' = irq_rate(profile_interval)
  BY SameSource, SameInterval DEF TimerVars
<1>2. \A t : SignalOf(t)' = SignalOf(t)
  BY SameInterval DEF TimerVars
<1>3. TimersInv'
  BY <1>1 DEF TimersInv, TimerVars
<1>4. SignalsInv'
  BY <1>1, <1>2 DEF SignalsInv, SignalsHandled, TimerVars
<1> QED
  BY <1>3, <1>4

LEMMA StillArmed ==
  ASSUME ArmedInv, UNCHANGED <<rtc, setup, early>>, timers \subseteq timers',
         main' = main \/ main' \notin {"armed", "handler", "run"},
         sig = "idle" \/ sig' # "idle"
  PROVE  ArmedInv'
BY SameSource DEF ArmedInv

LEMMA MiStartTimes ==
  ASSUME SpeedTypeOK, HandlerInv, TimersInv, SignalsInv, mi_start, UNCHANGED setup
  PROVE  TimersInv' /\ SignalsInv' /\ ArmedInv'
<1>0. /\ main = "connected" /\ main' = "armed" /\ handled = {} /\ handled' = {} /\ rtc # "mine"
      /\ setup.type \in {"time", "cycles"} /\ early' = early
      /\ lib \in [tracing : BOOLEAN, socket : {"none", "memprof"}, outfd : FDs, seqno : Nat,
                  type : {"rtc", "perfctr", "itimer"}, irq_rate : Nat]
  BY SetupIs DEF mi_start, HandlerInv, TimersInv, SpeedTypeOK
<1>1. CASE start_rtc_timer
  <2>1. /\ setup.type = "time" /\ "rtc" \in setup.devices /\ rtc = "none"
        /\ rtc' = "mine" /\ timers' = timers \cup {"rtc"}
        /\ lib'.type = lib.type /\ lib'.irq_rate = irq_rate(profile_interval)
    BY <1>0, <1>1 DEF start_rtc_timer
  <2>2. Source' = "rtc"
    BY <2>1, NextSourceIs
  <2>3. "itimer" \notin timers /\ lib.type # "itimer" /\ "perfctr" \notin timers
    BY <2>1 DEF TimersInv, WithoutDevice
  <2>4. lib'.irq_rate = irq_rate(profile_interval)'
    BY <2>1, SameInterval
  <2>5. TimersInv'
    BY <1>0, <2>1, <2>2, <2>3, <2>4 DEF TimersInv
  <2> QED
    BY <1>0, <2>1, <2>2, <2>5 DEF SignalsInv, SignalsHandled, ArmedInv
<1>2. CASE mi_perfctr_start
  <2>1. /\ setup.type = "cycles" /\ "perfctr" \in setup.devices
        /\ timers' = timers \cup {"perfctr"} /\ UNCHANGED <<rtc, lib>>
    BY <1>2 DEF mi_perfctr_start
  <2>2. Source' = "perfctr"
    BY <2>1, NextSourceIs
  <2>3. "itimer" \notin timers /\ lib.type # "itimer"
    BY <2>1 DEF TimersInv, WithoutDevice
  <2>4. TimersInv'
    BY <1>0, <2>1, <2>2, <2>3 DEF TimersInv
  <2> QED
    BY <1>0, <2>1, <2>2, <2>4 DEF SignalsInv, SignalsHandled, ArmedInv
<1>3. CASE start_itimer_timer
  <2>1. NoDevice /\ timers' = timers \cup {"itimer"} /\ UNCHANGED <<rtc, lib>>
    BY <1>3 DEF start_itimer_timer
  <2>2. Source' = "itimer"
    BY <1>0, <2>1, NextSourceIs DEF NoDevice
  <2>3. WithoutDevice'
    BY <1>0, <2>1 DEF NoDevice, WithoutDevice, SpeedTypeOK
  <2>4. TimersInv'
    BY <1>0, <2>1, <2>3 DEF TimersInv
  <2> QED
    BY <1>0, <2>1, <2>2, <2>4 DEF SignalsInv, SignalsHandled, ArmedInv
<1> QED
  BY <1>1, <1>2, <1>3 DEF mi_start

LEMMA InitSighandlerTimes ==
  ASSUME SpeedTypeOK, HandlerInv, TimersInv, SignalsInv, ArmedInv, init_sighandler, UNCHANGED setup
  PROVE  TimersInv' /\ SignalsInv' /\ ArmedInv'
<1>0. /\ main = "armed" /\ main' = "handler" /\ handled = {} /\ handled' = {SignalOf(Source)}
      /\ UNCHANGED <<rtc, timers, setup, early, lib, sig>>
      /\ setup.type \in {"time", "cycles"} /\ rtc \in {"none", "mine", "earlier"}
      /\ timers \subseteq {"rtc", "perfctr", "itimer"}
  BY SetupIs DEF init_sighandler, HandlerInv, SpeedTypeOK
<1>1. Source' = Source /\ WithoutDevice' = WithoutDevice
      /\ irq_rate(profile_interval)' = irq_rate(profile_interval)
  BY <1>0, SameSource, SameInterval
<1>2. \A t : SignalOf(t)' = SignalOf(t)
  BY <1>0, SameInterval
<1>3. TimersInv'
  BY <1>0, <1>1 DEF TimersInv
<1>4. \A t \in timers : SignalOf(t) = SignalOf(Source) \/ (t = "rtc" /\ rtc = "earlier")
  <2>1. CASE setup.type = "cycles"
    BY <2>1 DEF SignalOf
  <2>2. CASE setup.type = "time" /\ rtc = "mine"
    BY <1>0, <2>2, SourceIs DEF SignalOf, TimersInv, WithoutDevice
  <2>3. CASE setup.type = "time" /\ rtc # "mine"
    BY <1>0, <2>3, SourceIs DEF SignalOf, TimersInv
  <2> QED
    BY <1>0, <2>1, <2>2, <2>3
<1>5. SignalOf("itimer") = SignalOf(Source) \/ lib.type # "itimer"
  BY <1>0, SourceIs DEF TimersInv, WithoutDevice, SignalOf
<1>6. SignalsInv'
  BY <1>0, <1>1, <1>2, <1>4, <1>5 DEF SignalsInv, SignalsHandled, SignalOf
<1>7. ArmedInv'
  BY <1>0, <1>1 DEF ArmedInv
<1> QED
  BY <1>3, <1>6, <1>7

LEMMA SetTypeTimes ==
  ASSUME SpeedTypeOK, TimersInv, SignalsInv, ArmedInv, SetType, UNCHANGED setup
  PROVE  TimersInv' /\ SignalsInv' /\ ArmedInv'
<1>0. /\ main = "handler" /\ main' = "run" /\ sig = "idle"
      /\ UNCHANGED <<rtc, timers, setup, early, handled, sig>>
  BY DEF SetType
<1>1. lib'.type = Source /\ lib'.irq_rate = lib.irq_rate
  BY DEF SetType, SpeedTypeOK
<1>2. Source' = Source /\ WithoutDevice' = WithoutDevice
      /\ irq_rate(profile_interval)' = irq_rate(profile_interval)
  BY <1>0, SameSource, SameInterval
<1>3. \A t : SignalOf(t)' = SignalOf(t)
  BY <1>0, SameInterval
<1>4. TimersInv'
  BY <1>0, <1>1, <1>2 DEF TimersInv
<1>5. SignalsInv'
  BY <1>0, <1>1, <1>2, <1>3 DEF SignalsInv, SignalsHandled
<1>6. ArmedInv'
  BY <1>0, <1>2 DEF ArmedInv
<1> QED
  BY <1>4, <1>5, <1>6

LEMMA FireTimes ==
  ASSUME SpeedTypeOK, HandlerInv, TimersInv, SignalsInv, ArmedInv,
         NEW t \in timers, Fire(t), UNCHANGED setup
  PROVE  TimersInv' /\ SignalsInv' /\ ArmedInv'
<1>0. /\ timers' \subseteq timers /\ ("rtc" \in timers => "rtc" \in timers')
      /\ UNCHANGED <<rtc, setup, handled, lib>> /\ sig = "idle"
      /\ main' = main \/ main' = "killed"
  BY DEF Fire
<1>1. Source' = Source /\ WithoutDevice' = WithoutDevice
      /\ irq_rate(profile_interval)' = irq_rate(profile_interval)
  BY <1>0, SameSource, SameInterval
<1>2. \A s : SignalOf(s)' = SignalOf(s)
  BY <1>0, SameInterval
<1>3. TimersInv'
  BY <1>0, <1>1 DEF TimersInv
<1>4. SignalsInv'
  BY <1>0, <1>1, <1>2 DEF SignalsInv, SignalsHandled
<1>5. ArmedInv'
  <2>1. CASE main' = "killed"
    BY <2>1 DEF ArmedInv
  <2>2. CASE main' # "killed"
    <3>1. /\ sig' = "fired" /\ early' = (early \/ main = "handler") /\ main' = main
          /\ handled # {}
      BY <2>2 DEF Fire
    <3>2. main # "armed"
      BY <3>1 DEF HandlerInv
    <3> QED
      BY <1>0, <1>1, <3>1, <3>2 DEF ArmedInv
  <2> QED
    BY <2>1, <2>2
<1> QED
  BY <1>3, <1>4, <1>5

LEMMA ResetTimes ==
  ASSUME SpeedTypeOK, HandlerInv, TimersInv, SignalsInv, ArmedInv, reset_itimer_timer, UNCHANGED setup
  PROVE  TimersInv' /\ SignalsInv' /\ ArmedInv'
<1>0. /\ UNCHANGED <<rtc, setup, handled, lib, main, early>> /\ timers \subseteq timers'
      /\ main \notin {"init", "connected", "armed"}
      /\ setup.type \in {"time", "cycles"}
  BY SetupIs DEF reset_itimer_timer, HandlerInv, SpeedTypeOK
<1>1. Source' = Source /\ WithoutDevice' = WithoutDevice
      /\ irq_rate(profile_interval)' = irq_rate(profile_interval)
  BY <1>0, SameSource, SameInterval
<1>2. \A s : SignalOf(s)' = SignalOf(s)
  BY <1>0, SameInterval
<1>3. CASE lib.type = "itimer"
  <2>1. timers' = timers \cup {"itimer"}
    BY <1>3 DEF reset_itimer_timer
  <2>2. TimersInv'
    BY <1>0, <1>1, <1>3, <2>1 DEF TimersInv
  <2>3. SignalsInv'
    BY <1>0, <1>1, <1>2, <1>3, <2>1 DEF SignalsInv, SignalsHandled
  <2>4. ArmedInv'
    BY <1>0, <1>1, <1>3, <2>1 DEF ArmedInv, SignalsInv
  <2> QED
    BY <2>2, <2>3, <2>4
<1>4. CASE lib.type # "itimer" /\ Source = "perfctr"
  <2>1. timers' = timers \cup {"perfctr"}
    BY <1>4 DEF reset_itimer_timer
  <2>2. setup.type = "cycles" /\ "perfctr" \in setup.devices
    BY <1>0, <1>4, SourceIs
  <2>3. TimersInv'
    BY <1>0, <1>1, <2>1, <2>2 DEF TimersInv
  <2>4. handled = {} \/ handled = {"SIGPROF"}
    BY <2>2 DEF SignalsInv
  <2>5. SignalsInv'
    BY <1>0, <1>1, <1>2, <2>1, <2>2, <2>4 DEF SignalsInv, SignalsHandled, SignalOf
  <2>6. ArmedInv'
    BY <1>0, <1>1, <1>4, <2>1 DEF ArmedInv
  <2> QED
    BY <2>3, <2>5, <2>6
<1>5. CASE lib.type # "itimer" /\ Source # "perfctr"
  <2>1. timers' = timers
    BY <1>5 DEF reset_itimer_timer
  <2>2. TimersInv' /\ SignalsInv'
    BY <1>0, <2>1, StillTimed DEF TimerVars
  <2>3. main = "run" => Source = "rtc"
    BY <1>0, <1>5, SourceIs DEF SignalsInv
  <2>4. ArmedInv'
    BY <1>0, <1>1, <2>1, <2>3 DEF ArmedInv, reset_itimer_timer
  <2> QED
    BY <2>2, <2>4
<1> QED
  BY <1>3, <1>4, <1>5

TimingInv == TimersInv /\ SignalsInv /\ ArmedInv

LEMMA TimingStep ==
  SpeedTypeOK /\ HandlerInv /\ TimingInv /\ [SpeedNext]_speedVars => TimingInv'
<1> SUFFICES ASSUME SpeedTypeOK, HandlerInv, TimingInv, [SpeedNext]_speedVars PROVE TimingInv'
  OBVIOUS
<1>0. /\ TimersInv /\ SignalsInv /\ ArmedInv /\ UNCHANGED setup
      /\ lib \in [tracing : BOOLEAN, socket : {"none", "memprof"}, outfd : FDs, seqno : Nat,
                  type : {"rtc", "perfctr", "itimer"}, irq_rate : Nat]
  BY DEF TimingInv, SpeedNext, speedVars, SpeedTypeOK
<1>1. CASE construct
  <2>1. /\ main = "init" /\ main' = "connected" /\ UNCHANGED <<rtc, timers, handled, early, sig>>
        /\ handled = {}
    BY <1>1 DEF construct, HandlerInv
  <2>2. lib'.type = lib.type /\ lib'.irq_rate = lib.irq_rate
    BY <1>0, <1>1 DEF construct, memprof_init, stop_tracing
  <2>3. WithoutDevice' = WithoutDevice
    BY <1>0, <2>1, SameSource
  <2>4. TimersInv'
    BY <1>0, <2>1, <2>2, <2>3 DEF TimersInv
  <2>5. SignalsInv' /\ ArmedInv'
    BY <1>0, <2>1 DEF SignalsInv, SignalsHandled, ArmedInv
  <2> QED
    BY <2>4, <2>5 DEF TimingInv
<1>2. CASE mi_start
  BY <1>0, <1>2, MiStartTimes DEF TimingInv
<1>3. CASE init_sighandler
  BY <1>0, <1>3, InitSighandlerTimes DEF TimingInv
<1>4. CASE SetType
  BY <1>0, <1>4, SetTypeTimes DEF TimingInv
<1>5. ASSUME NEW t \in timers, Fire(t) PROVE TimingInv'
  BY <1>0, <1>5, FireTimes DEF TimingInv
<1>6. CASE sigprof_handler
  <2>1. lib'.type = lib.type /\ lib'.irq_rate = lib.irq_rate
    BY <1>0, <1>6 DEF sigprof_handler
  <2>2. UNCHANGED <<rtc, timers, handled, early, main>> /\ sig' # "idle"
    BY <1>6 DEF sigprof_handler
  <2> QED
    BY <1>0, <2>1, <2>2, StillTimed, StillArmed DEF TimingInv, TimerVars
<1>7. CASE WriteSample
  <2>1. lib'.type = lib.type /\ lib'.irq_rate = lib.irq_rate
    BY <1>0, <1>7 DEF WriteSample, stop_tracing
  <2>2. UNCHANGED <<rtc, timers, handled, early, main>> /\ sig' # "idle"
    BY <1>7 DEF WriteSample
  <2> QED
    BY <1>0, <2>1, <2>2, StillTimed, StillArmed DEF TimingInv, TimerVars
<1>8. CASE reset_itimer_timer
  BY <1>0, <1>8, ResetTimes DEF TimingInv
<1>9. ASSUME NEW kind \in {"file", "socket"}, Open(kind) PROVE TimingInv'
  BY <1>0, <1>9, StillTimed, StillArmed DEF TimingInv, TimerVars, Open, InProgram
<1>10. CASE execve
  <2>1. /\ main' = "init" /\ rtc' = (IF rtc = "none" THEN "none" ELSE "earlier") /\ handled' = {}
        /\ lib'.type = "rtc" /\ timers' = timers
    BY <1>10 DEF execve, FreshLib
  <2>2. WithoutDevice => WithoutDevice'
    BY <1>0, <2>1 DEF WithoutDevice
  <2>3. TimersInv'
    BY <1>0, <2>1, <2>2 DEF TimersInv
  <2>4. SignalsInv' /\ ArmedInv'
    BY <2>1 DEF SignalsInv, SignalsHandled, ArmedInv
  <2> QED
    BY <2>3, <2>4 DEF TimingInv
<1>11. CASE atexit_trap
  <2>1. lib'.type = lib.type /\ lib'.irq_rate = lib.irq_rate
    BY <1>0, <1>11 DEF atexit_trap
  <2>2. UNCHANGED <<rtc, timers, handled, early, sig>> /\ main' \in {"numbered", "leaving"} /\ sig = "idle"
    BY <1>11 DEF atexit_trap
  <2> QED
    BY <1>0, <2>1, <2>2, StillTimed, StillArmed DEF TimingInv, TimerVars
<1>12. CASE mi_stop
  <2>1. main' = "stopped" /\ UNCHANGED <<lib, handled>>
    BY <1>12 DEF mi_stop
  <2>2. ArmedInv'
    BY <2>1 DEF ArmedInv
  <2>3. CASE UNCHANGED <<timers, rtc>>
    <3>1. TimersInv' /\ SignalsInv'
      BY <1>0, <1>12, <2>1, <2>3, StillTimed DEF TimerVars, mi_stop
    <3> QED
      BY <2>2, <3>1 DEF TimingInv
  <2>4. CASE rtc = "mine" /\ timers' = timers \ {"rtc"} /\ rtc' = "none"
    <3>1. "itimer" \notin timers /\ lib.type # "itimer"
      BY <1>0, <2>4, SetupIs DEF TimersInv, WithoutDevice
    <3>2. TimersInv'
      BY <1>0, <2>1, <2>4, <3>1 DEF TimersInv
    <3>3. \A t : SignalOf(t)' = SignalOf(t)
      BY <1>0, SameInterval
    <3>4. SignalsInv'
      BY <1>0, <2>1, <2>4, <3>3 DEF SignalsInv, SignalsHandled
    <3> QED
      BY <2>2, <3>2, <3>4 DEF TimingInv
  <2> QED
    BY <1>12, <2>3, <2>4 DEF mi_stop
<1>13. CASE exit_wait
  <2>1. UNCHANGED <<rtc, timers, handled, early, sig, lib>> /\ main' \in {"wait", "closed"} /\ sig = "idle"
    BY <1>13 DEF exit_wait
  <2> QED
    BY <1>0, <2>1, StillTimed, StillArmed DEF TimingInv, TimerVars
<1>14. CASE ExitAnswer
  BY <1>0, <1>14, StillTimed, StillArmed DEF TimingInv, TimerVars, ExitAnswer
<1>15. CASE ExitDone
  <2>1. lib'.type = lib.type /\ lib'.irq_rate = lib.irq_rate
    BY <1>0, <1>15 DEF ExitDone
  <2>2. UNCHANGED <<rtc, timers, handled, early, sig>> /\ main' = "leaving" /\ sig = "idle"
    BY <1>15 DEF ExitDone
  <2> QED
    BY <1>0, <2>1, <2>2, StillTimed, StillArmed DEF TimingInv, TimerVars
<1>16. CASE Leave
  BY <1>0, <1>16, StillTimed, StillArmed DEF TimingInv, TimerVars, Leave
<1>17. CASE UNCHANGED clientVars
  BY <1>0, <1>17, StillTimed, StillArmed DEF TimingInv, TimerVars, clientVars
<1> QED
  BY <1>1, <1>2, <1>3, <1>4, <1>5, <1>6, <1>7, <1>8, <1>9, <1>10, <1>11, <1>12, <1>13, <1>14,
     <1>15, <1>16, <1>17
     DEF SpeedNext, HandlerStep, StartStep, ExitStep, ServerStep, speedVars,
         input_func, InputEOF, process_detach

\* The clock's rate is found: twice the rate before it was too slow.
LEMMA ClockIs ==
  SpeedTypeOK /\ TimersInv => ClockFollows
<1> SUFFICES ASSUME SpeedTypeOK, TimersInv, "rtc" \in timers, rtc = "mine"
             PROVE  /\ lib.irq_rate <= 8192
                    /\ lib.irq_rate < 8192 => 1000000 < (profile_interval + 1) * lib.irq_rate
                    /\ lib.irq_rate * profile_interval < 2 * 1000000
  BY DEF ClockFollows
<1> DEFINE i == profile_interval
           r == irq_rate(i)
<1>1. lib.irq_rate = r
  BY DEF TimersInv
<1>2. i \in Nat /\ i < 2000000
  BY IntervalIs
<1>3. /\ r \in Rates /\ (1000000 \div r <= i \/ r = 8192)
      /\ \A s \in Rates : s < r => ~(1000000 \div s <= i)
  BY RateIs
<1> HIDE DEF i, r
<1>4. r \in Nat \ {0} /\ r <= 8192
  BY <1>3 DEF Rates
<1>5. r < 8192 => 1000000 < (i + 1) * r
  <2> SUFFICES ASSUME r < 8192 PROVE 1000000 < (i + 1) * r
    OBVIOUS
  <2>1. 1000000 \div r <= i
    BY <1>3, <1>4
  <2> QED
    BY <1>2, <1>3, <2>1 DEF Rates
<1>6. r * i < 2000000
  <2>1. CASE r = 1
    BY <1>2, <2>1
  <2>2. CASE r # 1
    <3>1. \E s \in Rates : r = 2 * s
      BY <1>3, <2>2 DEF Rates
    <3>2. PICK s \in Rates : r = 2 * s
      BY <3>1
    <3>3. s \in Nat /\ s < r
      BY <3>2 DEF Rates
    <3>4. i < 1000000 \div s
      BY <1>2, <1>3, <3>2, <3>3 DEF Rates
    <3>5. s * i < 1000000
      BY <1>2, <3>2, <3>4 DEF Rates
    <3>6. r * i = 2 * (s * i)
      BY <1>2, <3>2, <3>3
    <3> QED
      BY <1>2, <3>3, <3>5, <3>6
  <2> QED
    BY <2>1, <2>2
<1> QED
  BY <1>1, <1>4, <1>5, <1>6 DEF i

-----------------------------------------------------------------------------
(* Where the numbers are.                                                  *)

OnWire(n)  == \E i \in DOMAIN wire : wire[i].seqno = n
InQueue(n) == \E x \in obj.queue : x.seqno = n
IsHeld(n)  == n \in {held.thread, held.handler} \ {NoNumber}

\* What memprof has not read are other numbers than those it has, each once;
\* it counts what it reads.
ReadInv ==
  /\ Queued(obj) /\ Waiting(obj)
  /\ peer = "open" =>
       /\ \A i \in DOMAIN wire : wire[i].seqno >= obj.seqno /\ ~InQueue(wire[i].seqno)
       /\ \A i, j \in DOMAIN wire : wire[i].seqno = wire[j].seqno => i = j
       /\ IsFiniteSet(Unread)
       /\ SamplesCounted

\* While the image is connected, the numbers from the one memprof expects to the
\* next one are each held, unread or in the queue.
NumbersInv ==
  CanSend(lib.outfd) =>
    /\ obj.seqno <= lib.seqno
    /\ \A n \in Nat : OnWire(n) \/ InQueue(n) => n < lib.seqno
    /\ \A n \in Nat : IsHeld(n) => /\ obj.seqno <= n /\ n < lib.seqno
                                   /\ ~OnWire(n) /\ ~InQueue(n)
    /\ held.thread = held.handler => held.thread = NoNumber
    /\ \A n \in obj.seqno .. (lib.seqno - 1) : OnWire(n) \/ InQueue(n) \/ IsHeld(n)

\* A report is put at the end of what is unread.
LEMMA UnreadGrows ==
  ASSUME wire \in Seq(Records), NEW r \in Records, wire' = Append(wire, r)
  PROVE  /\ wire' \in Seq(Records)
         /\ Unread' = Unread \cup {r}
         /\ DOMAIN wire' = 1 .. (Len(wire) + 1) /\ DOMAIN wire = 1 .. Len(wire) /\ Len(wire) \in Nat
         /\ wire'[Len(wire) + 1] = r
         /\ \A i \in DOMAIN wire : i \in DOMAIN wire' /\ wire'[i] = wire[i]
<1>1. /\ wire' \in Seq(Records) /\ DOMAIN wire' = 1 .. (Len(wire) + 1)
      /\ DOMAIN wire = 1 .. Len(wire) /\ Len(wire) \in Nat
      /\ wire'[Len(wire) + 1] = r
      /\ \A i \in 1 .. Len(wire) : wire'[i] = wire[i]
  OBVIOUS
<1>2. \A i \in 1 .. (Len(wire) + 1) : i \in 1 .. Len(wire) \/ i = Len(wire) + 1
  BY <1>1
<1>3. \A i \in 1 .. Len(wire) : i \in 1 .. (Len(wire) + 1)
  BY <1>1
<1>4. Len(wire) + 1 \in DOMAIN wire'
  BY <1>1
<1>5. Unread' = Unread \cup {r}
  <2>1. \A x : x \in Unread' <=> \E i \in DOMAIN wire' : x = wire'[i]
    BY DEF Unread
  <2>2. \A x : x \in Unread <=> \E i \in DOMAIN wire : x = wire[i]
    BY DEF Unread
  <2>3. \A x \in Unread' : x \in Unread \cup {r}
    BY <1>1, <1>2, <2>1, <2>2
  <2>4. \A x \in Unread \cup {r} : x \in Unread'
    BY <1>1, <1>3, <1>4, <2>1, <2>2
  <2> QED
    BY <2>3, <2>4
<1> QED
  BY <1>1, <1>3, <1>5

\* The first report is taken.
LEMMA UnreadShrinks ==
  ASSUME wire \in Seq(Records), wire # <<>>, wire' = Tail(wire),
         \A i, j \in DOMAIN wire : wire[i].seqno = wire[j].seqno => i = j
  PROVE  /\ wire' \in Seq(Records)
         /\ Head(wire) \in Unread /\ Head(wire) \in Records /\ Unread' = Unread \ {Head(wire)}
         /\ 1 \in DOMAIN wire /\ wire[1] = Head(wire)
         /\ \A i \in DOMAIN wire' : i + 1 \in DOMAIN wire /\ i + 1 # 1 /\ wire'[i] = wire[i + 1]
         /\ \A i \in DOMAIN wire : i = 1 \/ (i - 1 \in DOMAIN wire' /\ wire'[i - 1] = wire[i])
<1>1. /\ wire' \in Seq(Records) /\ Len(wire') = Len(wire) - 1 /\ Len(wire) \in Nat \ {0}
      /\ DOMAIN wire = 1 .. Len(wire) /\ DOMAIN wire' = 1 .. Len(wire')
      /\ \A i \in 1 .. Len(wire') : wire'[i] = wire[i + 1]
      /\ wire[1] = Head(wire) /\ Head(wire) \in Records
  OBVIOUS
<1>2. \A i \in DOMAIN wire' : i + 1 \in DOMAIN wire /\ i + 1 # 1 /\ wire'[i] = wire[i + 1]
  BY <1>1
<1>3. \A i \in 1 .. Len(wire) : i = 1 \/ (i - 1 \in 1 .. Len(wire') /\ (i - 1) + 1 = i)
  BY <1>1
<1>4. \A i \in DOMAIN wire : i = 1 \/ (i - 1 \in DOMAIN wire' /\ wire'[i - 1] = wire[i])
  BY <1>1, <1>3
<1>5. 1 \in DOMAIN wire
  BY <1>1
<1>6. Head(wire) \in Unread /\ Unread' = Unread \ {Head(wire)}
  <2>1. \A x : x \in Unread' <=> \E i \in DOMAIN wire' : x = wire'[i]
    BY DEF Unread
  <2>2. \A x : x \in Unread <=> \E i \in DOMAIN wire : x = wire[i]
    BY DEF Unread
  <2>3. \A x \in Unread' : x \in Unread /\ x # Head(wire)
    BY <1>1, <1>2, <1>5, <2>1, <2>2
  <2>4. ASSUME NEW x \in Unread, x # Head(wire) PROVE x \in Unread'
    <3>1. PICK i \in DOMAIN wire : x = wire[i]
      BY <2>2
    <3>2. i # 1
      BY <1>1, <2>4, <3>1
    <3>3. i - 1 \in DOMAIN wire' /\ wire'[i - 1] = x
      BY <1>4, <3>1, <3>2
    <3> QED
      BY <2>1, <3>3
  <2>5. Head(wire) \in Unread
    BY <1>1, <1>5, <2>2
  <2> QED
    BY <2>3, <2>4, <2>5
<1> QED
  BY <1>1, <1>2, <1>4, <1>5, <1>6

\* What memprof makes of a report, put at once.
LEMMA ReadOne ==
  ASSUME NEW o \in Objs, Queued(o), Waiting(o), NEW r \in Records, r.seqno >= o.seqno,
         \A x \in o.queue : x.seqno # r.seqno
  PROVE  LET p == process_command(o, r)
         IN /\ p \in Objs /\ Queued(p) /\ Waiting(p) /\ p.seqno >= o.seqno
            /\ p.bytes_used + Cardinality(Samples(p.queue))
                 = o.bytes_used + Cardinality(Samples(o.queue)) + IsSample(r)
            /\ \A x \in p.queue : x \in o.queue \cup {r}
            /\ \A x \in o.queue \cup {r} : x \in p.queue \/ x.seqno < p.seqno
            /\ \A n \in o.seqno .. (p.seqno - 1) : n = r.seqno \/ \E x \in o.queue : x.seqno = n
<1> DEFINE p == process_command(o, r)
<1>0. /\ o.seqno \in Nat /\ r.seqno \in Nat /\ \A x \in o.queue : x.seqno \in Nat
      /\ IsFiniteSet(o.queue) /\ o.bytes_used \in Nat
  BY DEF Objs, Records, Queued
<1>1. CASE r.seqno = o.seqno
  <2>1. Reached(o, r, p) /\ Waiting(p)
    BY <1>1, Processed
  <2> HIDE DEF p
  <2>2. p \in Objs /\ p.seqno \in Nat
    BY <2>1 DEF Reached, Objs
  <2>3. r.seqno < p.seqno /\ p.seqno >= o.seqno
    BY <1>0, <1>1, <2>1, <2>2 DEF Reached
  <2>4. \A n \in o.seqno .. (p.seqno - 1) : n = r.seqno \/ \E x \in o.queue : x.seqno = n
    BY <1>1, <2>1 DEF Reached
  <2>5. \A x \in o.queue \cup {r} : x \in p.queue \/ x.seqno < p.seqno
    BY <2>1, <2>3 DEF Reached
  <2>6. /\ Queued(p) /\ p.queue \subseteq o.queue
        /\ p.bytes_used + Cardinality(Samples(p.queue))
             = o.bytes_used + Cardinality(Samples(o.queue)) + IsSample(r)
    BY <2>1 DEF Reached
  <2>7. \A x \in p.queue : x \in o.queue \cup {r}
    BY <2>6
  <2> QED
    BY <2>1, <2>2, <2>3, <2>4, <2>5, <2>6, <2>7 DEF p
<1>2. CASE r.seqno # o.seqno
  <2>1. p = [o EXCEPT !.queue = @ \cup {r}]
    BY <1>2 DEF process_command
  <2> HIDE DEF p
  <2>2. /\ p.seqno = o.seqno /\ p.queue = o.queue \cup {r} /\ p.bytes_used = o.bytes_used
        /\ p.table = o.table
    BY <2>1 DEF Objs
  <2>3. p \in Objs
    <3>1. o.queue \cup {r} \in SUBSET Records
      BY DEF Objs
    <3> QED
      BY <2>1, <3>1 DEF Objs
  <2>4. r \notin o.queue
    OBVIOUS
  <2>5. /\ Cardinality(Samples(o.queue)) \in Nat
        /\ Cardinality(Samples(p.queue)) = Cardinality(Samples(o.queue)) + IsSample(r)
    BY <1>0, <2>2, <2>4, SampleAdded
  <2>6. IsFiniteSet(p.queue)
    BY <1>0, <2>2, FS_AddElement
  <2>7. Queued(p)
    BY <1>0, <2>2, <2>6 DEF Queued
  <2>8. Waiting(p)
    BY <1>2, <2>2 DEF Waiting
  <2>9. IsSample(r) \in Nat
    BY DEF IsSample
  <2>10. p.bytes_used + Cardinality(Samples(p.queue))
           = o.bytes_used + Cardinality(Samples(o.queue)) + IsSample(r)
    BY <1>0, <2>2, <2>5, <2>9
  <2>11. \A n \in o.seqno .. (p.seqno - 1) : FALSE
    BY <1>0, <2>2
  <2>12. p.seqno >= o.seqno
    BY <1>0, <2>2
  <2> QED
    BY <2>2, <2>3, <2>7, <2>8, <2>10, <2>11, <2>12 DEF p
<1> QED
  BY <1>1, <1>2

\* Numbers are where they were.
ReadVars == <<wire, peer, obj, taken>>

LEMMA ReadSame ==
  ASSUME ReadInv, UNCHANGED ReadVars
  PROVE  ReadInv'
<1>1. Unread' = Unread /\ \A n : InQueue(n)' = InQueue(n)
  BY DEF Unread, InQueue, ReadVars
<1> QED
  BY <1>1 DEF ReadInv, ReadVars, Queued, Waiting, SamplesCounted

LEMMA NumbersSame ==
  ASSUME NumbersInv, UNCHANGED <<wire, obj, held, lib.outfd, lib.seqno>>,
         CanSend(lib.outfd)' => CanSend(lib.outfd)
  PROVE  NumbersInv'
BY DEF NumbersInv, OnWire, InQueue, IsHeld

LEMMA NumbersGone ==
  ASSUME ~CanSend(lib.outfd)'
  PROVE  NumbersInv'
BY DEF NumbersInv

\* A held number, written.
LEMMA WrittenRead ==
  ASSUME SpeedTypeOK, ReadInv, NumbersInv, CanSend(lib.outfd), UNCHANGED <<peer, obj>>,
         NEW r \in Records, Written(r), IsHeld(r.seqno), taken' = taken + IsSample(r)
  PROVE  ReadInv'
<1>1. /\ r.seqno \in Nat /\ r.seqno >= obj.seqno /\ ~OnWire(r.seqno) /\ ~InQueue(r.seqno)
      /\ peer = "open"
  BY DEF NumbersInv, CanSend, Records
<1>2. wire \in Seq(Records) /\ wire' = Append(wire, r)
  BY DEF SpeedTypeOK, Written
<1>3. /\ Unread' = Unread \cup {r}
      /\ DOMAIN wire' = 1 .. (Len(wire) + 1) /\ DOMAIN wire = 1 .. Len(wire) /\ Len(wire) \in Nat
      /\ wire'[Len(wire) + 1] = r
      /\ \A i \in DOMAIN wire : i \in DOMAIN wire' /\ wire'[i] = wire[i]
  BY <1>2, UnreadGrows
<1>4. \A i \in DOMAIN wire' : i \in DOMAIN wire \/ i = Len(wire) + 1
  BY <1>3
<1>5. \A n : InQueue(n)' = InQueue(n)
  BY DEF InQueue
<1>6. \A i \in DOMAIN wire : wire[i].seqno # r.seqno
  BY <1>1 DEF OnWire
<1>7. (\A i \in DOMAIN wire : wire[i].seqno >= obj.seqno /\ ~InQueue(wire[i].seqno))'
  <2>1. \A i \in DOMAIN wire' : wire'[i].seqno >= obj.seqno /\ ~InQueue(wire'[i].seqno)
    <3>1. \A i \in DOMAIN wire : wire[i].seqno >= obj.seqno /\ ~InQueue(wire[i].seqno)
      BY <1>1 DEF ReadInv
    <3> QED
      BY <1>1, <1>3, <1>4, <3>1
  <2> QED
    BY <2>1 DEF InQueue
<1>8. \A i, j \in DOMAIN wire' : wire'[i].seqno = wire'[j].seqno => i = j
  BY <1>1, <1>3, <1>4, <1>6 DEF ReadInv
<1>9. r \notin Unread
  BY <1>6 DEF Unread
<1>10. /\ IsFiniteSet(Unread) /\ IsFiniteSet(Unread') /\ IsFiniteSet(obj.queue)
       /\ obj.bytes_used + Cardinality(Samples(obj.queue)) + Cardinality(Samples(Unread)) = taken
  BY <1>1, <1>3, FS_AddElement DEF ReadInv, Queued, SamplesCounted
<1>11. /\ Cardinality(Samples(Unread)) \in Nat /\ Cardinality(Samples(obj.queue)) \in Nat
       /\ obj.bytes_used \in Nat /\ IsSample(r) \in Nat
  <2>1. IsFiniteSet(Samples(Unread)) /\ IsFiniteSet(Samples(obj.queue))
    BY <1>10, FS_Subset DEF Samples
  <2> QED
    BY <2>1, FS_CardinalityType DEF SpeedTypeOK, IsSample
<1>12. Cardinality(Samples(Unread')) = Cardinality(Samples(Unread)) + IsSample(r)
  BY <1>3, <1>9, <1>10, SampleAdded
<1>13. obj'.bytes_used + Cardinality(Samples(obj'.queue)) + Cardinality(Samples(Unread')) = taken'
  BY <1>10, <1>11, <1>12
<1>14. SamplesCounted'
  BY <1>13 DEF SamplesCounted, Samples
<1>15. Queued(obj)' /\ Waiting(obj)'
  BY DEF ReadInv, Queued, Waiting
<1>16. IsFiniteSet(Unread)'
  BY <1>10
<1> QED
  BY <1>7, <1>8, <1>14, <1>15, <1>16 DEF ReadInv

LEMMA WrittenNumbers ==
  ASSUME SpeedTypeOK, NumbersInv, CanSend(lib.outfd), UNCHANGED <<peer, obj, fds, lib>>,
         NEW r \in Records, Written(r),
         \A n : IsHeld(n) <=> n = r.seqno \/ IsHeld(n)',
         \A n : IsHeld(n)' => n # r.seqno,
         held'.thread = held'.handler => held'.thread = NoNumber
  PROVE  NumbersInv'
<1>1. wire \in Seq(Records) /\ wire' = Append(wire, r) /\ r.seqno \in Nat
  BY DEF SpeedTypeOK, Written, Records
<1>2. /\ DOMAIN wire' = 1 .. (Len(wire) + 1) /\ DOMAIN wire = 1 .. Len(wire) /\ Len(wire) \in Nat
      /\ wire'[Len(wire) + 1] = r
      /\ \A i \in DOMAIN wire : i \in DOMAIN wire' /\ wire'[i] = wire[i]
  BY <1>1, UnreadGrows
<1>3. \A i \in DOMAIN wire' : i \in DOMAIN wire \/ i = Len(wire) + 1
  BY <1>2
<1>4. \A n : OnWire(n)' <=> OnWire(n) \/ n = r.seqno
  <2>1. Len(wire) + 1 \in DOMAIN wire'
    BY <1>2
  <2> QED
    BY <1>2, <1>3, <2>1 DEF OnWire
<1>5. \A n : InQueue(n)' = InQueue(n)
  BY DEF InQueue
<1>6. IsHeld(r.seqno)
  OBVIOUS
<1> QED
  BY <1>1, <1>4, <1>5, <1>6 DEF NumbersInv

\* What memprof has of the connection after one report.
LEMMA InputIs ==
  ASSUME SpeedTypeOK, ReadInv, input_func
  PROVE  LET r == Head(wire)
         IN /\ r \in Records /\ OnWire(r.seqno)
            /\ obj' \in Objs /\ Queued(obj)' /\ Waiting(obj)' /\ obj'.seqno >= obj.seqno
            /\ obj'.bytes_used + Cardinality(Samples(obj'.queue))
                 = obj.bytes_used + Cardinality(Samples(obj.queue)) + IsSample(r)
            /\ \A x \in obj'.queue : x \in obj.queue \cup {r}
            /\ \A x \in obj.queue \cup {r} : x \in obj'.queue \/ x.seqno < obj'.seqno
            /\ \A n \in obj.seqno .. (obj'.seqno - 1) : n = r.seqno \/ InQueue(n)
<1> DEFINE r == Head(wire)
           p == process_command(obj, r)
<1>1. obj \in Objs /\ wire \in Seq(Records) /\ wire # <<>> /\ peer = "open" /\ wire' = Tail(wire)
  BY DEF SpeedTypeOK, Objs, input_func
<1>2. r \in Records /\ 1 \in DOMAIN wire /\ wire[1] = r
  BY <1>1, UnreadShrinks DEF ReadInv
<1>3. r.seqno >= obj.seqno /\ \A x \in obj.queue : x.seqno # r.seqno
  BY <1>1, <1>2 DEF ReadInv, InQueue
<1>4. OnWire(r.seqno)
  BY <1>2 DEF OnWire
<1>5. obj' = IF r.operation = "MI_EXIT" THEN [p EXCEPT !.status = "EXITING"] ELSE p
  BY DEF input_func
<1>6. Queued(obj) /\ Waiting(obj)
  BY DEF ReadInv
<1> HIDE DEF r
<1>7. /\ p \in Objs /\ Queued(p) /\ Waiting(p) /\ p.seqno >= obj.seqno
      /\ p.bytes_used + Cardinality(Samples(p.queue))
           = obj.bytes_used + Cardinality(Samples(obj.queue)) + IsSample(r)
      /\ \A x \in p.queue : x \in obj.queue \cup {r}
      /\ \A x \in obj.queue \cup {r} : x \in p.queue \/ x.seqno < p.seqno
      /\ \A n \in obj.seqno .. (p.seqno - 1) : n = r.seqno \/ \E x \in obj.queue : x.seqno = n
  BY <1>1, <1>2, <1>3, <1>6, ReadOne
<1> HIDE DEF p
<1>8. /\ obj' \in Objs /\ obj'.seqno = p.seqno /\ obj'.queue = p.queue /\ obj'.table = p.table
      /\ obj'.bytes_used = p.bytes_used
  BY <1>5, <1>7 DEF Objs
<1>9. Queued(obj)' /\ Waiting(obj)'
  BY <1>7, <1>8 DEF Queued, Waiting
<1> QED
  BY <1>2, <1>4, <1>7, <1>8, <1>9 DEF r, InQueue

LEMMA InputRead ==
  ASSUME SpeedTypeOK, ReadInv, input_func
  PROVE  ReadInv'
<1> DEFINE r == Head(wire)
<1>1. /\ wire \in Seq(Records) /\ wire # <<>> /\ peer = "open" /\ peer' = "open" /\ wire' = Tail(wire)
      /\ taken' = taken
  BY DEF SpeedTypeOK, input_func, clientVars
<1>2. /\ r \in Unread /\ Unread' = Unread \ {r}
      /\ 1 \in DOMAIN wire /\ wire[1] = r
      /\ \A i \in DOMAIN wire' : i + 1 \in DOMAIN wire /\ i + 1 # 1 /\ wire'[i] = wire[i + 1]
  BY <1>1, UnreadShrinks DEF ReadInv
<1>3. /\ r \in Records
      /\ obj' \in Objs /\ Queued(obj)' /\ Waiting(obj)' /\ obj'.seqno >= obj.seqno
      /\ obj'.bytes_used + Cardinality(Samples(obj'.queue))
           = obj.bytes_used + Cardinality(Samples(obj.queue)) + IsSample(r)
      /\ \A x \in obj'.queue : x \in obj.queue \cup {r}
      /\ \A n \in obj.seqno .. (obj'.seqno - 1) : n = r.seqno \/ InQueue(n)
  BY InputIs
<1>4. /\ \A i \in DOMAIN wire : wire[i].seqno >= obj.seqno /\ ~InQueue(wire[i].seqno)
      /\ \A i, j \in DOMAIN wire : wire[i].seqno = wire[j].seqno => i = j
      /\ IsFiniteSet(Unread) /\ SamplesCounted
  BY <1>1 DEF ReadInv
<1>5. \A i \in DOMAIN wire : wire[i].seqno \in Nat
  <2>1. \A i \in DOMAIN wire : wire[i] \in Records
    BY <1>1
  <2> QED
    BY <2>1 DEF Records
<1>6. obj.seqno \in Nat /\ obj'.seqno \in Nat
  BY <1>3 DEF SpeedTypeOK, Objs
<1>7. ASSUME NEW i \in DOMAIN wire'
      PROVE  wire'[i].seqno >= obj'.seqno /\ \A x \in obj'.queue : x.seqno # wire'[i].seqno
  <2> DEFINE n == wire'[i].seqno
  <2>1. i + 1 \in DOMAIN wire /\ i + 1 # 1 /\ n = wire[i + 1].seqno
    BY <1>2, <1>7
  <2>2. n # r.seqno /\ n \in Nat /\ n >= obj.seqno /\ ~InQueue(n)
    BY <1>2, <1>4, <1>5, <2>1
  <2> HIDE DEF n
  <2>3. n >= obj'.seqno
    BY <1>3, <1>6, <2>2
  <2>4. \A x \in obj'.queue : x.seqno # n
    BY <1>3, <2>2 DEF InQueue
  <2> QED
    BY <2>3, <2>4 DEF n
<1>8. (\A i \in DOMAIN wire : wire[i].seqno >= obj.seqno /\ ~InQueue(wire[i].seqno))'
  BY <1>7 DEF InQueue
<1>9. \A i, j \in DOMAIN wire' : wire'[i].seqno = wire'[j].seqno => i = j
  <2> SUFFICES ASSUME NEW i \in DOMAIN wire', NEW j \in DOMAIN wire', wire'[i].seqno = wire'[j].seqno
               PROVE  i = j
    OBVIOUS
  <2>1. i + 1 = j + 1
    BY <1>2, <1>4
  <2>2. i \in Nat /\ j \in Nat
    <3>1. wire' \in Seq(Records)
      BY <1>1, UnreadShrinks DEF ReadInv
    <3> QED
      BY <3>1
  <2> QED
    BY <2>1, <2>2
<1> HIDE DEF r
<1>10. /\ IsFiniteSet(Unread') /\ Cardinality(Samples(Unread')) \in Nat
       /\ Cardinality(Samples(Unread)) = Cardinality(Samples(Unread')) + IsSample(r)
  BY <1>2, <1>4, SampleTaken
<1>11. /\ Cardinality(Samples(obj.queue)) \in Nat /\ Cardinality(Samples(obj'.queue)) \in Nat
       /\ obj.bytes_used \in Nat /\ obj'.bytes_used \in Nat /\ IsSample(r) \in Nat
  <2>1. IsFiniteSet(Samples(obj.queue)) /\ IsFiniteSet(Samples(obj'.queue))
    <3>1. IsFiniteSet(obj.queue) /\ IsFiniteSet(obj'.queue)
      BY <1>3 DEF ReadInv, Queued
    <3> QED
      BY <3>1, FS_Subset DEF Samples
  <2> QED
    BY <1>3, <2>1, FS_CardinalityType DEF SpeedTypeOK, IsSample, Objs
<1>12. obj'.bytes_used + Cardinality(Samples(obj'.queue)) + Cardinality(Samples(Unread')) = taken'
  <2>1. obj.bytes_used + Cardinality(Samples(obj.queue)) + Cardinality(Samples(Unread)) = taken
    BY <1>1, <1>4 DEF SamplesCounted
  <2> QED
    BY <1>1, <1>3, <1>10, <1>11, <2>1
<1>13. SamplesCounted'
  BY <1>12 DEF SamplesCounted, Samples
<1>14. IsFiniteSet(Unread)'
  BY <1>10
<1> QED
  BY <1>3, <1>8, <1>9, <1>13, <1>14 DEF ReadInv

LEMMA InputNumbers ==
  ASSUME SpeedTypeOK, ReadInv, NumbersInv, input_func
  PROVE  NumbersInv'
<1> DEFINE r == Head(wire)
<1>1. /\ wire \in Seq(Records) /\ wire # <<>> /\ UNCHANGED <<peer, fds, lib, held>> /\ wire' = Tail(wire)
      /\ peer = "open"
  BY DEF SpeedTypeOK, input_func, clientVars
<1>2. /\ 1 \in DOMAIN wire /\ wire[1] = r
      /\ \A i \in DOMAIN wire' : i + 1 \in DOMAIN wire /\ wire'[i] = wire[i + 1]
      /\ \A i \in DOMAIN wire : i = 1 \/ (i - 1 \in DOMAIN wire' /\ wire'[i - 1] = wire[i])
  BY <1>1, UnreadShrinks DEF ReadInv
<1>3. /\ r \in Records /\ OnWire(r.seqno) /\ obj' \in Objs /\ obj'.seqno >= obj.seqno
      /\ \A x \in obj'.queue : x \in obj.queue \cup {r}
      /\ \A x \in obj.queue \cup {r} : x \in obj'.queue \/ x.seqno < obj'.seqno
      /\ \A n \in obj.seqno .. (obj'.seqno - 1) : n = r.seqno \/ InQueue(n)
  BY InputIs
<1> SUFFICES ASSUME CanSend(lib.outfd) PROVE NumbersInv'
  BY <1>1 DEF NumbersInv, CanSend
<1>4. /\ obj.seqno <= lib.seqno
      /\ \A n \in Nat : OnWire(n) \/ InQueue(n) => n < lib.seqno
      /\ \A n \in Nat : IsHeld(n) => obj.seqno <= n /\ n < lib.seqno /\ ~OnWire(n) /\ ~InQueue(n)
      /\ held.thread = held.handler => held.thread = NoNumber
      /\ \A n \in obj.seqno .. (lib.seqno - 1) : OnWire(n) \/ InQueue(n) \/ IsHeld(n)
  BY DEF NumbersInv
<1>5. lib.seqno \in Nat /\ obj.seqno \in Nat /\ obj'.seqno \in Nat /\ r.seqno \in Nat
  BY <1>3 DEF SpeedTypeOK, Objs, Records
<1>6. obj'.seqno <= lib.seqno
  <2> SUFFICES ASSUME obj'.seqno > lib.seqno PROVE FALSE
    BY <1>5
  <2>1. lib.seqno \in obj.seqno .. (obj'.seqno - 1)
    BY <1>4, <1>5
  <2>2. OnWire(lib.seqno) \/ InQueue(lib.seqno)
    BY <1>3, <2>1
  <2> QED
    BY <1>4, <1>5, <2>2
<1>7. \A n : OnWire(n)' => OnWire(n)
  BY <1>2 DEF OnWire
<1>8. \A n : OnWire(n) => OnWire(n)' \/ n = r.seqno
  BY <1>2 DEF OnWire
<1>9. \A n : InQueue(n)' => InQueue(n) \/ n = r.seqno
  BY <1>3 DEF InQueue
<1>10. \A n : InQueue(n) \/ n = r.seqno => InQueue(n)' \/ n < obj'.seqno
  BY <1>3 DEF InQueue
<1>11. \A n : IsHeld(n)' = IsHeld(n)
  BY <1>1 DEF IsHeld
<1> HIDE DEF r
<1>12. ASSUME NEW n \in Nat, IsHeld(n)
       PROVE  obj'.seqno <= n /\ n < lib.seqno /\ ~OnWire(n)' /\ ~InQueue(n)'
  <2>1. obj.seqno <= n /\ n < lib.seqno /\ ~OnWire(n) /\ ~InQueue(n) /\ n # r.seqno
    BY <1>3, <1>4, <1>12
  <2>2. obj'.seqno <= n
    BY <1>3, <1>5, <2>1
  <2> QED
    BY <1>7, <1>9, <2>1, <2>2
<1>13. \A n \in Nat : OnWire(n)' \/ InQueue(n)' => n < lib.seqno
  BY <1>3, <1>4, <1>5, <1>7, <1>9
<1>14. ASSUME NEW n \in obj'.seqno .. (lib.seqno - 1) PROVE OnWire(n)' \/ InQueue(n)' \/ IsHeld(n)
  <2>1. n \in obj.seqno .. (lib.seqno - 1) /\ ~(n < obj'.seqno)
    BY <1>3, <1>5
  <2> QED
    BY <1>4, <1>8, <1>10, <2>1
<1> QED
  BY <1>1, <1>4, <1>6, <1>11, <1>12, <1>13, <1>14 DEF NumbersInv

\* A new image that is accepted starts with nothing unread and no number taken.
LEMMA ConnectedReads ==
  ASSUME SpeedTypeOK, HandlerInv, ReadInv, NumbersInv, construct
  PROVE  ReadInv' /\ NumbersInv'
<1>1. /\ main = "init" /\ SomeFree /\ UNCHANGED held
      /\ lib.seqno = 0 /\ \A d \in FDs : fds[d] # "lib"
      /\ held.handler = NoNumber /\ held.thread = NoNumber
  BY DEF construct, HandlerInv
<1>2. /\ Lowest \in FDs /\ fds[Lowest] = "free"
      /\ lib \in [tracing : BOOLEAN, socket : {"none", "memprof"}, outfd : FDs, seqno : Nat,
                  type : {"rtc", "perfctr", "itimer"}, irq_rate : Nat]
  BY <1>1, LowestIs DEF SpeedTypeOK
<1>3. CASE UNCHANGED <<fds, taken, memprofVars>> /\ lib'.outfd \in FDs
  <2>1. ReadInv'
    BY <1>3, ReadSame DEF ReadVars, memprofVars
  <2>2. ~CanSend(lib.outfd)'
    BY <1>1, <1>3 DEF CanSend
  <2> QED
    BY <2>1, <2>2, NumbersGone
<1>4. CASE /\ lib' = memprof_init(lib) /\ peer' = "open" /\ wire' = <<>> /\ taken' = 0
           /\ obj' = [status |-> "RUNNING", seqno |-> 0, queue |-> {}, table |-> {}, bytes_used |-> 0]
  <2>1. lib'.seqno = 0
    BY <1>1, <1>2, <1>4 DEF memprof_init
  <2>2. obj'.seqno = 0 /\ obj'.queue = {} /\ obj'.table = {} /\ obj'.bytes_used = 0
    BY <1>4
  <2>3. DOMAIN wire' = {}
    BY <1>4
  <2>4. Unread' = {} /\ Samples({}) = {} /\ IsFiniteSet({}) /\ Cardinality({}) = 0
    BY <2>3, FS_EmptySet DEF Unread, Samples
  <2>5. obj'.bytes_used + Cardinality(Samples(obj'.queue)) + Cardinality(Samples(Unread')) = taken'
    <3>1. Cardinality(Samples(obj'.queue)) = 0 /\ Cardinality(Samples(Unread')) = 0
      BY <2>2, <2>4, Zenon
    <3> QED
      BY <1>4, <2>2, <3>1
  <2>6. SamplesCounted'
    BY <2>5 DEF SamplesCounted, Samples
  <2>7. Queued(obj)' /\ Waiting(obj)'
    BY <2>2, <2>4 DEF Queued, Waiting
  <2>8. IsFiniteSet(Unread)'
    BY <2>4
  <2>9. ReadInv'
    BY <2>3, <2>6, <2>7, <2>8 DEF ReadInv
  <2>10. \A n : ~OnWire(n)' /\ ~InQueue(n)' /\ ~IsHeld(n)'
    BY <1>1, <2>2, <2>3 DEF OnWire, InQueue, IsHeld
  <2>11. NumbersInv'
    BY <1>1, <2>1, <2>2, <2>10 DEF NumbersInv
  <2> QED
    BY <2>9, <2>11
<1>5. CASE lib' = [lib EXCEPT !.tracing = FALSE] /\ UNCHANGED <<fds, taken, memprofVars>>
  BY <1>2, <1>3, <1>5
<1>6. CASE lib' = stop_tracing(memprof_init(lib)) /\ UNCHANGED <<fds, taken, memprofVars>>
  BY <1>2, <1>3, <1>6 DEF stop_tracing, memprof_init
<1> QED
  BY <1>4, <1>5, <1>6 DEF construct

\* The handler's sample is written, or the connection ends.
LEMMA SampleReads ==
  ASSUME SpeedTypeOK, HandlerInv, ReadInv, NumbersInv, WriteSample
  PROVE  ReadInv' /\ NumbersInv'
<1>1. /\ held.handler # NoNumber /\ held \in [thread : Nat \cup {NoNumber}, handler : Nat \cup {NoNumber}]
      /\ held' = [held EXCEPT !.handler = NoNumber] /\ UNCHANGED <<peer, obj>>
      /\ fds \in [FDs -> {"free", "lib", "file", "socket"}]
      /\ lib \in [tracing : BOOLEAN, socket : {"none", "memprof"}, outfd : FDs, seqno : Nat,
                  type : {"rtc", "perfctr", "itimer"}, irq_rate : Nat]
  BY DEF WriteSample, HandlerInv, SpeedTypeOK
<1>2. held'.handler = NoNumber /\ held'.thread = held.thread /\ held.handler \in Nat
  BY <1>1
<1>3. CASE CanSend(lib.outfd) /\ Written([operation |-> "MI_TIME", seqno |-> held.handler])
           /\ taken' = taken + 1 /\ UNCHANGED <<lib, fds>>
  <2> DEFINE r == [operation |-> "MI_TIME", seqno |-> held.handler]
  <2>1. r \in Records /\ r.seqno = held.handler /\ IsSample(r) = 1 /\ Written(r)
    BY <1>2, <1>3 DEF Records, IsSample
  <2> HIDE DEF r
  <2>2. IsHeld(r.seqno)
    BY <1>1, <2>1 DEF IsHeld
  <2>3. ReadInv'
    BY <1>1, <1>3, <2>1, <2>2, WrittenRead
  <2>4. held.thread = held.handler => held.thread = NoNumber
    BY <1>3 DEF NumbersInv
  <2>5. \A n : IsHeld(n) <=> n = r.seqno \/ IsHeld(n)'
    BY <1>1, <1>2, <2>1 DEF IsHeld
  <2>6. \A n : IsHeld(n)' => n # r.seqno
    BY <1>1, <1>2, <2>1, <2>4 DEF IsHeld
  <2>7. held'.thread = held'.handler => held'.thread = NoNumber
    BY <1>2
  <2>8. NumbersInv'
    BY <1>1, <1>3, <2>1, <2>5, <2>6, <2>7, WrittenNumbers
  <2> QED
    BY <2>3, <2>8
<1>4. CASE Stray(lib.outfd) /\ UNCHANGED <<lib, fds, wire, taken>>
  <2>1. ReadInv'
    BY <1>1, <1>4, ReadSame DEF ReadVars
  <2>2. ~CanSend(lib.outfd)'
    BY <1>4 DEF CanSend, Stray
  <2> QED
    BY <2>1, <2>2, NumbersGone
<1>5. CASE lib' = stop_tracing(lib) /\ Closes(lib.outfd) /\ UNCHANGED <<wire, taken>>
  <2>1. ReadInv'
    BY <1>1, <1>5, ReadSame DEF ReadVars
  <2>2. lib'.outfd = lib.outfd /\ fds' = [fds EXCEPT ![lib.outfd] = "free"] /\ lib.outfd \in FDs
    BY <1>1, <1>5 DEF stop_tracing, Closes
  <2>3. ~CanSend(lib.outfd)'
    BY <1>1, <2>2 DEF CanSend
  <2> QED
    BY <2>1, <2>3, NumbersGone
<1> QED
  BY <1>3, <1>4, <1>5 DEF WriteSample

\* So is MI_EXIT.
LEMMA ExitReads ==
  ASSUME SpeedTypeOK, HandlerInv, ReadInv, NumbersInv, exit_wait
  PROVE  ReadInv' /\ NumbersInv'
<1>1. /\ held.thread # NoNumber /\ held \in [thread : Nat \cup {NoNumber}, handler : Nat \cup {NoNumber}]
      /\ held' = [held EXCEPT !.thread = NoNumber] /\ UNCHANGED <<peer, obj, lib, taken>>
      /\ fds \in [FDs -> {"free", "lib", "file", "socket"}] /\ lib.outfd \in FDs
      /\ held.handler = NoNumber /\ taken \in Nat
  BY DEF exit_wait, HandlerInv, SpeedTypeOK
<1>2. held'.handler = NoNumber /\ held'.thread = NoNumber /\ held.thread \in Nat
  BY <1>1
<1>3. CASE CanSend(lib.outfd) /\ Written([operation |-> "MI_EXIT", seqno |-> held.thread]) /\ UNCHANGED fds
  <2> DEFINE r == [operation |-> "MI_EXIT", seqno |-> held.thread]
  <2>1. r \in Records /\ r.seqno = held.thread /\ IsSample(r) = 0 /\ Written(r)
    BY <1>2, <1>3 DEF Records, IsSample
  <2> HIDE DEF r
  <2>2. IsHeld(r.seqno)
    BY <1>1, <2>1 DEF IsHeld
  <2>3. taken' = taken + IsSample(r)
    BY <1>1, <2>1
  <2>4. ReadInv'
    BY <1>1, <1>3, <2>1, <2>2, <2>3, WrittenRead
  <2>5. \A n : IsHeld(n) <=> n = r.seqno \/ IsHeld(n)'
    BY <1>1, <1>2, <2>1 DEF IsHeld
  <2>6. (\A n : IsHeld(n)' => n # r.seqno) /\ (held'.thread = held'.handler => held'.thread = NoNumber)
    BY <1>2 DEF IsHeld
  <2>7. NumbersInv'
    BY <1>1, <1>3, <2>1, <2>5, <2>6, WrittenNumbers
  <2> QED
    BY <2>4, <2>7
<1>4. CASE Closes(lib.outfd) /\ UNCHANGED wire
  <2>1. ReadInv'
    BY <1>1, <1>4, ReadSame DEF ReadVars
  <2>2. ~CanSend(lib.outfd)'
    BY <1>1, <1>4 DEF CanSend, Closes
  <2> QED
    BY <2>1, <2>2, NumbersGone
<1> QED
  BY <1>3, <1>4 DEF exit_wait

\* A number is taken, by the thread or by the handler that interrupts it.
LEMMA TakenNumbers ==
  ASSUME SpeedTypeOK, NumbersInv, UNCHANGED <<wire, obj, peer, fds>>,
         lib'.outfd = lib.outfd, lib'.seqno = lib.seqno + 1,
         \A n : IsHeld(n)' <=> n = lib.seqno \/ IsHeld(n),
         held.thread = NoNumber \/ held.handler = NoNumber,
         \/ held'.thread = held.thread /\ held'.handler = lib.seqno
         \/ held'.handler = held.handler /\ held'.thread = lib.seqno /\ held.handler = NoNumber
  PROVE  NumbersInv'
<1> SUFFICES ASSUME CanSend(lib.outfd) PROVE NumbersInv'
  BY DEF NumbersInv, CanSend
<1>1. lib.seqno \in Nat /\ obj.seqno \in Nat
      /\ held.thread \in Nat \cup {NoNumber} /\ held.handler \in Nat \cup {NoNumber}
  BY DEF SpeedTypeOK
<1>2. \A n : OnWire(n)' = OnWire(n) /\ InQueue(n)' = InQueue(n)
  BY DEF OnWire, InQueue
<1>3. held'.thread = held'.handler => held'.thread = NoNumber
  <2>1. IsHeld(held.thread) \/ held.thread = NoNumber
    BY DEF IsHeld
  <2>2. held.thread = NoNumber \/ held.thread < lib.seqno
    BY <1>1, <2>1 DEF NumbersInv
  <2> QED
    BY <1>1, <2>2 DEF NoNumber
<1>4. \A n \in obj.seqno .. (lib'.seqno - 1) : n = lib.seqno \/ n \in obj.seqno .. (lib.seqno - 1)
  BY <1>1
<1>5. \A n \in obj.seqno .. (lib'.seqno - 1) : OnWire(n)' \/ InQueue(n)' \/ IsHeld(n)'
  BY <1>2, <1>4 DEF NumbersInv
<1>6. ASSUME NEW n \in Nat, IsHeld(n)'
      PROVE  obj.seqno <= n /\ n < lib'.seqno /\ ~OnWire(n) /\ ~InQueue(n)
  <2>1. CASE n = lib.seqno
    BY <1>1, <2>1 DEF NumbersInv
  <2>2. CASE IsHeld(n)
    BY <1>1, <2>2 DEF NumbersInv
  <2> QED
    BY <1>6, <2>1, <2>2
<1> QED
  BY <1>1, <1>2, <1>3, <1>5, <1>6 DEF NumbersInv

ConnectionInv == ReadInv /\ NumbersInv

LEMMA ConnectionStep ==
  SpeedTypeOK /\ HandlerInv /\ ConnectionInv /\ [SpeedNext]_speedVars => ConnectionInv'
<1> SUFFICES ASSUME SpeedTypeOK, HandlerInv, ConnectionInv, [SpeedNext]_speedVars
             PROVE  ConnectionInv'
  OBVIOUS
<1> USE DEF clientVars, memprofVars
<1>0. /\ ReadInv /\ NumbersInv
      /\ lib \in [tracing : BOOLEAN, socket : {"none", "memprof"}, outfd : FDs, seqno : Nat,
                  type : {"rtc", "perfctr", "itimer"}, irq_rate : Nat]
      /\ fds \in [FDs -> {"free", "lib", "file", "socket"}]
      /\ held \in [thread : Nat \cup {NoNumber}, handler : Nat \cup {NoNumber}]
  BY DEF ConnectionInv, SpeedTypeOK
<1>1. ASSUME UNCHANGED <<wire, peer, obj, taken, held, fds>>,
             lib'.outfd = lib.outfd, lib'.seqno = lib.seqno
      PROVE  ConnectionInv'
  <2>1. CanSend(lib.outfd)' => CanSend(lib.outfd)
    BY <1>1 DEF CanSend
  <2>2. ReadInv'
    BY <1>0, <1>1, ReadSame DEF ReadVars
  <2>3. NumbersInv'
    BY <1>0, <1>1, <2>1, NumbersSame
  <2> QED
    BY <2>2, <2>3 DEF ConnectionInv
<1>2. CASE construct
  BY <1>0, <1>2, ConnectedReads DEF ConnectionInv
<1>3. CASE mi_start
  <2>1. lib'.outfd = lib.outfd /\ lib'.seqno = lib.seqno
    BY <1>0, <1>3 DEF mi_start, start_rtc_timer, mi_perfctr_start, start_itimer_timer
  <2> QED
    BY <1>1, <1>3, <2>1 DEF mi_start
<1>4. CASE init_sighandler
  BY <1>1, <1>4 DEF init_sighandler
<1>5. CASE SetType
  <2>1. lib'.outfd = lib.outfd /\ lib'.seqno = lib.seqno
    BY <1>0, <1>5 DEF SetType
  <2> QED
    BY <1>1, <1>5, <2>1 DEF SetType
<1>6. ASSUME NEW t \in timers, Fire(t) PROVE ConnectionInv'
  <2>1. UNCHANGED <<wire, peer, obj, taken, held, lib>>
    BY <1>6 DEF Fire
  <2>2. fds' = fds \/ fds' = [d \in FDs |-> "free"]
    BY <1>6 DEF Fire
  <2>3. CanSend(lib.outfd)' => CanSend(lib.outfd)
    BY <1>0, <2>1, <2>2 DEF CanSend
  <2>4. ReadInv'
    BY <1>0, <2>1, ReadSame DEF ReadVars
  <2>5. NumbersInv'
    BY <1>0, <2>1, <2>3, NumbersSame
  <2> QED
    BY <2>4, <2>5 DEF ConnectionInv
<1>7. CASE sigprof_handler
  <2>1. CASE UNCHANGED <<held, lib>>
    BY <1>1, <1>7, <2>1 DEF sigprof_handler
  <2>2. CASE held' = [held EXCEPT !.handler = lib.seqno] /\ lib' = [lib EXCEPT !.seqno = @ + 1]
    <3>1. UNCHANGED <<wire, peer, obj, taken, fds>> /\ held.handler = NoNumber
      BY <1>7 DEF sigprof_handler, HandlerInv
    <3>2. lib'.outfd = lib.outfd /\ lib'.seqno = lib.seqno + 1 /\ lib.seqno # NoNumber
      BY <1>0, <2>2 DEF NoNumber
    <3>3. held'.thread = held.thread /\ held'.handler = lib.seqno
      BY <1>0, <2>2
    <3>4. \A n : IsHeld(n)' <=> n = lib.seqno \/ IsHeld(n)
      BY <3>1, <3>2, <3>3 DEF IsHeld
    <3>5. NumbersInv'
      BY <1>0, <3>1, <3>2, <3>3, <3>4, TakenNumbers
    <3>6. ReadInv'
      BY <1>0, <3>1, ReadSame DEF ReadVars
    <3> QED
      BY <3>5, <3>6 DEF ConnectionInv
  <2> QED
    BY <1>7, <2>1, <2>2 DEF sigprof_handler
<1>8. CASE WriteSample
  BY <1>0, <1>8, SampleReads DEF ConnectionInv
<1>9. CASE reset_itimer_timer
  BY <1>1, <1>9 DEF reset_itimer_timer
<1>10. ASSUME NEW kind \in {"file", "socket"}, Open(kind) PROVE ConnectionInv'
  <2>1. UNCHANGED <<wire, peer, obj, taken, held, lib>> /\ fds' = [fds EXCEPT ![Lowest] = kind]
    BY <1>10 DEF Open
  <2>2. CanSend(lib.outfd)' => CanSend(lib.outfd)
    BY <1>0, <1>10, <2>1 DEF CanSend
  <2>3. ReadInv'
    BY <1>0, <2>1, ReadSame DEF ReadVars
  <2>4. NumbersInv'
    BY <1>0, <2>1, <2>2, NumbersSame
  <2> QED
    BY <2>3, <2>4 DEF ConnectionInv
<1>11. CASE execve
  <2>1. UNCHANGED <<wire, peer, obj, taken>>
    BY <1>11 DEF execve
  <2>2. lib'.outfd = 0 /\ fds' = [d \in FDs |-> IF fds[d] = "lib" THEN "free" ELSE fds[d]] /\ 0 \in FDs
    BY <1>11, Numbered DEF execve, FreshLib
  <2>3. ~CanSend(lib.outfd)'
    BY <2>2 DEF CanSend
  <2> QED
    BY <1>0, <2>1, <2>3, ReadSame, NumbersGone DEF ConnectionInv, ReadVars
<1>12. CASE atexit_trap
  <2>1. CASE UNCHANGED <<held, lib>>
    BY <1>1, <1>12, <2>1 DEF atexit_trap
  <2>2. CASE held' = [held EXCEPT !.thread = lib.seqno] /\ lib' = [lib EXCEPT !.seqno = @ + 1]
    <3>1. /\ UNCHANGED <<wire, peer, obj, taken, fds>>
          /\ held.handler = NoNumber /\ held.thread = NoNumber
      BY <1>12 DEF atexit_trap, HandlerInv
    <3>2. lib'.outfd = lib.outfd /\ lib'.seqno = lib.seqno + 1 /\ lib.seqno # NoNumber
      BY <1>0, <2>2 DEF NoNumber
    <3>3. held'.handler = held.handler /\ held'.thread = lib.seqno
      BY <1>0, <2>2
    <3>4. \A n : IsHeld(n)' <=> n = lib.seqno \/ IsHeld(n)
      BY <3>1, <3>2, <3>3 DEF IsHeld
    <3>5. NumbersInv'
      BY <1>0, <3>1, <3>2, <3>3, <3>4, TakenNumbers
    <3>6. ReadInv'
      BY <1>0, <3>1, ReadSame DEF ReadVars
    <3> QED
      BY <3>5, <3>6 DEF ConnectionInv
  <2> QED
    BY <1>12, <2>1, <2>2 DEF atexit_trap
<1>13. CASE mi_stop
  BY <1>1, <1>13 DEF mi_stop
<1>14. CASE exit_wait
  BY <1>0, <1>14, ExitReads DEF ConnectionInv
<1>15. CASE ExitAnswer
  <2>1. UNCHANGED <<wire, peer, obj, taken, held, lib>> /\ fds' = [fds EXCEPT ![lib.outfd] = "free"]
    BY <1>15 DEF ExitAnswer, Closes
  <2>2. ~CanSend(lib.outfd)'
    BY <1>0, <2>1 DEF CanSend
  <2> QED
    BY <1>0, <2>1, <2>2, ReadSame, NumbersGone DEF ConnectionInv, ReadVars
<1>16. CASE ExitDone
  <2>1. lib'.outfd = lib.outfd /\ lib'.seqno = lib.seqno
    BY <1>0, <1>16 DEF ExitDone
  <2> QED
    BY <1>1, <1>16, <2>1 DEF ExitDone
<1>17. CASE Leave
  <2>1. UNCHANGED <<wire, peer, obj, taken, held, lib>> /\ fds' = [d \in FDs |-> "free"]
    BY <1>17 DEF Leave
  <2>2. ~CanSend(lib.outfd)'
    BY <1>0, <2>1 DEF CanSend
  <2> QED
    BY <1>0, <2>1, <2>2, ReadSame, NumbersGone DEF ConnectionInv, ReadVars
<1>18. CASE input_func
  BY <1>0, <1>18, InputRead, InputNumbers DEF ConnectionInv
<1>19. CASE InputEOF
  <2>1. peer' = "closed" /\ obj' = [obj EXCEPT !.status = "DEFUNCT"]
    BY <1>19 DEF InputEOF
  <2>2. ~CanSend(lib.outfd)' /\ peer' # "open"
    BY <2>1 DEF CanSend
  <2>3. obj'.queue = obj.queue /\ obj'.seqno = obj.seqno /\ obj'.table = obj.table
    BY <2>1 DEF SpeedTypeOK
  <2>4. ReadInv'
    BY <1>0, <2>2, <2>3 DEF ReadInv, Queued, Waiting
  <2> QED
    BY <2>2, <2>4, NumbersGone DEF ConnectionInv
<1>20. CASE process_detach
  <2>1. CASE UNCHANGED <<peer, obj, wire>>
    BY <1>1, <1>20, <2>1 DEF process_detach
  <2>2. CASE peer' = "closed" /\ obj' = [obj EXCEPT !.status = "DETACHED"]
    <3>1. ~CanSend(lib.outfd)' /\ peer' # "open"
      BY <2>2 DEF CanSend
    <3>2. obj'.queue = obj.queue /\ obj'.seqno = obj.seqno /\ obj'.table = obj.table
      BY <2>2 DEF SpeedTypeOK
    <3>3. ReadInv'
      BY <1>0, <3>1, <3>2 DEF ReadInv, Queued, Waiting
    <3> QED
      BY <3>1, <3>3, NumbersGone DEF ConnectionInv
  <2> QED
    BY <1>20, <2>1, <2>2 DEF process_detach
<1>21. CASE UNCHANGED speedVars
  BY <1>1, <1>21 DEF speedVars
<1> QED
  BY <1>2, <1>3, <1>4, <1>5, <1>6, <1>7, <1>8, <1>9, <1>10, <1>11, <1>12, <1>13, <1>14,
     <1>15, <1>16, <1>17, <1>18, <1>19, <1>20, <1>21
     DEF SpeedNext, HandlerStep, StartStep, ExitStep, ServerStep

-----------------------------------------------------------------------------
(* The invariant, and what follows from it.                                *)

\* The rest of the state's types: the thread's and the handler's places and
\* numbers, the descriptors, the timers, and memprof's side.
PlacesTypeOK ==
  /\ main \in Places /\ sig \in {"idle", "fired", "write", "reset"}
  /\ held \in [thread : Nat \cup {NoNumber}, handler : Nat \cup {NoNumber}]
  /\ timers \subseteq {"rtc", "perfctr", "itimer"}
  /\ handled \subseteq {"SIGPROF", "SIGALRM"}
  /\ rtc \in {"none", "mine", "earlier"}
  /\ early \in BOOLEAN /\ setup \in Setups

FilesTypeOK ==
  /\ fds \in [FDs -> {"free", "lib", "file", "socket"}]
  /\ harm \subseteq BOOLEAN

ServerTypeOK ==
  /\ wire \in Seq(Records) /\ peer \in {"open", "closed"} /\ answer \in BOOLEAN
  /\ obj \in Objs
  /\ taken \in Nat

LEMMA TypeParts ==
  SpeedTypeOK <=> PlacesTypeOK /\ LibTypeOK /\ FilesTypeOK /\ ServerTypeOK
BY DEF SpeedTypeOK, PlacesTypeOK, LibTypeOK, FilesTypeOK, ServerTypeOK, Objs

LEMMA PlacesTypeStep ==
  SpeedTypeOK /\ [SpeedNext]_speedVars => PlacesTypeOK'
<1> SUFFICES ASSUME SpeedTypeOK, [SpeedNext]_speedVars PROVE PlacesTypeOK'
  OBVIOUS
<1> USE DEF PlacesTypeOK, Places, clientVars, memprofVars
<1>0. PlacesTypeOK /\ lib.seqno \in Nat /\ UNCHANGED setup
  BY DEF SpeedTypeOK, SpeedNext, speedVars
<1>1. CASE construct
  BY <1>0, <1>1 DEF construct
<1>2. CASE mi_start
  BY <1>0, <1>2 DEF mi_start, start_rtc_timer, mi_perfctr_start, start_itimer_timer
<1>3. CASE init_sighandler
  BY <1>0, <1>3 DEF init_sighandler, SignalOf
<1>4. CASE SetType
  BY <1>0, <1>4 DEF SetType
<1>5. ASSUME NEW t \in timers, Fire(t) PROVE PlacesTypeOK'
  BY <1>0, <1>5 DEF Fire
<1>6. CASE sigprof_handler
  BY <1>0, <1>6 DEF sigprof_handler
<1>7. CASE WriteSample
  BY <1>0, <1>7 DEF WriteSample
<1>8. CASE reset_itimer_timer
  BY <1>0, <1>8 DEF reset_itimer_timer
<1>9. ASSUME NEW kind \in {"file", "socket"}, Open(kind) PROVE PlacesTypeOK'
  BY <1>0, <1>9 DEF Open
<1>10. CASE execve
  BY <1>0, <1>10 DEF execve
<1>11. CASE atexit_trap
  BY <1>0, <1>11 DEF atexit_trap
<1>12. CASE mi_stop
  BY <1>0, <1>12 DEF mi_stop
<1>13. CASE exit_wait
  BY <1>0, <1>13 DEF exit_wait
<1>14. CASE ExitAnswer
  BY <1>0, <1>14 DEF ExitAnswer
<1>15. CASE ExitDone
  BY <1>0, <1>15 DEF ExitDone
<1>16. CASE Leave
  BY <1>0, <1>16 DEF Leave
<1>17. CASE UNCHANGED clientVars
  BY <1>0, <1>17
<1> QED
  BY <1>1, <1>2, <1>3, <1>4, <1>5, <1>6, <1>7, <1>8, <1>9, <1>10, <1>11, <1>12, <1>13, <1>14,
     <1>15, <1>16, <1>17
     DEF SpeedNext, HandlerStep, StartStep, ExitStep, ServerStep, speedVars,
         input_func, InputEOF, process_detach

LEMMA FilesTypeStep ==
  SpeedTypeOK /\ [SpeedNext]_speedVars => FilesTypeOK'
<1> SUFFICES ASSUME SpeedTypeOK, [SpeedNext]_speedVars PROVE FilesTypeOK'
  OBVIOUS
<1> USE DEF FilesTypeOK
<1>0. FilesTypeOK /\ lib.tracing \in BOOLEAN /\ lib.outfd \in FDs
  BY DEF SpeedTypeOK
<1>1. CASE UNCHANGED <<fds, harm>>
  BY <1>0, <1>1
<1>2. CASE Closes(lib.outfd)
  BY <1>0, <1>2 DEF Closes
<1>3. CASE harm' = harm \cup {lib.tracing} /\ UNCHANGED fds
  BY <1>0, <1>3
<1>4. CASE fds' = [fds EXCEPT ![Lowest] = "lib"] /\ UNCHANGED harm
  BY <1>0, <1>4
<1>5. ASSUME NEW kind \in {"file", "socket"}, Open(kind) PROVE FilesTypeOK'
  BY <1>0, <1>5 DEF Open
<1>6. CASE fds' = [d \in FDs |-> "free"] /\ UNCHANGED harm
  BY <1>0, <1>6
<1>7. CASE execve
  BY <1>0, <1>7 DEF execve
<1> QED
  BY <1>1, <1>2, <1>3, <1>4, <1>5, <1>6, <1>7
     DEF SpeedNext, HandlerStep, StartStep, ExitStep, ServerStep, speedVars, clientVars, memprofVars,
         construct, mi_start, init_sighandler, SetType, Fire, sigprof_handler, WriteSample,
         reset_itimer_timer, atexit_trap, mi_stop, exit_wait, ExitAnswer, ExitDone, Leave,
         input_func, InputEOF, process_detach

LEMMA ServerTypeStep ==
  SpeedTypeOK /\ HandlerInv /\ ReadInv /\ [SpeedNext]_speedVars => ServerTypeOK'
<1> SUFFICES ASSUME SpeedTypeOK, HandlerInv, ReadInv, [SpeedNext]_speedVars PROVE ServerTypeOK'
  OBVIOUS
<1> USE DEF ServerTypeOK, clientVars, memprofVars
<1>0. ServerTypeOK /\ <<>> \in Seq(Records)
  BY TypeParts
<1>1. CASE UNCHANGED <<memprofVars, taken>>
  BY <1>0, <1>1
<1>2. CASE construct
  <2>1. \/ UNCHANGED <<memprofVars, taken>>
        \/ /\ wire' = <<>> /\ peer' = "open" /\ taken' = 0 /\ answer' = answer
           /\ obj' = [status |-> "RUNNING", seqno |-> 0, queue |-> {}, table |-> {}, bytes_used |-> 0]
    BY <1>2 DEF construct
  <2>2. [status |-> "RUNNING", seqno |-> 0, queue |-> {}, table |-> {}, bytes_used |-> 0] \in Objs
    BY DEF Objs
  <2>3. CASE wire' = <<>> /\ peer' = "open" /\ taken' = 0 /\ answer' = answer /\ obj' \in Objs
    <3>1. wire' \in Seq(Records)
      BY <1>0, <2>3, Zenon
    <3>2. peer' \in {"open", "closed"} /\ answer' \in BOOLEAN /\ obj' \in Objs /\ taken' \in Nat
      BY <1>0, <2>3
    <3> QED
      BY <3>1, <3>2
  <2> QED
    BY <1>1, <2>1, <2>2, <2>3
<1>3. CASE WriteSample
  <2>1. held.handler \in Nat
    BY <1>3 DEF WriteSample, HandlerInv, SpeedTypeOK
  <2>2. [operation |-> "MI_TIME", seqno |-> held.handler] \in Records
    BY <2>1 DEF Records
  <2>3. \A r \in Records : Append(wire, r) \in Seq(Records)
    BY <1>0
  <2> QED
    BY <1>0, <1>3, <2>2, <2>3 DEF WriteSample, Written
<1>4. CASE exit_wait
  <2>1. held.thread \in Nat
    BY <1>4 DEF exit_wait, HandlerInv, SpeedTypeOK
  <2>2. [operation |-> "MI_EXIT", seqno |-> held.thread] \in Records
    BY <2>1 DEF Records
  <2>3. \A r \in Records : Append(wire, r) \in Seq(Records)
    BY <1>0
  <2> QED
    BY <1>0, <1>4, <2>2, <2>3 DEF exit_wait, Written
<1>5. CASE input_func
  <2>1. obj' \in Objs
    BY <1>5, InputIs
  <2> QED
    BY <1>0, <1>5, <2>1 DEF input_func
<1>6. CASE InputEOF
  BY <1>0, <1>6 DEF InputEOF, Objs
<1>7. CASE process_detach
  <2>1. [obj EXCEPT !.status = "DETACHED"] \in Objs
    BY <1>0 DEF Objs
  <2> QED
    BY <1>0, <1>7, <2>1 DEF process_detach
<1> QED
  BY <1>1, <1>2, <1>3, <1>4, <1>5, <1>6, <1>7
     DEF SpeedNext, HandlerStep, StartStep, ExitStep, ServerStep, speedVars,
         mi_start, init_sighandler, SetType, Fire, sigprof_handler,
         reset_itimer_timer, Open, execve, atexit_trap, mi_stop, ExitAnswer, ExitDone, Leave

SpeedIInv == SpeedTypeOK /\ HandlerInv /\ OwnsInv /\ TimingInv /\ ConnectionInv

LEMMA SpeedStarts ==
  SpeedInit => SpeedIInv
<1> SUFFICES ASSUME SpeedInit PROVE SpeedIInv
  OBVIOUS
<1> USE DEF SpeedInit
<1>1. PICK refused \in {"refused" \in Can, FALSE} :
        /\ lib = FreshLib(IF refused THEN "none" ELSE "memprof")
        /\ obj = [status |-> IF refused THEN "REFUSED" ELSE "STARTING", seqno |-> 0,
                  queue |-> {}, table |-> {}, bytes_used |-> 0]
  OBVIOUS
<1>2. /\ lib.tracing = TRUE /\ lib.outfd = 0 /\ lib.seqno = 0 /\ lib.type = "rtc" /\ LibTypeOK
      /\ obj \in Objs /\ obj.seqno = 0 /\ obj.queue = {} /\ obj.table = {}
  BY <1>1, Numbered DEF FreshLib, LibTypeOK, Objs
<1>3. SpeedTypeOK
  <2>1. PlacesTypeOK
    BY DEF PlacesTypeOK, Places
  <2>2. FilesTypeOK
    BY DEF FilesTypeOK
  <2>3. ServerTypeOK
    <3>1. <<>> \in Seq(Records)
      OBVIOUS
    <3> QED
      BY <1>2, <3>1 DEF ServerTypeOK
  <2> QED
    BY <1>2, <2>1, <2>2, <2>3, TypeParts
<1>4. HandlerInv
  BY <1>2 DEF HandlerInv, Alive
<1>5. OwnsInv
  BY DEF OwnsInv, OwnDescriptors
<1>6. TimingInv
  BY <1>2 DEF TimingInv, TimersInv, SignalsInv, SignalsHandled, ArmedInv
<1>7. ConnectionInv
  <2>1. ReadInv
    <3>1. IsFiniteSet({})
      BY FS_EmptySet
    <3> QED
      BY <1>2, <3>1 DEF ReadInv, Queued, Waiting
  <2>2. NumbersInv
    BY DEF NumbersInv, CanSend
  <2> QED
    BY <2>1, <2>2 DEF ConnectionInv
<1> QED
  BY <1>3, <1>4, <1>5, <1>6, <1>7 DEF SpeedIInv

LEMMA SpeedStep ==
  SpeedIInv /\ [SpeedNext]_speedVars => SpeedIInv'
<1> SUFFICES ASSUME SpeedIInv, [SpeedNext]_speedVars PROVE SpeedIInv'
  OBVIOUS
<1>0. SpeedTypeOK /\ HandlerInv /\ OwnsInv /\ TimingInv /\ ConnectionInv /\ ReadInv
  BY DEF SpeedIInv, ConnectionInv
<1>1. SpeedTypeOK'
  <2>1. PlacesTypeOK' /\ LibTypeOK' /\ FilesTypeOK' /\ ServerTypeOK'
    BY <1>0, PlacesTypeStep, LibTypeStep, FilesTypeStep, ServerTypeStep
  <2>2. (PlacesTypeOK /\ LibTypeOK /\ FilesTypeOK /\ ServerTypeOK => SpeedTypeOK)'
    BY TypeParts, PTL
  <2> QED
    BY <2>1, <2>2
<1>2. HandlerInv' /\ OwnsInv' /\ TimingInv' /\ ConnectionInv'
  BY <1>0, HandlerStepKeeps, OwnsStep, TimingStep, ConnectionStep
<1> QED
  BY <1>1, <1>2 DEF SpeedIInv

LEMMA SpeedInvariant ==
  SpeedSpec => []SpeedIInv
BY SpeedStarts, SpeedStep, PTL DEF SpeedSpec

\* Whatever the kind of profile, the rate and the devices, and whatever the
\* program does, the timer that was asked for is armed whenever the program runs
\* (unless a signal came before profile_type was set), its signal has a handler,
\* and the clock's rate is the smallest power of two that is fast enough: what
\* mi_start, init_sighandler and reset_itimer_timer are for.
THEOREM StaysTimed ==
  SpeedSpec => []SpeedInv
<1>1. SpeedIInv => SpeedInv
  <2> SUFFICES ASSUME SpeedIInv PROVE SpeedInv
    OBVIOUS
  <2>1. SpeedTypeOK /\ TimersInv /\ SignalsInv /\ ArmedInv
    BY DEF SpeedIInv, TimingInv
  <2>2. ClockFollows
    BY <2>1, ClockIs
  <2>3. StaysArmed
    BY <2>1 DEF StaysArmed, ArmedInv
  <2> QED
    BY <2>1, <2>2, <2>3 DEF SpeedInv, SignalsInv
<1> QED
  BY <1>1, SpeedInvariant, PTL

\* However signals, exec, exit and detaching interleave with the program's own
\* opens, no sample is written to, and no close() of the library hits, a
\* descriptor of the program while tracing is on: thread->outfd (WriteSample,
\* exit_wait) never outlives the socket it names.
THEOREM DescriptorsAreSafe ==
  SpeedSpec => []OwnDescriptors
<1>1. SpeedIInv => OwnDescriptors
  BY DEF SpeedIInv, OwnsInv
<1> QED
  BY <1>1, SpeedInvariant, PTL

\* For any number of signals, and whatever order their numbers and exit_wait's
\* come in, memprof (process_command) has counted every sample that reached it
\* or has it unread or queued, and once nothing is held or unread it expects the
\* library's next number and its queue is empty.
THEOREM SamplesAreKept ==
  SpeedSpec => []SamplesKept
<1>1. SpeedIInv => SamplesKept
  <2> SUFFICES ASSUME SpeedIInv PROVE SamplesKept
    OBVIOUS
  <2>1. SpeedTypeOK /\ ReadInv /\ NumbersInv
    BY DEF SpeedIInv, ConnectionInv
  <2>2. SamplesCounted
    BY <2>1 DEF ReadInv, SamplesCounted
  <2>3. ASSUME CanSend(lib.outfd), wire = <<>>, held = [thread |-> NoNumber, handler |-> NoNumber]
        PROVE  obj.seqno = lib.seqno /\ obj.queue = {}
    <3>1. obj.seqno \in Nat /\ lib.seqno \in Nat /\ obj.queue \in SUBSET Records
      BY <2>1 DEF SpeedTypeOK
    <3>2. \A n : ~OnWire(n) /\ ~IsHeld(n)
      BY <2>3 DEF OnWire, IsHeld
    <3>3. \A x \in obj.queue : x.seqno \in Nat /\ x.seqno > obj.seqno
      BY <2>1, <3>1 DEF ReadInv, Queued, Waiting, Records
    <3>4. ~InQueue(obj.seqno)
      BY <3>1, <3>3 DEF InQueue
    <3>5. obj.seqno = lib.seqno
      <4>1. obj.seqno <= lib.seqno
        BY <2>1, <2>3 DEF NumbersInv
      <4>2. obj.seqno \notin obj.seqno .. (lib.seqno - 1)
        BY <2>1, <2>3, <3>2, <3>4 DEF NumbersInv
      <4> QED
        BY <3>1, <4>1, <4>2
    <3>6. \A x \in obj.queue : x.seqno < lib.seqno
      BY <2>1, <2>3, <3>3 DEF NumbersInv, InQueue
    <3> QED
      BY <3>1, <3>3, <3>5, <3>6
  <2> QED
    BY <2>2, <2>3 DEF SamplesKept, SamplesInStep
<1> QED
  BY <1>1, SpeedInvariant, PTL

=============================================================================

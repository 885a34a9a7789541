---------------------------- MODULE DisplayProofs ----------------------------
(***************************************************************************)
(* Proofs about what a window shows, for counters of any width and any     *)
(* amounts of memory: the meter's scale fits its mark and is found, and    *)
(* the graph is of one measurement.                                        *)
(***************************************************************************)
EXTENDS Meter, Recursion, SequenceTheorems, TLAPS

-----------------------------------------------------------------------------
(* Powers of two, and the loop of update_status.                           *)

LEMMA PowerIs ==
  /\ Power \in [0 .. Width -> Nat]
  /\ Power[0] = 1
  /\ \A k \in 1 .. Width : Power[k] = 2 * Power[k - 1]
<1> DEFINE twice == [x \in Nat |-> 2 * x]
           P(g) == g = [n \in 0 .. Width |-> IF n = 0 THEN 1 ELSE 2 * g[n - 1]]
<1>1. Width \in Nat
  BY MeterAssumption
<1>2. PICK g \in [0 .. Width -> Nat] :
        g = [k \in 0 .. Width |-> IF k = 0 THEN 1 ELSE twice[g[k - 1]]]
  <2>1. 1 \in Nat /\ twice \in [Nat -> Nat]
    OBVIOUS
  <2> HIDE DEF twice
  <2>2. Iterates(Nat, 1, twice, Width)
    BY <1>1, <2>1, Iterated
  <2> QED
    BY <2>2 DEF Iterates
<1>3. P(g)
  <2>1. \A k \in 0 .. Width : k # 0 => k - 1 \in 0 .. Width /\ twice[g[k - 1]] = 2 * g[k - 1]
    BY <1>1
  <2> QED
    BY <1>2, <2>1
<1>4. Power = CHOOSE h : P(h)
  BY DEF Power
<1>5. P(Power)
  BY <1>3, <1>4
<1>6. \A h : P(h) => h \in [0 .. Width -> Nat]
  <2> SUFFICES ASSUME NEW h, P(h) PROVE h \in [0 .. Width -> Nat]
    OBVIOUS
  <2> DEFINE T == {n \in Nat : n \in 0 .. Width => h[n] \in Nat}
  <2>1. T \in SUBSET Nat /\ 0 \in T
    BY <1>1
  <2>2. \A n \in T : n + 1 \in T
    BY <1>1
  <2>3. \A n \in Nat : n \in T
    <3> HIDE DEF T
    <3> QED
      BY <2>1, <2>2, Induct
  <2>4. h = [n \in 0 .. Width |-> h[n]]
    OBVIOUS
  <2>5. ASSUME NEW n \in 0 .. Width PROVE h[n] \in Nat
    <3>1. n \in Nat
      BY <1>1
    <3>2. n \in T
      BY <2>3, <3>1
    <3> QED
      BY <3>2
  <2> QED
    BY <2>4, <2>5
<1>7. Power[0] = 1 /\ \A k \in 1 .. Width : Power[k] = 2 * Power[k - 1]
  BY <1>1, <1>5
<1> QED
  BY <1>5, <1>6, <1>7

\* They are ordered, and the largest is the modulus of a guint.
LEMMA PowersGrow ==
  /\ \A k \in 0 .. Width : Power[k] \in Nat \ {0}
  /\ \A i, j \in 0 .. Width : i <= j => Power[i] <= Power[j]
  /\ \A i, j \in 0 .. Width : i < j => 2 * Power[i] <= Power[j]
<1>1. Width \in Nat
  BY MeterAssumption
<1>2. \A k \in 0 .. Width : Power[k] \in Nat
  BY PowerIs
<1>3. ASSUME NEW k \in 0 .. Width PROVE Power[k] # 0
  <2> DEFINE T == {n \in Nat : n \in 0 .. Width => Power[n] # 0}
  <2>1. T \in SUBSET Nat /\ 0 \in T
    BY PowerIs
  <2>2. \A n \in T : n + 1 \in T
    <3> SUFFICES ASSUME NEW n \in T, n + 1 \in 0 .. Width PROVE Power[n + 1] # 0
      OBVIOUS
    <3>1. n \in 0 .. Width /\ n + 1 \in 1 .. Width /\ (n + 1) - 1 = n
      BY <1>1
    <3>2. Power[n + 1] = 2 * Power[n] /\ Power[n] \in Nat /\ Power[n] # 0
      BY <1>2, <3>1, PowerIs
    <3> QED
      BY <3>2
  <2>3. \A n \in Nat : n \in T
    <3> HIDE DEF T
    <3> QED
      BY <2>1, <2>2, Induct
  <2> QED
    BY <1>1, <2>3
<1>4. ASSUME NEW i \in 0 .. Width, NEW j \in 0 .. Width, i <= j PROVE Power[i] <= Power[j]
  <2> DEFINE T == {n \in Nat : i + n \in 0 .. Width => Power[i] <= Power[i + n]}
  <2>1. T \in SUBSET Nat /\ 0 \in T
    BY <1>1, <1>2
  <2>2. \A n \in T : n + 1 \in T
    <3> SUFFICES ASSUME NEW n \in T, i + (n + 1) \in 0 .. Width
                 PROVE  Power[i] <= Power[i + (n + 1)]
      OBVIOUS
    <3>1. i + n \in 0 .. Width /\ i + (n + 1) \in 1 .. Width /\ (i + (n + 1)) - 1 = i + n
      BY <1>1
    <3>2. Power[i + (n + 1)] = 2 * Power[i + n] /\ Power[i + n] \in Nat /\ Power[i] \in Nat
      BY <1>2, <3>1, PowerIs
    <3>3. Power[i] <= Power[i + n]
      BY <3>1
    <3> QED
      BY <3>2, <3>3
  <2>3. \A n \in Nat : n \in T
    <3> HIDE DEF T
    <3> QED
      BY <2>1, <2>2, Induct
  <2>4. j - i \in T /\ i + (j - i) = j
    BY <1>1, <1>4, <2>3
  <2> QED
    BY <2>4
<1>5. ASSUME NEW i \in 0 .. Width, NEW j \in 0 .. Width, i < j PROVE 2 * Power[i] <= Power[j]
  <2>1. i + 1 \in 0 .. Width /\ i + 1 \in 1 .. Width /\ i + 1 <= j /\ (i + 1) - 1 = i
    BY <1>1, <1>5
  <2>2. Power[i + 1] = 2 * Power[i] /\ Power[i + 1] <= Power[j]
    BY <1>4, <2>1, PowerIs
  <2> QED
    BY <2>2
<1> QED
  BY <1>2, <1>3, <1>4, <1>5

\* Round the loop k times: doubled modulo the width of a guint.
LEMMA DoubledIs ==
  ASSUME usage_max \in Nat
  PROVE  /\ Doubled[0] = usage_max
         /\ \A k \in 1 .. Width : Doubled[k] = (2 * Doubled[k - 1]) % GuintMod
<1> DEFINE step == [x \in Nat |-> (2 * x) % GuintMod]
           P(g) == g = [k \in 0 .. Width |->
                          IF k = 0 THEN usage_max ELSE (2 * g[k - 1]) % GuintMod]
<1>1. Width \in Nat /\ GuintMod \in Nat \ {0}
  BY MeterAssumption, PowersGrow DEF GuintMod
<1>2. PICK g \in [0 .. Width -> Nat] :
        g = [k \in 0 .. Width |-> IF k = 0 THEN usage_max ELSE step[g[k - 1]]]
  <2>1. step \in [Nat -> Nat]
    BY <1>1
  <2> HIDE DEF step
  <2>2. Iterates(Nat, usage_max, step, Width)
    BY <1>1, <2>1, Iterated
  <2> QED
    BY <2>2 DEF Iterates
<1>3. P(g)
  <2>1. \A k \in 0 .. Width :
          k # 0 => k - 1 \in 0 .. Width /\ step[g[k - 1]] = (2 * g[k - 1]) % GuintMod
    BY <1>1
  <2> QED
    BY <1>2, <2>1
<1>4. Doubled = CHOOSE h : P(h)
  BY DEF Doubled
<1>5. P(Doubled)
  BY <1>3, <1>4
<1> QED
  BY <1>1, <1>5

\* Doubling a power of two gives the next ones, and zero after the highest bit.
LEMMA DoublesPowers ==
  ASSUME NEW j \in 0 .. (Width - 1), usage_max = Power[j]
  PROVE  \A k \in 0 .. Width :
           Doubled[k] = IF j + k < Width THEN Power[j + k] ELSE 0
<1> DEFINE Is(k) == Doubled[k] = IF j + k < Width THEN Power[j + k] ELSE 0
           T == {k \in Nat : k \in 0 .. Width => Is(k)}
<1>1. Width \in Nat /\ j \in 0 .. Width /\ usage_max \in Nat
  BY MeterAssumption, PowersGrow
<1>2. T \in SUBSET Nat /\ 0 \in T
  BY <1>1, DoubledIs
<1>3. ASSUME NEW k \in T, k + 1 \in 0 .. Width PROVE Is(k + 1)
  <2>1. k \in Nat /\ k \in 0 .. Width /\ k + 1 \in 1 .. Width /\ (k + 1) - 1 = k
    BY <1>1, <1>3
  <2>2. Is(k) /\ Doubled[k + 1] = (2 * Doubled[k]) % GuintMod
    BY <1>1, <2>1, DoubledIs
  <2>3. GuintMod = Power[Width] /\ GuintMod \in Nat \ {0}
    BY <1>1, PowersGrow DEF GuintMod
  <2>4. CASE j + k >= Width
    <3>1. Doubled[k] = 0 /\ j + (k + 1) >= Width
      BY <1>1, <2>1, <2>2, <2>4
    <3>2. 2 * Doubled[k] = 0 /\ 0 % GuintMod = 0
      BY <2>3, <3>1
    <3> QED
      BY <1>1, <2>1, <2>2, <3>1, <3>2
  <2>5. CASE j + k < Width
    <3>1. /\ Doubled[k] = Power[j + k] /\ j + k \in 0 .. Width
          /\ (j + k) + 1 \in 1 .. Width /\ ((j + k) + 1) - 1 = j + k
          /\ j + (k + 1) = (j + k) + 1
      BY <1>1, <2>1, <2>2, <2>5
    <3>2. Power[j + (k + 1)] = 2 * Power[j + k] /\ Power[j + k] \in Nat
      BY <3>1, PowerIs
    <3>3. Doubled[k + 1] = Power[j + (k + 1)] % GuintMod
      BY <2>2, <3>1, <3>2
    <3>4. CASE j + (k + 1) = Width
      <4>1. Doubled[k + 1] = 0
        BY <2>3, <3>3, <3>4
      <4> QED
        BY <1>1, <3>4, <4>1
    <3>5. CASE j + (k + 1) # Width
      <4>1. j + (k + 1) < Width /\ j + (k + 1) \in 0 .. Width
        BY <1>1, <2>1, <2>5, <3>5
      <4>2. 2 * Power[j + (k + 1)] <= Power[Width] /\ Power[j + (k + 1)] \in Nat \ {0}
        BY <1>1, <4>1, PowersGrow
      <4>3. Power[j + (k + 1)] % GuintMod = Power[j + (k + 1)]
        BY <2>3, <4>2
      <4> QED
        BY <3>3, <4>1, <4>3
    <3> QED
      BY <3>4, <3>5
  <2> QED
    BY <1>1, <2>1, <2>4, <2>5
<1>4. \A k \in T : k + 1 \in T
  BY <1>3
<1>5. \A k \in Nat : k \in T
  <2> HIDE DEF T
  <2> QED
    BY <1>2, <1>4, Induct
<1>6. ASSUME NEW k \in 0 .. Width PROVE Is(k)
  <2>1. k \in Nat
    BY <1>1
  <2>2. k \in T
    BY <1>5, <2>1
  <2> QED
    BY <2>2
<1> QED
  BY <1>6

-----------------------------------------------------------------------------
(* The inductive invariant.                                                *)

\* The entries of the history, and what those of the present measurement say: their
\* marks do not fall towards the newest, and are not above the mark of now.
Entries == [bytes : Nat, high : Nat, by : {"none", "reset", "tick", "toggle"}, now : BOOLEAN]

MarksRise(stats, high) ==
  \A i \in DOMAIN stats :
    stats[i].now =>
      /\ stats[i].high <= high
      /\ stats[i].by = "tick" => stats[i].bytes <= stats[i].high
      /\ \A j \in DOMAIN stats : j < i /\ stats[j].now => stats[i].high <= stats[j].high

ScaleInv ==
  /\ usage_high <= usage_max
  /\ usage_max = Scale \/ 2 * usage_high > usage_max

HistoryInv == memstats \in Seq(Entries) /\ MarksRise(memstats, usage_high)

MeterIInv == MeterTypeOK /\ ScaleInv /\ HangNeedsHalf /\ HistoryInv

-----------------------------------------------------------------------------
(* The history.                                                            *)

\* dw_update puts the new entry first and drops the oldest.
LEMMA Shifted ==
  ASSUME NEW stats \in Seq(Entries), Len(stats) = MEMSTATS,
         NEW bytes \in Nat, NEW high \in Nat,
         NEW by \in {"reset", "tick", "toggle"}, NEW now \in BOOLEAN
  PROVE  LET after == dw_update(stats, bytes, high, by, now) IN
         /\ after \in Seq(Entries) /\ Len(after) = MEMSTATS
         /\ after[1] = [bytes |-> bytes, high |-> high, by |-> by, now |-> now]
         /\ \A i \in 2 .. MEMSTATS : after[i] = stats[i - 1]
<1> DEFINE e == [bytes |-> bytes, high |-> high, by |-> by, now |-> now]
           rest == SubSeq(stats, 1, MEMSTATS - 1)
<1>1. MEMSTATS \in Nat \ {0}
  BY MeterAssumption
<1>2. /\ rest \in Seq(Entries) /\ Len(rest) = MEMSTATS - 1
      /\ \A i \in 1 .. (MEMSTATS - 1) : rest[i] = stats[i]
  BY <1>1
<1>3. e \in Entries
  BY DEF Entries
<1> HIDE DEF e, rest
<1>4. /\ <<e>> \in Seq(Entries) /\ Len(<<e>>) = 1 /\ <<e>>[1] = e
  BY <1>3
<1>5. /\ <<e>> \o rest \in Seq(Entries) /\ Len(<<e>> \o rest) = MEMSTATS
      /\ (<<e>> \o rest)[1] = e
      /\ \A i \in 2 .. MEMSTATS : (<<e>> \o rest)[i] = rest[i - 1]
  BY <1>1, <1>2, <1>4
<1>6. \A i \in 2 .. MEMSTATS : i - 1 \in 1 .. (MEMSTATS - 1)
  BY <1>1
<1> QED
  BY <1>2, <1>5, <1>6 DEF dw_update, e, rest

\* An entry with the mark of now keeps the marks rising.
LEMMA EntryAdded ==
  ASSUME NEW stats \in Seq(Entries), Len(stats) = MEMSTATS,
         NEW bytes \in Nat, NEW high \in Nat, NEW old \in Nat,
         NEW by \in {"reset", "tick", "toggle"}, NEW now \in BOOLEAN,
         MarksRise(stats, old), old <= high, by = "tick" => bytes <= high
  PROVE  MarksRise(dw_update(stats, bytes, high, by, now), high)
<1> DEFINE after == dw_update(stats, bytes, high, by, now)
<1>1. /\ after \in Seq(Entries) /\ Len(after) = MEMSTATS
      /\ after[1] = [bytes |-> bytes, high |-> high, by |-> by, now |-> now]
      /\ \A i \in 2 .. MEMSTATS : after[i] = stats[i - 1]
  BY Shifted
<1>2. DOMAIN after = 1 .. MEMSTATS /\ DOMAIN stats = 1 .. MEMSTATS /\ MEMSTATS \in Nat
  BY <1>1, MeterAssumption
<1>3. \A i \in DOMAIN stats : stats[i].high \in Nat /\ stats[i].bytes \in Nat
  <2>1. \A i \in DOMAIN stats : stats[i] \in Entries
    BY <1>2
  <2> QED
    BY <2>1 DEF Entries
<1> HIDE DEF after
<1>4. ASSUME NEW i \in 1 .. MEMSTATS, after[i].now
      PROVE  /\ after[i].high <= high
             /\ after[i].by = "tick" => after[i].bytes <= after[i].high
             /\ \A j \in 1 .. MEMSTATS : j < i /\ after[j].now => after[i].high <= after[j].high
  <2>1. CASE i = 1
    BY <1>1, <1>2, <2>1
  <2>2. CASE i # 1
    <3>1. i \in 2 .. MEMSTATS /\ i - 1 \in DOMAIN stats /\ after[i] = stats[i - 1]
      BY <1>1, <1>2, <2>2
    <3>2. /\ stats[i - 1].now /\ stats[i - 1].high <= old /\ stats[i - 1].high \in Nat
          /\ stats[i - 1].by = "tick" => stats[i - 1].bytes <= stats[i - 1].high
          /\ \A j \in DOMAIN stats :
               j < i - 1 /\ stats[j].now => stats[i - 1].high <= stats[j].high
      BY <1>3, <1>4, <3>1 DEF MarksRise
    <3>3. ASSUME NEW j \in 1 .. MEMSTATS, j < i, after[j].now
          PROVE  after[i].high <= after[j].high
      <4>1. CASE j = 1
        BY <1>1, <3>1, <3>2, <4>1
      <4>2. CASE j # 1
        <5>1. j \in 2 .. MEMSTATS /\ j - 1 \in DOMAIN stats /\ j - 1 < i - 1
          BY <1>2, <3>3, <4>2
        <5> QED
          BY <1>1, <3>1, <3>2, <3>3, <5>1
      <4> QED
        BY <4>1, <4>2
    <3> QED
      BY <3>1, <3>2, <3>3
  <2> QED
    BY <2>1, <2>2
<1> QED
  BY <1>2, <1>4 DEF MarksRise, after

\* process_window_reset begins a new measurement.
LEMMA ResetStarts ==
  ASSUME MeterIInv, NEW bytes \in Nat, process' \in BOOLEAN, process_window_reset(bytes)
  PROVE  /\ usage_max' = Scale /\ usage_high' = 0
         /\ Len(memstats') = MEMSTATS /\ HistoryInv'
<1> DEFINE past == [i \in DOMAIN memstats |-> [memstats[i] EXCEPT !.now = FALSE]]
<1>1. /\ memstats \in Seq(Entries) /\ Len(memstats) = MEMSTATS /\ MEMSTATS \in Nat
  BY MeterAssumption DEF MeterIInv, MeterTypeOK, HistoryInv
<1>2. DOMAIN memstats = 1 .. MEMSTATS /\ \A i \in DOMAIN memstats : memstats[i] \in Entries
  BY <1>1
<1>3. \A i \in 1 .. MEMSTATS : past[i] \in Entries /\ past[i].now = FALSE
  BY <1>2 DEF Entries
<1>4. past \in Seq(Entries) /\ Len(past) = MEMSTATS /\ DOMAIN past = 1 .. MEMSTATS
  BY <1>1, <1>2, <1>3
<1> HIDE DEF past
<1>5. MarksRise(past, 0)
  BY <1>3, <1>4 DEF MarksRise
<1>6. /\ usage_max' = Scale /\ usage_high' = 0
      /\ memstats' = IF process' THEN dw_update(past, bytes, 0, "reset", FALSE) ELSE past
  BY DEF process_window_reset, past
<1>7. /\ dw_update(past, bytes, 0, "reset", FALSE) \in Seq(Entries)
      /\ Len(dw_update(past, bytes, 0, "reset", FALSE)) = MEMSTATS
  BY <1>4, Shifted
<1>8. MarksRise(dw_update(past, bytes, 0, "reset", FALSE), 0)
  <2>1. 0 \in Nat /\ 0 <= 0 /\ "reset" \in {"reset", "tick", "toggle"} /\ "reset" # "tick"
    OBVIOUS
  <2> QED
    BY <1>4, <1>5, <2>1, EntryAdded
<1> QED
  BY <1>4, <1>5, <1>6, <1>7, <1>8 DEF HistoryInv

-----------------------------------------------------------------------------
(* The steps.                                                              *)

LEMMA MeterTypes ==
  ASSUME MeterTypeOK
  PROVE  /\ GuintMod \in Nat \ {0} /\ Width \in Nat \ {0} /\ MEMSTATS \in Nat \ {0}
         /\ Scale \in Nat \ {0}
         /\ usage_max \in Nat \ {0} /\ usage_high \in Nat /\ bytes_used \in Nat
         /\ \A l \in Levels : l \in Nat
  BY MeterAssumption, PowersGrow DEF MeterTypeOK, GuintMod

LEMMA MeterStarts == MeterInit => MeterIInv
<1> SUFFICES ASSUME MeterInit PROVE MeterIInv
  OBVIOUS
<1>1. MEMSTATS \in Nat \ {0} /\ Width \in Nat \ {0}
  BY MeterAssumption
<1>2. \A i \in 1 .. MEMSTATS : memstats[i] = Blank
  BY DEF MeterInit
<1>3. Blank \in Entries /\ ~Blank.now
  BY DEF Blank, Entries
<1>4. memstats \in Seq(Entries) /\ Len(memstats) = MEMSTATS /\ DOMAIN memstats = 1 .. MEMSTATS
  BY <1>1, <1>3 DEF MeterInit
<1>5. MarksRise(memstats, usage_high)
  BY <1>2, <1>3, <1>4 DEF MarksRise
<1>6. \A k \in 0 .. (Width - 1) : Power[k] \in Nat
  BY <1>1, PowersGrow
<1>7. ScaleInv /\ HangNeedsHalf
  BY <1>6, MeterAssumption DEF MeterInit, ScaleInv, HangNeedsHalf
<1>8. MeterTypeOK
  <2>1. Scale \in {Power[k] : k \in 0 .. (Width - 1)} /\ Scale <= Scale /\ 0 \in Levels
    BY <1>6, MeterAssumption
  <2> QED
    BY <1>4, <2>1 DEF MeterInit, MeterTypeOK
<1> QED
  BY <1>4, <1>5, <1>7, <1>8 DEF MeterIInv, HistoryInv

\* The scale that update_status ends with: the first that is not below the bytes in use.
LEMMA ScaleFound ==
  ASSUME MeterTypeOK, ScaleInv, Stops # {}
  PROVE  LET m == Doubled[Min(Stops)] IN
         /\ m \in {Power[k] : k \in 0 .. (Width - 1)} /\ usage_max <= m
         /\ bytes_used <= m
         /\ m = usage_max \/ m < 2 * bytes_used
<1>1. PICK j \in 0 .. (Width - 1) : usage_max = Power[j]
  BY DEF MeterTypeOK
<1>2. /\ Width \in Nat \ {0} /\ usage_max \in Nat \ {0} /\ bytes_used \in Nat
      /\ GuintMod \in Nat \ {0}
  BY MeterTypes
<1>3. Stops \in SUBSET Nat
  BY <1>2 DEF Stops
<1>4. Min(Stops) \in Stops /\ \A k \in Stops : Min(Stops) <= k
  BY <1>3, Least DEF Min
<1> DEFINE n == Min(Stops)
<1> HIDE DEF n
<1>5. n \in 0 .. Width /\ n \in Nat /\ bytes_used <= Doubled[n]
  BY <1>2, <1>4 DEF n, Stops
<1>6. \A k \in 0 .. Width : k < n => ~(bytes_used <= Doubled[k])
  BY <1>2, <1>3, <1>4 DEF n, Stops
<1>7. \A k \in 0 .. Width : Doubled[k] = IF j + k < Width THEN Power[j + k] ELSE 0
  BY <1>1, DoublesPowers
<1>8. Doubled[0] = usage_max
  BY <1>2, DoubledIs
<1>9. CASE n = 0
  BY <1>1, <1>2, <1>5, <1>8, <1>9 DEF n
<1>10. CASE n # 0
  <2>1. n - 1 \in 0 .. Width /\ n - 1 < n /\ n \in 1 .. Width /\ 0 \in 0 .. Width /\ 0 < n
    BY <1>2, <1>5, <1>10
  <2>2. ~(bytes_used <= Doubled[n - 1]) /\ ~(bytes_used <= usage_max)
    BY <1>6, <1>8, <2>1
  <2>3. j + n < Width
    BY <1>2, <1>5, <1>7, <2>2
  <2>4. /\ Doubled[n] = Power[j + n] /\ Doubled[n - 1] = Power[j + (n - 1)]
        /\ j + n \in 0 .. (Width - 1) /\ j + n \in 1 .. Width
        /\ j + (n - 1) \in 0 .. Width /\ (j + n) - 1 = j + (n - 1)
        /\ j \in 0 .. Width /\ j + n \in 0 .. Width /\ j <= j + n
    BY <1>2, <1>5, <1>7, <2>1, <2>3
  <2>5. Power[j + n] = 2 * Power[j + (n - 1)]
    BY <2>4, PowerIs
  <2>6. Power[j + (n - 1)] \in Nat /\ Power[j + n] \in Nat /\ Power[j] <= Power[j + n]
    BY <2>4, PowersGrow
  <2> QED
    BY <1>1, <1>2, <1>5, <2>2, <2>4, <2>5, <2>6 DEF n
<1> QED
  BY <1>9, <1>10

\* The loop has no end only when the highest bit is below the bytes in use.
LEMMA HangsLate ==
  ASSUME MeterTypeOK, Stops = {}
  PROVE  2 * bytes_used > GuintMod
<1>1. PICK j \in 0 .. (Width - 1) : usage_max = Power[j]
  BY DEF MeterTypeOK
<1>2. /\ Width \in Nat \ {0} /\ bytes_used \in Nat
  BY MeterTypes
<1> DEFINE k == Width - 1 - j
<1>3. /\ k \in 0 .. Width /\ j + k = Width - 1 /\ j + k < Width
      /\ Width \in 1 .. Width /\ Width - 1 \in 0 .. Width
  BY <1>2
<1> HIDE DEF k
<1>4. Doubled[k] = Power[Width - 1]
  BY <1>1, <1>3, DoublesPowers
<1>5. ~(bytes_used <= Doubled[k])
  BY <1>3 DEF Stops
<1>6. Power[Width] = 2 * Power[Width - 1] /\ Power[Width - 1] \in Nat
  BY <1>3, PowerIs
<1> QED
  BY <1>2, <1>4, <1>5, <1>6 DEF GuintMod

\* The timer: a larger scale and mark if need be, and an entry with them.
LEMMA StatusKept ==
  ASSUME MeterIInv, update_status
  PROVE  MeterIInv'
<1>1. /\ MeterTypeOK /\ ScaleInv /\ HistoryInv
      /\ memstats \in Seq(Entries) /\ Len(memstats) = MEMSTATS /\ MarksRise(memstats, usage_high)
  BY DEF MeterIInv, HistoryInv, MeterTypeOK
<1>2. /\ usage_max \in Nat \ {0} /\ usage_high \in Nat /\ bytes_used \in Nat
      /\ Scale \in Nat \ {0}
  BY <1>1, MeterTypes
<1>3. process' = process /\ bytes_used' = bytes_used /\ process \in BOOLEAN /\ meter = "up"
  BY <1>1 DEF update_status, MeterTypeOK
<1>4. CASE Stops = {}
  <2>1. meter' = "hung" /\ UNCHANGED <<usage_max, usage_high, memstats>>
    BY <1>4 DEF update_status
  <2>2. 2 * bytes_used > GuintMod
    BY <1>1, <1>4, HangsLate
  <2> QED
    BY <1>1, <1>3, <2>1, <2>2
    DEF MeterIInv, MeterTypeOK, ScaleInv, HangNeedsHalf, HistoryInv
<1>5. CASE Stops # {}
  <2> DEFINE m == Doubled[Min(Stops)]
             h == Max({bytes_used, usage_high})
  <2>1. /\ m \in {Power[k] : k \in 0 .. (Width - 1)} /\ usage_max <= m
        /\ bytes_used <= m
        /\ m = usage_max \/ m < 2 * bytes_used
    BY <1>1, <1>5, ScaleFound
  <2>2. /\ usage_max' = m /\ usage_high' = h /\ meter' = "up"
        /\ memstats' = dw_update(memstats, bytes_used, h, "tick", TRUE)
    BY <1>3, <1>5 DEF update_status
  <2>3. h \in {bytes_used, usage_high} /\ bytes_used <= h /\ usage_high <= h
    <3>1. \E x \in {bytes_used, usage_high} : \A y \in {bytes_used, usage_high} : x >= y
      BY <1>2
    <3>2. h \in {bytes_used, usage_high} /\ \A y \in {bytes_used, usage_high} : h >= y
      BY <3>1 DEF Max
    <3> QED
      BY <1>2, <3>2
  <2>4. \A k \in 0 .. (Width - 1) : Power[k] \in Nat
    BY <1>1, MeterTypes, PowersGrow
  <2> HIDE DEF m, h
  <2>5. m \in Nat /\ h \in Nat /\ h \in Levels
    BY <1>1, <1>2, <2>1, <2>3, <2>4 DEF MeterTypeOK
  <2>6. HistoryInv' /\ Len(memstats') = MEMSTATS
    <3>1. "tick" \in {"reset", "tick", "toggle"} /\ TRUE \in BOOLEAN
      OBVIOUS
    <3>2. MarksRise(dw_update(memstats, bytes_used, h, "tick", TRUE), h)
      BY <1>1, <1>2, <2>3, <2>5, <3>1, EntryAdded
    <3>3. /\ dw_update(memstats, bytes_used, h, "tick", TRUE) \in Seq(Entries)
          /\ Len(dw_update(memstats, bytes_used, h, "tick", TRUE)) = MEMSTATS
      BY <1>1, <1>2, <2>5, <3>1, Shifted
    <3> QED
      BY <2>2, <3>2, <3>3 DEF HistoryInv
  <2>7. ScaleInv'
    BY <1>1, <1>2, <2>1, <2>2, <2>3, <2>5 DEF ScaleInv
  <2>8. MeterTypeOK'
    <3>1. Scale <= usage_max'
      BY <1>1, <1>2, <2>1, <2>2, <2>5 DEF MeterTypeOK
    <3>2. usage_max' \in {Power[k] : k \in 0 .. (Width - 1)}
      BY <2>1, <2>2
    <3> QED
      BY <1>1, <1>3, <2>2, <2>5, <2>6, <3>1, <3>2 DEF MeterTypeOK
  <2> QED
    BY <2>2, <2>6, <2>7, <2>8 DEF MeterIInv, HangNeedsHalf
<1> QED
  BY <1>4, <1>5

LEMMA MeterStep ==
  ASSUME MeterIInv, [MeterNext]_meterVars
  PROVE  MeterIInv'
<1>1. /\ MeterTypeOK /\ ScaleInv /\ HistoryInv
      /\ memstats \in Seq(Entries) /\ Len(memstats) = MEMSTATS /\ MarksRise(memstats, usage_high)
  BY DEF MeterIInv, HistoryInv, MeterTypeOK
<1>2. /\ usage_max \in Nat \ {0} /\ usage_high \in Nat /\ bytes_used \in Nat
      /\ Scale \in Nat \ {0} /\ 0 \in Levels /\ Width \in Nat \ {0}
  BY <1>1, MeterTypes, MeterAssumption
<1>3. Scale \in {Power[k] : k \in 0 .. (Width - 1)}
  BY MeterAssumption
<1>4. ASSUME process' \in BOOLEAN, meter' = "up", bytes_used' \in Levels,
             NEW b \in Nat, process_window_reset(b)
      PROVE  MeterIInv'
  <2>1. /\ usage_max' = Scale /\ usage_high' = 0
        /\ Len(memstats') = MEMSTATS /\ HistoryInv'
    BY <1>4, ResetStarts
  <2> QED
    BY <1>2, <1>3, <1>4, <2>1 DEF MeterIInv, MeterTypeOK, ScaleInv, HangNeedsHalf
<1>5. CASE update_status
  BY <1>5, StatusKept
<1>6. CASE Command
  BY <1>1, <1>6 DEF Command, MeterIInv, MeterTypeOK, ScaleInv, HangNeedsHalf, HistoryInv
<1>7. CASE draw_memmap_toggled_cb
  <2>1. /\ meter' = "up" /\ UNCHANGED <<process, bytes_used, usage_max, usage_high>>
        /\ memstats' = dw_update(memstats, bytes_used, usage_high, "toggle", TRUE)
    BY <1>7 DEF draw_memmap_toggled_cb
  <2>2. "toggle" \in {"reset", "tick", "toggle"} /\ TRUE \in BOOLEAN /\ "toggle" # "tick"
    OBVIOUS
  <2>3. MarksRise(memstats', usage_high)
    <3>1. usage_high <= usage_high
      BY <1>2
    <3>2. MarksRise(dw_update(memstats, bytes_used, usage_high, "toggle", TRUE), usage_high)
      BY <1>1, <1>2, <2>2, <3>1, EntryAdded
    <3> QED
      BY <2>1, <3>2
  <2>4. memstats' \in Seq(Entries) /\ Len(memstats') = MEMSTATS
    BY <1>1, <1>2, <2>1, <2>2, Shifted
  <2> QED
    BY <1>1, <2>1, <2>3, <2>4 DEF MeterIInv, MeterTypeOK, ScaleInv, HangNeedsHalf, HistoryInv
<1>8. CASE reset_profile_cb
  <2>1. /\ process' \in BOOLEAN /\ meter' = "up" /\ bytes_used' \in Levels
        /\ process_window_reset(bytes_used)
    BY <1>1, <1>2, <1>8 DEF reset_profile_cb, MeterTypeOK
  <2> QED
    BY <1>2, <1>4, <2>1
<1>9. CASE reset_cb
  <2>1. /\ process' \in BOOLEAN /\ meter' = "up" /\ bytes_used' \in Levels
        /\ process_window_reset(0)
    BY <1>1, <1>2, <1>9 DEF reset_cb, MeterTypeOK
  <2> QED
    BY <1>4, <2>1
<1>10. CASE status_changed_cb
  <2>1. /\ process' \in BOOLEAN /\ meter' = "up" /\ bytes_used' \in Levels
        /\ process_window_reset(0)
    BY <1>2, <1>10 DEF status_changed_cb
  <2> QED
    BY <1>4, <2>1
<1>11. CASE init_process
  BY <1>1, <1>11 DEF init_process, MeterIInv, MeterTypeOK, ScaleInv, HangNeedsHalf, HistoryInv
<1>12. CASE UNCHANGED meterVars
  BY <1>1, <1>12 DEF meterVars, MeterIInv, MeterTypeOK, ScaleInv, HangNeedsHalf, HistoryInv
<1> QED
  BY <1>5, <1>6, <1>7, <1>8, <1>9, <1>10, <1>11, <1>12 DEF MeterNext

-----------------------------------------------------------------------------
(* The theorems.                                                           *)

\* A part of the whole is drawn in proportion, and fits.
LEMMA BarsFit ==
  ASSUME NEW m \in Nat \ {0}, NEW a \in Nat, NEW b \in Nat, a <= b
  PROVE  /\ (Extent * a) \div m <= (Extent * b) \div m
         /\ b <= m => (Extent * b) \div m <= Extent
<1>1. Extent \in Nat \ {0}
  BY MeterAssumption
<1>2. Extent * a \in Nat /\ Extent * b \in Nat /\ Extent * a <= Extent * b
  BY <1>1
<1>3. ASSUME NEW x \in Nat, NEW y \in Nat, x <= y PROVE x \div m <= y \div m
  BY <1>3
<1>4. (Extent * m) \div m = Extent
  BY <1>1
<1>5. b <= m => Extent * b <= Extent * m /\ Extent * m \in Nat
  BY <1>1
<1> QED
  BY <1>2, <1>3, <1>4, <1>5

LEMMA MeterKept == MeterSpec => []MeterIInv
  BY MeterStarts, MeterStep, PTL DEF MeterSpec

\* Whatever updates, resets, execs and new programs come in whatever order, the high
\* water mark is on the meter's scale, which is the smallest power of two that holds it,
\* and update_status finds it unless the program uses more than half of what a guint
\* counts (main.c, update_status).
THEOREM ScaleFits == MeterSpec => []MeterInv
<1>1. MeterIInv => MeterInv
  <2> SUFFICES ASSUME MeterIInv PROVE MeterInv
    OBVIOUS
  <2>1. usage_max \in Nat \ {0} /\ usage_high \in Nat /\ usage_high <= usage_max
    BY MeterTypes DEF MeterIInv, ScaleInv
  <2>2. on_usage_area_expose(usage_high) <= Extent
    BY <2>1, BarsFit DEF on_usage_area_expose
  <2> QED
    BY <2>2 DEF MeterIInv, MeterInv, ScaleTight, ScaleInv
<1> QED
  BY <1>1, MeterKept, PTL

\* The bars and marks of the present measurement fit the graph, and the marks do not
\* fall (detailwin.c, dw_update and dw_draw_memstats).
THEOREM GraphOfNow == MeterSpec => []GraphFits
<1>1. MeterIInv => GraphFits
  <2> SUFFICES ASSUME MeterIInv, NEW i \in DOMAIN memstats,
                      memstats[i].now, memstats[i].by = "tick"
               PROVE  /\ dw_draw_memstats(memstats[i].bytes) <= dw_draw_memstats(memstats[i].high)
                      /\ dw_draw_memstats(memstats[i].high) <= Extent
                      /\ memstats[i].bytes <= memstats[i].high
                      /\ \A j \in DOMAIN memstats :
                           j < i /\ memstats[j].now => memstats[i].high <= memstats[j].high
    BY DEF GraphFits
  <2>1. /\ memstats[i].high <= usage_high /\ memstats[i].bytes <= memstats[i].high
        /\ \A j \in DOMAIN memstats :
             j < i /\ memstats[j].now => memstats[i].high <= memstats[j].high
    BY DEF MeterIInv, HistoryInv, MarksRise
  <2>2. memstats[i] \in Entries
    BY DEF MeterIInv, HistoryInv
  <2>3. memstats[i].high \in Nat /\ memstats[i].bytes \in Nat /\ usage_high \in Nat
    BY <2>2, MeterTypes DEF MeterIInv, Entries
  <2>4. CASE usage_high > 0
    BY <2>1, <2>3, <2>4, BarsFit DEF dw_draw_memstats
  <2>5. CASE ~(usage_high > 0)
    BY <2>1, <2>5, MeterAssumption DEF dw_draw_memstats
  <2> QED
    BY <2>1, <2>3, <2>4, <2>5
<1> QED
  BY <1>1, MeterKept, PTL

=============================================================================

--------------------------- MODULE ProfileProofs ----------------------------
(***************************************************************************)
(* What a profile is made from.  The search of process_locate_symbol, for  *)
(* any maps and any number of symbols, keeps the address between its two   *)
(* ends and answers the last symbol at or before it; and it is a search of *)
(* the map that holds the address, through every order of mapping, reading *)
(* and giving up.  The stash, for any stacks, gives each of them back and   *)
(* holds what they share once.  The lists of functions and of callers are  *)
(* sums over the reported stacks.                                          *)
(***************************************************************************)
EXTENDS Lookup, Profile, Recursion, SequenceTheorems, FiniteSetTheorems, TLAPS

\* A search in progress looks between two symbols of a sorted list; its ends
\* enclose the address if any symbol is at or before it.
Searches ==
  at = "search" =>
    /\ data \in Seq(Nat) /\ Ordered(data) /\ 2 * Len(data) < UIntMod
    /\ addr \in Int /\ last \in 0..(Len(data) - 1) /\ first \in 0..last

\* The maps are those that can appear in /proc/<pid>/maps.
Known == mapped \subseteq Maps /\ map_list \subseteq Maps

SearchInv == Searches /\ Bracketed /\ NearestSymbol

\* While nothing was unmapped since the last reset, what memprof has cached of the
\* program's maps is true: its maps are there, no page is bad, and every page
\* that has held code still does.
Cached ==
  ~unmapped =>
    /\ map_list \subseteq mapped /\ bad_pages = {}
    /\ \A a \in Addresses : Page(a) \in ran => \E m \in mapped : a \in Within(m)

\* RightMap, from the moment the map is found.
Located ==
  at \in {"search", "answer"} /\ ~unmapped =>
    /\ map \in mapped /\ asked \in Within(map)
    /\ data # <<>> => addr = asked - map.bias

MapInv == LookupTypeOK /\ Cached /\ Located

-----------------------------------------------------------------------------
\* Numbers below the modulus are left alone by it.
LEMMA SmallMod ==
  ASSUME NEW n \in Nat \ {0}, NEW k \in 0..(n - 1)
  PROVE  k % n = k
  OBVIOUS

\* A step that changes neither the search nor what it looks for.
LEMMA SearchStill ==
  ASSUME SearchInv, UNCHANGED <<at, searchVars>>
  PROVE  SearchInv'
  BY DEF SearchInv, Searches, Bracketed, NearestSymbol, InRange, Ordered, searchVars

\* A step after which memprof is neither searching nor answering.
LEMMA SearchOver ==
  ASSUME at' \notin {"search", "answer"}
  PROVE  SearchInv'
  BY DEF SearchInv, Searches, Bracketed, NearestSymbol

\* process_locate_symbol starts a search at the two ends of the sorted list,
\* or answers the last symbol when the address is not before it.
LEMMA BeginSearch ==
  ASSUME NEW m \in Maps, NEW a \in Int, Begin(m, a)
  PROVE  SearchInv'
PROOF
  <1> DEFINE symbols == Sorted(m.functions)
             val == IF do_offset(m, symbols) THEN a - m.addr ELSE a
  <1>1. symbols \in Seq(Nat) /\ Ordered(symbols) /\ 2 * Len(symbols) < UIntMod
    BY SortAssumption
  <1>2. val \in Int
    BY LookupAssumption
  <1>3. data' = symbols /\ addr' = val /\ first' = 0
    BY DEF Begin
  <1>4. CASE symbols = <<>>
    <2>1. at' = "answer" /\ found' = None
      BY <1>4 DEF Begin
    <2> QED
      BY <2>1 DEF SearchInv, Searches, Bracketed, NearestSymbol
  <1>5. CASE symbols # <<>> /\ val < symbols[(Len(symbols) - 1) + 1]
    <2>1. at' = "search" /\ last' = Len(symbols) - 1
      BY <1>5 DEF Begin
    <2>2. Len(symbols) \in Nat \ {0}
      BY <1>1, <1>5
    <2>3. Searches'
      BY <1>1, <1>2, <1>3, <2>1, <2>2 DEF Searches, Ordered
    <2>4. Bracketed'
      <3> HIDE DEF symbols, val
      <3> SUFFICES ASSUME symbols[1] <= val
                   PROVE  0 < Len(symbols) - 1 /\ symbols[0 + 1] <= val
                          /\ val < symbols[(Len(symbols) - 1) + 1]
        BY <1>3, <2>1 DEF Bracketed, InRange
      <3>1. Len(symbols) # 1
        BY <1>1, <1>2, <1>5
      <3> QED
        BY <1>1, <1>2, <1>5, <2>2, <3>1
    <2>5. NearestSymbol'
      BY <2>1 DEF NearestSymbol
    <2> QED
      BY <2>3, <2>4, <2>5 DEF SearchInv
  <1>6. CASE symbols # <<>> /\ ~(val < symbols[(Len(symbols) - 1) + 1])
    <2>1. at' = "answer" /\ found' = Len(symbols) - 1
      BY <1>6 DEF Begin
    <2>2. Len(symbols) \in Nat \ {0}
      BY <1>1, <1>6
    <2>3. NearestSymbol'
      <3> HIDE DEF symbols, val
      <3>1. symbols[(Len(symbols) - 1) + 1] <= val
        BY <1>1, <1>2, <1>6, <2>2
      <3>2. \A i \in DOMAIN symbols : symbols[i] <= symbols[(Len(symbols) - 1) + 1]
        BY <1>1, <2>2 DEF Ordered
      <3> QED
        BY <1>3, <2>1, <3>1, <3>2 DEF NearestSymbol
    <2> QED
      BY <2>1, <2>3 DEF SearchInv, Searches, Bracketed
  <1> QED
    BY <1>4, <1>5, <1>6

\* The answer for an address in no map is no symbol.
LEMMA UnknownAnswer ==
  ASSUME NEW a, Unknown(a)
  PROVE  SearchInv'
  BY DEF Unknown, SearchInv, Searches, Bracketed, NearestSymbol

\* A round of the loop keeps the half with the address.
LEMMA NarrowSearch ==
  ASSUME SearchInv, Narrow
  PROVE  SearchInv'
PROOF
  <1> DEFINE middle == ((first + last) % UIntMod) \div 2
  <1>1. /\ data \in Seq(Nat) /\ Ordered(data) /\ 2 * Len(data) < UIntMod
        /\ addr \in Int /\ last \in 0..(Len(data) - 1) /\ first \in 0..last
    BY DEF SearchInv, Searches, Narrow
  <1>2. (first + last) % UIntMod = first + last
    <2>1. first + last \in 0..(UIntMod - 1)
      BY <1>1, LookupAssumption
    <2> QED
      BY <2>1, SmallMod, LookupAssumption
  <1>3. middle \in first..last
    BY <1>1, <1>2
  <1>4. at' = "search" /\ data' = data /\ addr' = addr
    BY DEF Narrow
  <1>5. \/ addr < data[middle + 1] /\ last' = middle /\ first' = first
        \/ ~(addr < data[middle + 1]) /\ first' = middle /\ last' = last
    BY DEF Narrow, Before, Lower, Upper
  <1>6. ASSUME InRange PROVE middle \in (first + 1)..(last - 1)
    <2>1. first < last
      BY <1>6, <1>1 DEF SearchInv, Bracketed, Narrow
    <2>2. first < (last - 1) % UIntMod
      BY DEF Narrow, Searching
    <2>3. (last - 1) % UIntMod = last - 1
      <3>1. last - 1 \in 0..(UIntMod - 1)
        BY <1>1, <2>1, LookupAssumption
      <3> QED
        BY <3>1, SmallMod, LookupAssumption
    <2> QED
      BY <1>1, <1>2, <2>2, <2>3
  <1> HIDE DEF middle
  <1>7. Searches'
    BY <1>1, <1>3, <1>4, <1>5 DEF Searches, Ordered
  <1>8. Bracketed'
    <2> SUFFICES ASSUME InRange
                 PROVE  first' < last' /\ data[first' + 1] <= addr /\ addr < data[last' + 1]
      BY <1>4 DEF Bracketed, InRange
    <2>1. first < last /\ data[first + 1] <= addr /\ addr < data[last + 1]
      BY DEF SearchInv, Bracketed, Narrow
    <2>2. middle \in (first + 1)..(last - 1)
      BY <1>6
    <2>3. data[middle + 1] \in Nat
      BY <1>1, <2>2
    <2>4. CASE addr < data[middle + 1] /\ last' = middle /\ first' = first
      BY <1>1, <2>1, <2>2, <2>4
    <2>5. CASE ~(addr < data[middle + 1]) /\ first' = middle /\ last' = last
      <3>1. data[middle + 1] <= addr
        BY <1>1, <2>3, <2>5
      <3> QED
        BY <1>1, <2>1, <2>2, <2>5, <3>1
    <2> QED
      BY <1>5, <2>4, <2>5
  <1> QED
    BY <1>4, <1>7, <1>8 DEF SearchInv, NearestSymbol

\* The loop ends at two neighbours, the first of which is the answer.
LEMMA FoundSymbol ==
  ASSUME SearchInv, Found
  PROVE  SearchInv'
PROOF
  <1>1. /\ data \in Seq(Nat) /\ Ordered(data) /\ 2 * Len(data) < UIntMod
        /\ addr \in Int /\ last \in 0..(Len(data) - 1) /\ first \in 0..last
    BY DEF SearchInv, Searches, Found
  <1>2. at' = "answer" /\ data' = data /\ addr' = addr /\ found' = first
    BY DEF Found
  <1>3. NearestSymbol'
    <2> SUFFICES ASSUME InRange
                 PROVE  /\ data[first + 1] <= addr
                        /\ \A i \in DOMAIN data : data[i] <= addr => data[i] <= data[first + 1]
      BY <1>2 DEF NearestSymbol, InRange
    <2>1. first < last /\ data[first + 1] <= addr /\ addr < data[last + 1]
      BY DEF SearchInv, Bracketed, Found
    <2>2. (last - 1) % UIntMod = last - 1
      <3>1. last - 1 \in 0..(UIntMod - 1)
        BY <1>1, <2>1, LookupAssumption
      <3> QED
        BY <3>1, SmallMod, LookupAssumption
    <2>3. last = first + 1
      BY <1>1, <2>1, <2>2 DEF Found, Searching
    <2>4. ASSUME NEW i \in DOMAIN data, data[i] <= addr
          PROVE  data[i] <= data[first + 1]
      <3>1. CASE i <= first + 1
        BY <1>1, <3>1 DEF Ordered
      <3>2. CASE last + 1 <= i
        <4>1. data[last + 1] <= data[i]
          BY <1>1, <3>2 DEF Ordered
        <4>2. data[last + 1] \in Nat /\ data[i] \in Nat
          BY <1>1
        <4> QED
          BY <1>1, <2>1, <2>4, <4>1, <4>2
      <3> QED
        BY <1>1, <2>3, <3>1, <3>2
    <2> QED
      BY <2>1, <2>4
  <1> QED
    BY <1>2, <1>3 DEF SearchInv, Searches, Bracketed

\* Every step keeps the search enclosed.
LEMMA SearchStep ==
  ASSUME Known, SearchInv, [LookupNext]_lookupVars
  PROVE  SearchInv'
PROOF
  <1>1. CASE \E m \in Maps : Mmap(m) \/ Munmap(m)
    BY <1>1, SearchStill DEF Mmap, Munmap
  <1>2. CASE Die \/ process_clear_input \/ process_sections
    BY <1>2, SearchStill DEF Die, process_clear_input, process_sections
  <1>3. ASSUME NEW a \in Addresses, process_locate_symbol(a)
        PROVE  SearchInv'
    <2>1. a \in Int
      BY LookupAssumption DEF Addresses, Within, Ends
    <2>2. \A l \in SUBSET Maps : real_locate_map(l, a) # None => real_locate_map(l, a) \in l
      BY DEF real_locate_map
    <2>3. CASE Hit(a)
      <3>1. real_locate_map(map_list, a) \in Maps
        BY <2>2, <2>3 DEF Hit, Known
      <3> QED
        BY <2>1, <2>3, <3>1, BeginSearch DEF Hit
    <2>4. CASE BadPage(a)
      BY <2>4, UnknownAnswer DEF BadPage
    <2>5. CASE Reread(a)
      <3>1. CASE real_locate_map(mapped, a) # None
        <4>1. real_locate_map(mapped, a) \in Maps
          BY <2>2, <3>1 DEF Known
        <4> QED
          BY <2>1, <2>5, <3>1, <4>1, BeginSearch DEF Reread
      <3>2. CASE real_locate_map(mapped, a) = None
        BY <2>5, <3>2, UnknownAnswer DEF Reread
      <3> QED
        BY <3>1, <3>2
    <2>6. CASE RereadDead(a)
      BY <2>6, SearchOver DEF RereadDead
    <2> QED
      BY <1>3, <2>3, <2>4, <2>5, <2>6 DEF process_locate_symbol
  <1>4. CASE Narrow
    BY <1>4, NarrowSearch
  <1>5. CASE Found
    BY <1>5, FoundSymbol
  <1>6. CASE Return
    BY <1>6, SearchOver DEF Return
  <1>7. CASE UNCHANGED lookupVars
    BY <1>7, SearchStill DEF lookupVars
  <1> QED
    BY <1>1, <1>2, <1>3, <1>4, <1>5, <1>6, <1>7 DEF LookupNext

\* memprof only has maps that the program had.
LEMMA KnownStep ==
  ASSUME Known, [LookupNext]_lookupVars
  PROVE  Known'
  BY DEF Known, LookupNext, lookupVars, programVars, cacheVars, Mmap, Munmap, Die,
         process_clear_input, process_sections, process_locate_symbol, Hit, BadPage,
         Reread, RereadDead, Narrow, Found, Return

\* Nothing is searched at the start.
LEMMA SearchInit == LookupInit => Known /\ SearchInv
  BY DEF LookupInit, Known, SearchInv, Searches, Bracketed, NearestSymbol

\* The invariant of the search.
LEMMA SearchKept == LookupSpec => [](Known /\ SearchInv)
  <1>1. Known /\ SearchInv /\ [LookupNext]_lookupVars => (Known /\ SearchInv)'
    BY KnownStep, SearchStep
  <1> QED
    BY <1>1, SearchInit, PTL DEF LookupSpec

\* What the comment in process_locate_symbol calls its invariant holds of every
\* address that has a symbol at or before it, for any list of symbols.
THEOREM SearchBracketed == LookupSpec => []Bracketed
  <1>1. Known /\ SearchInv => Bracketed
    BY DEF SearchInv
  <1> QED
    BY <1>1, SearchKept, PTL

\* And the symbol process_locate_symbol answers is the last one at or before
\* the address.
THEOREM SymbolIsNearest == LookupSpec => []NearestSymbol
  <1>1. Known /\ SearchInv => NearestSymbol
    BY DEF SearchInv
  <1> QED
    BY <1>1, SearchKept, PTL

-----------------------------------------------------------------------------
(* The map that is searched.                                               *)

\* An address in a page of a mapping is in the mapping.
LEMMA WholePages ==
  ASSUME NEW m \in Maps, NEW b \in Within(m), NEW a \in Int, Page(a) = Page(b)
  PROVE  a \in Within(m)
<1>1. a % PageSize \in 0..(PageSize - 1) /\ PageSize \in Nat
  BY LookupAssumption
<1>2. b \in Int
  BY LookupAssumption DEF Within, Ends
<1>3. Page(b) \in Int
  BY <1>2, LookupAssumption DEF Page
<1>4. a \in Page(a)..(Page(a) + PageSize - 1)
  BY <1>1, <1>3 DEF Page
<1> QED BY <1>4, PageAssumption

LEMMA LocateMap ==
  ASSUME NEW list \in SUBSET Maps, NEW a
  PROVE  /\ real_locate_map(list, a) # None =>
              real_locate_map(list, a) \in list /\ a \in Within(real_locate_map(list, a))
         /\ (\E m \in list : a \in Within(m)) => real_locate_map(list, a) # None
BY LookupAssumption DEF real_locate_map

\* What starts a search of m is of m's own symbols, and of the address that m's
\* file knows a by.
LEMMA BeginLocates ==
  ASSUME NEW m \in Maps, NEW a \in Int, Begin(m, a)
  PROVE  /\ map' = m /\ at' \in {"search", "answer"}
         /\ data' # <<>> => addr' = a - m.bias
         /\ data' \in Seq(Nat) /\ first' \in 0..Len(data') /\ last' \in 0..Len(data')
         /\ found' \in (0..Len(data')) \cup {None}
<1> DEFINE symbols == Sorted(m.functions)
<1>1. symbols \in Seq(Nat) /\ Len(symbols) \in Nat /\ (symbols # <<>> => Len(symbols) >= 1)
  BY SortAssumption
<1>2. map' = m /\ data' = symbols /\ first' = 0 /\ at' \in {"search", "answer"}
  BY DEF Begin
<1>3. symbols # <<>> => addr' = a - m.bias
  <2>1. addr' = IF do_offset(m, symbols) THEN a - m.addr ELSE a
    BY DEF Begin
  <2>2. symbols # <<>> => m.bias = IF do_offset(m, symbols) THEN m.addr ELSE 0
    BY LookupAssumption, BiasAssumption DEF do_offset
  <2> HIDE DEF symbols
  <2> QED BY <2>1, <2>2, LookupAssumption
<1>4. last' \in 0..Len(symbols) /\ found' \in (0..Len(symbols)) \cup {None}
  <2>1. CASE symbols = <<>>
    BY <1>1, <2>1 DEF Begin
  <2>2. CASE symbols # <<>>
    <3>1. Len(symbols) - 1 \in 0..Len(symbols)
      BY <1>1, <2>2
    <3>2. last' = Len(symbols) - 1 /\ found' \in {None, Len(symbols) - 1}
      BY <2>2 DEF Begin
    <3> QED BY <3>1, <3>2
  <2> QED BY <2>1, <2>2
<1> QED BY <1>1, <1>2, <1>3, <1>4

\* The program maps, unmaps and dies; the user resets; the leak detector reads.
LEMMA ProgramMaps ==
  ASSUME MapInv,
         \/ \E m \in Maps : Mmap(m) \/ Munmap(m)
         \/ Die \/ process_clear_input \/ process_sections
  PROVE  MapInv'
<1> USE DEF MapInv
<1>1. UNCHANGED <<at, asked, searchVars>>
  BY DEF Mmap, Munmap, Die, process_clear_input, process_sections
<1>2. LookupTypeOK'
  BY <1>1 DEF LookupTypeOK, searchVars, Mmap, Munmap, Die, process_clear_input,
     process_sections, cacheVars, programVars
<1>3. Located'
  <2>1. at' \in {"search", "answer"} /\ ~unmapped' => ~unmapped /\ mapped \subseteq mapped'
    BY <1>1 DEF Mmap, Munmap, Die, process_clear_input, process_sections, programVars
  <2> QED BY <1>1, <2>1 DEF Located, searchVars
<1>4. Cached'
  <2>1. CASE Die
    BY <2>1 DEF Die, Cached, cacheVars
  <2>2. CASE process_sections
    BY <2>2 DEF process_sections, Cached, programVars
  <2>3. ASSUME NEW m \in Maps, Munmap(m) PROVE Cached'
    BY <2>3 DEF Munmap, Cached
  <2>4. ASSUME NEW m \in Maps, Mmap(m) PROVE Cached'
    <3>1. SUFFICES ASSUME ~unmapped, NEW a \in Addresses, Page(a) \in ran'
                   PROVE  \E n \in mapped' : a \in Within(n)
      BY <2>4 DEF Mmap, Cached, cacheVars
    <3>2. a \in Int
      BY LookupAssumption DEF Addresses, Within, Ends
    <3>3. CASE Page(a) \in ran
      BY <2>4, <3>1, <3>3 DEF Mmap, Cached
    <3>4. CASE Page(a) \notin ran
      <4>1. PICK b \in Within(m) : Page(a) = Page(b)
        BY <2>4, <3>1, <3>4 DEF Mmap
      <4>2. a \in Within(m)
        BY <3>2, <4>1, WholePages
      <4> QED BY <2>4, <4>2 DEF Mmap
    <3> QED BY <3>3, <3>4
  <2>5. CASE process_clear_input
    <3>1. SUFFICES ASSUME NEW a \in Addresses, Page(a) \in ran'
                   PROVE  \E n \in mapped : a \in Within(n)
      BY <2>5 DEF process_clear_input, Cached
    <3>2. PICK m \in mapped : \E b \in Within(m) : Page(a) = Page(b)
      BY <2>5, <3>1 DEF process_clear_input
    <3>3. a \in Int /\ m \in Maps
      BY LookupAssumption DEF Addresses, Within, Ends, LookupTypeOK
    <3> QED BY <3>2, <3>3, WholePages
  <2> QED BY <2>1, <2>2, <2>3, <2>4, <2>5
<1> QED BY <1>2, <1>3, <1>4

\* A lookup of an address starts in the map that has it.
LEMMA LookupLocates ==
  ASSUME MapInv, NEW a \in Addresses, process_locate_symbol(a)
  PROVE  MapInv'
<1> USE DEF MapInv
<1>0. /\ a \in Int /\ Page(a) \in ran /\ asked' = a
      /\ UNCHANGED programVars /\ map_list \subseteq Maps /\ mapped \subseteq Maps
  BY LookupAssumption DEF Addresses, Within, Ends, process_locate_symbol, LookupTypeOK
<1>1. ASSUME NEW m \in Maps, Begin(m, a), bad_pages' = bad_pages, a \in Within(m),
             map_list' \in {map_list, mapped}, ~unmapped => m \in mapped
      PROVE  MapInv'
  <2>1. LookupTypeOK'
    BY <1>0, <1>1, BeginLocates DEF LookupTypeOK, programVars
  <2>2. Located'
    BY <1>0, <1>1, BeginLocates DEF Located, programVars
  <2>3. Cached'
    BY <1>0, <1>1 DEF Cached, programVars
  <2> QED BY <2>1, <2>2, <2>3
<1>2. ASSUME Unknown(a), unmapped, map_list' \in {map_list, mapped} PROVE MapInv'
  <2>1. LookupTypeOK'
    BY <1>0, <1>2 DEF Unknown, LookupTypeOK, programVars
  <2> QED BY <1>0, <1>2, <2>1 DEF Located, Cached, programVars
<1>3. CASE Hit(a)
  BY <1>0, <1>1, <1>3, LocateMap DEF Hit, Cached
<1>4. CASE BadPage(a)
  <2>1. unmapped
    BY <1>0, <1>4 DEF BadPage, Cached, LookupTypeOK
  <2> QED BY <1>2, <1>4, <2>1 DEF BadPage, cacheVars
<1>5. CASE Reread(a)
  <2>1. CASE real_locate_map(mapped, a) # None
    BY <1>0, <1>1, <1>5, <2>1, LocateMap DEF Reread
  <2>2. CASE real_locate_map(mapped, a) = None
    <3>1. unmapped
      BY <1>0, <2>2, LocateMap DEF Cached, LookupTypeOK
    <3> QED BY <1>2, <1>5, <2>2, <3>1 DEF Reread
  <2> QED BY <2>1, <2>2
<1>6. CASE RereadDead(a)
  BY <1>0, <1>6 DEF RereadDead, cacheVars, searchVars, programVars, LookupTypeOK, Located,
     Cached
<1> QED BY <1>3, <1>4, <1>5, <1>6 DEF process_locate_symbol

LEMMA NoSymbols == <<>> \in Seq(Nat) /\ 0 \in 0..Len(<<>>)
OBVIOUS

\* The search goes on in that map.
LEMMA SearchLocates ==
  ASSUME MapInv, SearchInv, Narrow \/ Found \/ Return
  PROVE  MapInv'
<1> USE DEF MapInv
<1>1. Cached'
  BY DEF Narrow, Found, Return, programVars, cacheVars, Cached
<1>2. Located'
  BY DEF Narrow, Found, Return, programVars, Located
<1>3. CASE Narrow
  <2> DEFINE middle == ((first + last) % UIntMod) \div 2
  <2>1. /\ Len(data) \in Nat /\ last \in 0..(Len(data) - 1) /\ first \in 0..last
        /\ 2 * Len(data) < UIntMod
    BY <1>3 DEF SearchInv, Searches, Narrow
  <2>2. (first + last) % UIntMod = first + last
    <3>1. first + last \in 0..(UIntMod - 1)
      BY <2>1, LookupAssumption
    <3> QED BY <3>1, SmallMod, LookupAssumption
  <2>3. middle \in 0..Len(data)
    BY <2>1, <2>2
  <2>4. first' \in {first, middle} /\ last' \in {last, middle}
    BY <1>3 DEF Narrow, Lower, Upper
  <2> HIDE DEF middle
  <2>5. LookupTypeOK'
    BY <1>3, <2>3, <2>4 DEF Narrow, LookupTypeOK, programVars, cacheVars
  <2> QED BY <1>1, <1>2, <2>5
<1>4. CASE Found \/ Return
  <2>1. CASE Found
    BY <2>1, <1>1, <1>2 DEF Found, LookupTypeOK, programVars, cacheVars
  <2>2. CASE Return
    <3>1. LookupTypeOK'
      BY <2>2, NoSymbols DEF Return, LookupTypeOK, programVars, cacheVars
    <3> QED BY <1>1, <1>2, <3>1
  <2> QED BY <1>4, <2>1, <2>2
<1> QED BY <1>3, <1>4

\* The search keeps a symbol between its ends, and it is a search of the map that
\* holds the address: maps that appear after memprof read the list are found by
\* reading it again, and a page is given up only for something unmapped.
THEOREM LookupKept == LookupSpec => []LookupInv
<1>1. LookupInit => MapInv
  BY NoSymbols DEF LookupInit, MapInv, LookupTypeOK, Cached, Located
<1>2. MapInv /\ Known /\ SearchInv /\ [LookupNext]_lookupVars => MapInv'
  <2> SUFFICES ASSUME MapInv, SearchInv, [LookupNext]_lookupVars PROVE MapInv'
    OBVIOUS
  <2>1. CASE UNCHANGED lookupVars
    BY <2>1 DEF lookupVars, programVars, cacheVars, searchVars, MapInv, LookupTypeOK, Cached,
       Located
  <2> QED BY <2>1, ProgramMaps, LookupLocates, SearchLocates DEF LookupNext
<1>3. MapInv /\ SearchInv => LookupInv
  BY DEF MapInv, SearchInv, LookupInv, RightMap, Located
<1> QED BY <1>1, <1>2, <1>3, SearchKept, PTL DEF LookupSpec

-----------------------------------------------------------------------------
(* The stash: each list of siblings is a node's children, newest first.    *)

Node(A) == [address : A, parent : Nat, siblings : Nat, children : Nat]

Made(st) == Len(st.nodes)

\* The children of p among the first m nodes, and the newest of some nodes.
Kids(st, p, m) == {k \in 1..m : st.nodes[k].parent = p}

IsNewest(n, T) == IF T = {} THEN n = 0 ELSE n \in T /\ \A k \in T : k <= n

\* No node has two children for one address.
Unique(st) ==
  \A m, n \in 1..Made(st) :
    st.nodes[m].parent = st.nodes[n].parent /\ st.nodes[m].address = st.nodes[n].address
      => m = n

\* A stash that has taken in stacks of addresses in A, one node at a time.
WellMade(st, A) ==
  /\ st \in [nodes : Seq(Node(A)), root : Nat]
  /\ \A k \in 1..Made(st) :
       /\ st.nodes[k].parent \in 0..(k - 1)
       /\ IsNewest(st.nodes[k].siblings, Kids(st, st.nodes[k].parent, k - 1))
  /\ \A p \in 0..Made(st) : IsNewest(Location(st, p), Kids(st, p, Made(st)))
  /\ Unique(st)

\* st2 has the nodes of st, and perhaps more.
Grown(st, st2) ==
  /\ Made(st) <= Made(st2)
  /\ \A k \in 1..Made(st) : /\ st2.nodes[k].parent = st.nodes[k].parent
                            /\ st2.nodes[k].address = st.nodes[k].address

LEMMA NodesTyped ==
  ASSUME NEW st, NEW A, WellMade(st, A)
  PROVE  Made(st) \in Nat /\ \A k \in 1..Made(st) : st.nodes[k] \in Node(A)
<1>1. st.nodes \in Seq(Node(A))
  BY DEF WellMade
<1> QED
  BY <1>1 DEF Made

LEMMA NewStashIs == ASSUME NEW A PROVE WellMade(NewStash, A)
<1>1. NewStash.nodes = <<>> /\ NewStash.root = 0 /\ Made(NewStash) = 0
  BY DEF NewStash, Made
<1>2. NewStash \in [nodes : Seq(Node(A)), root : Nat]
  BY DEF NewStash
<1> QED
  BY <1>1, <1>2 DEF WellMade, Unique, Location, Kids, IsNewest

\* A list of siblings is all children of a node.
LEMMA SiblingsAre ==
  ASSUME NEW st, NEW A, WellMade(st, A), NEW p \in 0..Made(st)
  PROVE  Siblings(st, Location(st, p)) = Kids(st, p, Made(st))
<1> DEFINE N == Made(st)
           List(g) == g = [k \in 0..N |-> IF k = 0 THEN {} ELSE {k} \cup g[st.nodes[k].siblings]]
           list == CHOOSE g : List(g)
<1>0. N \in Nat /\ \A k \in 1..N : st.nodes[k].parent \in Nat /\ st.nodes[k].siblings \in Nat
  BY NodesTyped DEF Node
<1>1. Siblings(st, Location(st, p)) = list[Location(st, p)]
  BY DEF Siblings, Made
<1>2. \A k \in 1..N : LET s == st.nodes[k].siblings
                          q == st.nodes[k].parent
                      IN  IF s = 0 THEN Kids(st, q, k) = {k}
                          ELSE /\ s \in 1..(k - 1) /\ st.nodes[s].parent = q
                               /\ Kids(st, q, k) = {k} \cup Kids(st, q, s)
  <2> SUFFICES ASSUME NEW k \in 1..N
               PROVE  LET s == st.nodes[k].siblings
                          q == st.nodes[k].parent
                      IN  IF s = 0 THEN Kids(st, q, k) = {k}
                          ELSE /\ s \in 1..(k - 1) /\ st.nodes[s].parent = q
                               /\ Kids(st, q, k) = {k} \cup Kids(st, q, s)
    OBVIOUS
  <2> DEFINE s == st.nodes[k].siblings
             q == st.nodes[k].parent
             K == Kids(st, q, k - 1)
  <2>1. IsNewest(s, K)
    BY DEF WellMade
  <2>2. Kids(st, q, k) = {k} \cup K
    BY <1>0 DEF Kids
  <2>3. 0 \notin K
    BY <1>0 DEF Kids
  <2>4. CASE s = 0
    BY <2>1, <2>2, <2>3, <2>4 DEF IsNewest
  <2>5. CASE s # 0
    <3>1. s \in K /\ \A j \in K : j <= s
      BY <2>1, <2>5 DEF IsNewest
    <3>2. s \in 1..(k - 1) /\ st.nodes[s].parent = q
      BY <3>1 DEF Kids
    <3>3. K = Kids(st, q, s)
      BY <1>0, <3>1, <3>2 DEF Kids
    <3> QED
      BY <2>2, <2>5, <3>2, <3>3
  <2> QED
    BY <2>4, <2>5
<1>3. \E g : List(g)
  <2> DEFINE prev == [k \in 1..N |-> st.nodes[k].siblings]
             step == [k \in 1..N |-> [x \in SUBSET Nat |-> {k} \cup x]]
  <2>1. \A k \in 1..N : prev[k] \in 0..(k - 1)
    BY <1>0, <1>2
  <2>2. PICK g : Descends(N, prev, {}, step, g)
    <3> HIDE DEF prev, step, N
    <3> QED
      BY <1>0, <2>1, Descent
  <2>3. \A k \in 0..N : k \in {j \in 0..N : g[j] \in SUBSET Nat}
    <3> DEFINE T == {j \in 0..N : g[j] \in SUBSET Nat}
    <3>1. ASSUME NEW k \in 0..N, \A j \in 0..(k - 1) : j \in T
          PROVE  k \in T
      <4>1. g[k] = IF k = 0 THEN {} ELSE step[k][g[prev[k]]]
        BY <2>2 DEF Descends
      <4>2. CASE k = 0
        BY <4>1, <4>2
      <4>3. CASE k # 0
        <5>1. k \in 1..N /\ prev[k] \in T
          BY <2>1, <3>1, <4>3
        <5>2. g[k] = {k} \cup g[prev[k]]
          BY <4>1, <4>3, <5>1
        <5> QED
          BY <5>1, <5>2
      <4> QED
        BY <4>2, <4>3
    <3> HIDE DEF T
    <3>2. \A k \in 0..N : k \in T
      BY <1>0, <3>1, FromBelow
    <3> QED
      BY <3>2 DEF T
  <2>4. g = [k \in 0..N |-> IF k = 0 THEN {} ELSE step[k][g[prev[k]]]]
    BY <2>2 DEF Descends
  <2>5. \A k \in 1..N : step[k][g[prev[k]]] = {k} \cup g[st.nodes[k].siblings]
    <3> SUFFICES ASSUME NEW k \in 1..N PROVE step[k][g[prev[k]]] = {k} \cup g[st.nodes[k].siblings]
      OBVIOUS
    <3>1. prev[k] \in 0..N
      BY <1>0, <2>1
    <3>2. g[prev[k]] \in SUBSET Nat
      BY <2>3, <3>1
    <3> QED
      BY <3>2
  <2> HIDE DEF step, prev
  <2>6. \A k \in 0..N : k # 0 => k \in 1..N
    BY <1>0
  <2>7. List(g)
    BY <2>4, <2>5, <2>6
  <2> QED
    BY <2>7
<1>4. List(list)
  <2> HIDE DEF List
  <2> QED
    BY <1>3
<1> HIDE DEF list
<1>10. list[0] = {} /\ \A k \in 1..N : list[k] = {k} \cup list[st.nodes[k].siblings]
  <2> DEFINE e(k) == IF k = 0 THEN {} ELSE {k} \cup list[st.nodes[k].siblings]
  <2>1. list = [k \in 0..N |-> e(k)]
    BY <1>4
  <2> HIDE DEF e, List
  <2>2. \A k \in 0..N : list[k] = e(k)
    BY <2>1
  <2>3. 0 \in 0..N /\ \A k \in 1..N : k \in 0..N /\ k # 0
    BY <1>0
  <2>4. e(0) = {} /\ \A k \in 1..N : e(k) = {k} \cup list[st.nodes[k].siblings]
    BY <2>3 DEF e
  <2> QED
    BY <2>2, <2>3, <2>4
<1>5. \A k \in 0..N : k \in {j \in 0..N : j # 0 => list[j] = Kids(st, st.nodes[j].parent, j)}
  <2> DEFINE T == {j \in 0..N : j # 0 => list[j] = Kids(st, st.nodes[j].parent, j)}
  <2>1. ASSUME NEW k \in 0..N, \A j \in 0..(k - 1) : j \in T
        PROVE  k \in T
    <3> SUFFICES ASSUME k # 0 PROVE list[k] = Kids(st, st.nodes[k].parent, k)
      OBVIOUS
    <3> DEFINE s == st.nodes[k].siblings
    <3>1. k \in 1..N /\ list[k] = {k} \cup list[s]
      BY <1>0, <1>10
    <3>2. CASE s = 0
      <4>1. list[0] = {}
        BY <1>0, <1>10
      <4>2. Kids(st, st.nodes[k].parent, k) = {k}
        BY <1>2, <3>1, <3>2
      <4> QED
        BY <3>1, <3>2, <4>1, <4>2
    <3>3. CASE s # 0
      <4>1. /\ s \in 1..(k - 1) /\ st.nodes[s].parent = st.nodes[k].parent
            /\ Kids(st, st.nodes[k].parent, k) = {k} \cup Kids(st, st.nodes[k].parent, s)
        BY <1>2, <3>1, <3>3
      <4>2. s \in T
        BY <2>1, <4>1
      <4> QED
        BY <3>1, <3>3, <4>1, <4>2
    <3> QED
      BY <3>2, <3>3
  <2> HIDE DEF T
  <2>2. \A k \in 0..N : k \in T
    BY <1>0, <2>1, FromBelow
  <2> QED
    BY <2>2 DEF T
<1> DEFINE n == Location(st, p)
<1>6. IsNewest(n, Kids(st, p, N))
  BY DEF WellMade
<1>7. CASE Kids(st, p, N) = {}
  <2>1. n = 0
    BY <1>6, <1>7 DEF IsNewest
  <2>2. list[0] = {}
    BY <1>0, <1>10
  <2> QED
    BY <1>1, <1>7, <2>1, <2>2
<1>8. CASE Kids(st, p, N) # {}
  <2>1. n \in Kids(st, p, N) /\ \A k \in Kids(st, p, N) : k <= n
    BY <1>6, <1>8 DEF IsNewest
  <2>2. n \in 1..N /\ st.nodes[n].parent = p
    BY <2>1 DEF Kids
  <2>3. list[n] = Kids(st, p, n)
    BY <1>5, <2>2
  <2>4. Kids(st, p, n) = Kids(st, p, N)
    BY <1>0, <2>1, <2>2 DEF Kids
  <2> QED
    BY <1>1, <2>3, <2>4
<1> QED
  BY <1>7, <1>8

-----------------------------------------------------------------------------
(* The way up from a node.                                                 *)

LEMMA UpwardsIs ==
  ASSUME NEW st, NEW A, WellMade(st, A)
  PROVE  /\ Upwards(st, 0) = <<>>
         /\ \A k \in 1..Made(st) :
              Upwards(st, k) = <<st.nodes[k].address>> \o Upwards(st, st.nodes[k].parent)
         /\ \A k \in 0..Made(st) : Upwards(st, k) \in Seq(A)
<1> DEFINE N == Made(st)
           Up(g) == g = [k \in 0..N |->
                           IF k = 0 THEN <<>> ELSE <<st.nodes[k].address>> \o g[st.nodes[k].parent]]
           up == CHOOSE g : Up(g)
<1>0. /\ N \in Nat
      /\ \A k \in 1..N : st.nodes[k].parent \in 0..(k - 1) /\ st.nodes[k].address \in A
  BY NodesTyped DEF WellMade, Node
<1>1. \A k : Upwards(st, k) = up[k]
  BY DEF Upwards, Made
<1>2. \E g : Up(g)
  <2> DEFINE prev == [k \in 1..N |-> st.nodes[k].parent]
             step == [k \in 1..N |-> [x \in Seq(A) |-> <<st.nodes[k].address>> \o x]]
  <2>1. \A k \in 1..N : prev[k] \in 0..(k - 1)
    BY <1>0
  <2>2. PICK g : Descends(N, prev, <<>>, step, g)
    <3> HIDE DEF prev, step, N
    <3> QED
      BY <1>0, <2>1, Descent
  <2>3. \A k \in 0..N : g[k] \in Seq(A)
    <3> DEFINE T == {j \in 0..N : g[j] \in Seq(A)}
    <3>1. ASSUME NEW k \in 0..N, \A j \in 0..(k - 1) : j \in T
          PROVE  k \in T
      <4>1. g[k] = IF k = 0 THEN <<>> ELSE step[k][g[prev[k]]]
        BY <2>2 DEF Descends
      <4>2. CASE k = 0
        <5>1. <<>> \in Seq(A) /\ g[k] = <<>>
          BY <4>1, <4>2
        <5> QED
          BY <5>1
      <4>3. CASE k # 0
        <5>1. k \in 1..N /\ prev[k] \in T
          BY <2>1, <3>1, <4>3
        <5>2. g[k] = <<st.nodes[k].address>> \o g[prev[k]]
          BY <4>1, <4>3, <5>1
        <5>3. g[prev[k]] \in Seq(A) /\ <<st.nodes[k].address>> \in Seq(A)
          BY <1>0, <5>1
        <5> QED
          BY <5>2, <5>3, ConcatProperties
      <4> QED
        BY <4>2, <4>3
    <3> HIDE DEF T
    <3>2. \A k \in 0..N : k \in T
      BY <1>0, <3>1, FromBelow
    <3> QED
      BY <3>2 DEF T
  <2>4. g = [k \in 0..N |-> IF k = 0 THEN <<>> ELSE step[k][g[prev[k]]]]
    BY <2>2 DEF Descends
  <2>5. \A k \in 1..N : step[k][g[prev[k]]] = <<st.nodes[k].address>> \o g[st.nodes[k].parent]
    <3> SUFFICES ASSUME NEW k \in 1..N
                 PROVE step[k][g[prev[k]]] = <<st.nodes[k].address>> \o g[st.nodes[k].parent]
      OBVIOUS
    <3>1. prev[k] \in 0..N
      BY <1>0, <2>1
    <3>2. g[prev[k]] \in Seq(A)
      BY <2>3, <3>1
    <3> QED
      BY <3>2
  <2> HIDE DEF step, prev
  <2>6. \A k \in 0..N : k # 0 => k \in 1..N
    BY <1>0
  <2>7. Up(g)
    BY <2>4, <2>5, <2>6
  <2> QED
    BY <2>7
<1>3. Up(up)
  <2> HIDE DEF Up
  <2> QED
    BY <1>2
<1> HIDE DEF up
<1>4. up[0] = <<>> /\ \A k \in 1..N : up[k] = <<st.nodes[k].address>> \o up[st.nodes[k].parent]
  <2> DEFINE e(k) == IF k = 0 THEN <<>> ELSE <<st.nodes[k].address>> \o up[st.nodes[k].parent]
  <2>1. up = [k \in 0..N |-> e(k)]
    BY <1>3
  <2> HIDE DEF e, Up
  <2>2. \A k \in 0..N : up[k] = e(k)
    BY <2>1
  <2>3. 0 \in 0..N /\ \A k \in 1..N : k \in 0..N /\ k # 0
    BY <1>0
  <2>4. /\ e(0) = <<>>
        /\ \A k \in 1..N : e(k) = <<st.nodes[k].address>> \o up[st.nodes[k].parent]
    BY <2>3 DEF e
  <2> QED
    BY <2>2, <2>3, <2>4
<1>5. \A k \in 0..N : up[k] \in Seq(A)
  <2> DEFINE T == {j \in 0..N : up[j] \in Seq(A)}
  <2>1. ASSUME NEW k \in 0..N, \A j \in 0..(k - 1) : j \in T
        PROVE  k \in T
    <3>1. CASE k = 0
      <4>1. <<>> \in Seq(A) /\ up[k] = <<>>
        BY <1>4, <3>1
      <4> QED
        BY <4>1
    <3>2. CASE k # 0
      <4>1. k \in 1..N /\ st.nodes[k].parent \in T
        BY <1>0, <2>1, <3>2
      <4>2. up[k] = <<st.nodes[k].address>> \o up[st.nodes[k].parent]
        BY <1>4, <4>1
      <4>3. up[st.nodes[k].parent] \in Seq(A) /\ <<st.nodes[k].address>> \in Seq(A)
        BY <1>0, <4>1
      <4> QED
        BY <4>2, <4>3, ConcatProperties
    <3> QED
      BY <3>1, <3>2
  <2> HIDE DEF T
  <2>2. \A k \in 0..N : k \in T
    BY <1>0, <2>1, FromBelow
  <2> QED
    BY <2>2 DEF T
<1> QED
  BY <1>1, <1>4, <1>5

\* Nodes that are added change nothing for those that are there.
LEMMA UpwardsStays ==
  ASSUME NEW st, NEW st2, NEW A, WellMade(st, A), WellMade(st2, A), Grown(st, st2)
  PROVE  \A k \in 0..Made(st) : Upwards(st2, k) = Upwards(st, k)
<1> DEFINE N == Made(st)
           T == {k \in 0..N : Upwards(st2, k) = Upwards(st, k)}
<1>0. /\ N \in Nat /\ Made(st2) \in Nat /\ N <= Made(st2)
      /\ \A k \in 1..N : st.nodes[k].parent \in 0..(k - 1)
  BY NodesTyped DEF WellMade, Grown
<1>1. ASSUME NEW k \in 0..N, \A j \in 0..(k - 1) : j \in T
      PROVE  k \in T
  <2>1. CASE k = 0
    BY <2>1, UpwardsIs
  <2>2. CASE k # 0
    <3>1. k \in 1..N /\ k \in 1..Made(st2) /\ st.nodes[k].parent \in T
      BY <1>0, <1>1, <2>2
    <3>2. Upwards(st, k) = <<st.nodes[k].address>> \o Upwards(st, st.nodes[k].parent)
      BY <3>1, UpwardsIs
    <3>3. Upwards(st2, k) = <<st2.nodes[k].address>> \o Upwards(st2, st2.nodes[k].parent)
      BY <3>1, UpwardsIs
    <3>4. st2.nodes[k].address = st.nodes[k].address /\ st2.nodes[k].parent = st.nodes[k].parent
      BY <3>1 DEF Grown
    <3>5. Upwards(st2, st.nodes[k].parent) = Upwards(st, st.nodes[k].parent)
      BY <3>1
    <3> QED
      BY <3>2, <3>3, <3>4, <3>5
  <2> QED
    BY <2>1, <2>2
<1> HIDE DEF T
<1>2. \A k \in 0..N : k \in T
  BY <1>0, <1>1, FromBelow
<1> QED
  BY <1>2 DEF T

\* A node for an address that no child of p has.
LEMMA NodeAdded ==
  ASSUME NEW st, NEW A, WellMade(st, A), NEW p \in 0..Made(st), NEW a \in A,
         Matches(st, p, a) = {}, NEW st2, st2 = stack_node_new(st, p, a)
  PROVE  /\ WellMade(st2, A) /\ Grown(st, st2) /\ Made(st2) = Made(st) + 1
         /\ st2.nodes[Made(st2)].address = a /\ st2.nodes[Made(st2)].parent = p
<1> DEFINE N == Made(st)
           n == N + 1
           node == [address |-> a, parent |-> p, siblings |-> Location(st, p), children |-> 0]
           grown == Append(st.nodes, node)
<1>0. /\ N \in Nat /\ n \in Nat /\ N = Len(st.nodes)
      /\ st.nodes \in Seq(Node(A)) /\ st.root \in Nat /\ st = [nodes |-> st.nodes, root |-> st.root]
      /\ \A k \in 1..N : st.nodes[k] \in Node(A) /\ st.nodes[k].parent \in 0..(k - 1)
  BY NodesTyped DEF WellMade, Made
<1>1. Location(st, p) \in Nat /\ Location(st, p) <= N
  <2>1. IsNewest(Location(st, p), Kids(st, p, N))
    BY DEF WellMade
  <2>2. \A k \in Kids(st, p, N) : k \in Nat /\ k <= N
    BY <1>0 DEF Kids
  <2> QED
    BY <1>0, <2>1, <2>2 DEF IsNewest
<1>2. node \in Node(A)
  BY <1>0, <1>1 DEF Node
<1>3. /\ grown \in Seq(Node(A)) /\ Len(grown) = n /\ grown[n] = node
      /\ \A k \in 1..N : grown[k] = st.nodes[k]
  <2> HIDE DEF node
  <2> QED
    BY <1>0, <1>2, AppendProperties
<1>4. /\ st2 \in [nodes : Seq(Node(A)), root : Nat] /\ Made(st2) = n
      /\ st2.nodes[n].address = a /\ st2.nodes[n].parent = p
      /\ st2.nodes[n].siblings = Location(st, p) /\ st2.nodes[n].children = 0
      /\ \A k \in 1..N : /\ st2.nodes[k].address = st.nodes[k].address
                         /\ st2.nodes[k].parent = st.nodes[k].parent
                         /\ st2.nodes[k].siblings = st.nodes[k].siblings
                         /\ st2.nodes[k].children = IF k = p THEN n ELSE st.nodes[k].children
      /\ st2.root = IF p = 0 THEN n ELSE st.root
  <2>1. CASE p = 0
    <3>1. st2 = [nodes |-> grown, root |-> n]
      BY <2>1, <1>0 DEF stack_node_new
    <3>2. node.address = a /\ node.parent = p /\ node.siblings = Location(st, p) /\ node.children = 0
      OBVIOUS
    <3>3. \A k \in 1..N : k # p
      BY <2>1
    <3> HIDE DEF grown, node
    <3> QED
      BY <2>1, <3>1, <3>2, <3>3, <1>0, <1>3 DEF Made
  <2>2. CASE p # 0
    <3>1. p \in 1..N
      BY <1>0, <2>2
    <3> DEFINE moved == [st.nodes[p] EXCEPT !.children = n]
               more == [grown EXCEPT ![p].children = n]
    <3>2. st2 = [st EXCEPT !.nodes = more]
      <4>1. st2 = IF p = 0 THEN [nodes |-> grown, root |-> n] ELSE [st EXCEPT !.nodes = more]
        BY DEF stack_node_new, Made
      <4> HIDE DEF more, grown
      <4> QED
        BY <4>1, <2>2
    <3>8. more = [grown EXCEPT ![p] = moved]
      <4>1. grown[p] = st.nodes[p]
        BY <3>1, <1>3
      <4> HIDE DEF grown
      <4> QED
        BY <4>1
    <3>3. moved \in Node(A)
      BY <3>1, <1>0 DEF Node
    <3>4. /\ moved.address = st.nodes[p].address /\ moved.parent = st.nodes[p].parent
          /\ moved.siblings = st.nodes[p].siblings /\ moved.children = n
      BY <3>1, <1>0 DEF Node
    <3>5. node.address = a /\ node.parent = p /\ node.siblings = Location(st, p) /\ node.children = 0
      OBVIOUS
    <3>6. st2 = [nodes |-> more, root |-> st.root]
      <4> HIDE DEF more
      <4> QED
        BY <1>0, <3>2
    <3> HIDE DEF grown, node, moved
    <3>7. /\ more \in Seq(Node(A)) /\ Len(more) = n /\ more[n] = node
          /\ \A k \in 1..N : more[k] = IF k = p THEN moved ELSE st.nodes[k]
      <4> HIDE DEF more
      <4> QED
        BY <3>1, <3>3, <3>8, <1>0, <1>3
    <3> HIDE DEF more
    <3> QED
      BY <2>2, <3>1, <3>4, <3>5, <3>6, <3>7, <1>0 DEF Made
  <2> QED
    BY <2>1, <2>2
<1> HIDE DEF node, grown
<1>5. Grown(st, st2)
  BY <1>0, <1>4 DEF Grown
<1>6. \A q \in Nat : /\ \A m \in 0..N : Kids(st2, q, m) = Kids(st, q, m)
                     /\ Kids(st2, q, n) = Kids(st, q, N) \cup (IF q = p THEN {n} ELSE {})
  BY <1>0, <1>4 DEF Kids
<1>7. /\ Location(st2, p) = n
      /\ Location(st2, n) = 0
      /\ \A q \in 0..N : q # p => Location(st2, q) = Location(st, q)
  <2>1. n # 0 /\ n \notin 1..N /\ \A q \in 0..N : q # 0 => q \in 1..N
    BY <1>0
  <2>2. Location(st2, n) = 0
    BY <1>4, <2>1 DEF Location
  <2>3. Location(st2, p) = n
    BY <1>4, <2>1 DEF Location
  <2>4. ASSUME NEW q \in 0..N, q # p PROVE Location(st2, q) = Location(st, q)
    <3>1. CASE q = 0
      BY <1>4, <2>4, <3>1 DEF Location
    <3>2. CASE q # 0
      <4>1. q \in 1..N
        BY <2>1, <3>2
      <4>2. st2.nodes[q].children = st.nodes[q].children
        BY <1>4, <2>4, <4>1
      <4> QED
        BY <3>2, <4>2 DEF Location
    <3> QED
      BY <3>1, <3>2
  <2> QED
    BY <2>2, <2>3, <2>4
<1>8. \A q \in 0..n : IsNewest(Location(st2, q), Kids(st2, q, n))
  <2> SUFFICES ASSUME NEW q \in 0..n PROVE IsNewest(Location(st2, q), Kids(st2, q, n))
    OBVIOUS
  <2>0. q \in Nat /\ p \in Nat /\ p # n
    BY <1>0
  <2>1. CASE q = p
    <3>1. Kids(st2, q, n) = Kids(st, q, N) \cup {n}
      BY <1>6, <2>0, <2>1
    <3>2. \A k \in Kids(st, q, N) : k <= n
      BY <1>0 DEF Kids
    <3> QED
      BY <1>0, <1>7, <2>1, <3>1, <3>2 DEF IsNewest
  <2>2. CASE q = n
    <3>1. Kids(st, n, N) = {}
      BY <1>0 DEF Kids
    <3> QED
      BY <1>6, <1>7, <2>0, <2>2, <3>1 DEF IsNewest
  <2>3. CASE q # p /\ q # n
    <3>1. q \in 0..N
      BY <1>0, <2>3
    <3>2. Kids(st2, q, n) = Kids(st, q, N)
      BY <1>6, <2>0, <2>3
    <3>3. IsNewest(Location(st, q), Kids(st, q, N))
      BY <3>1 DEF WellMade
    <3> QED
      BY <1>7, <2>3, <3>1, <3>2, <3>3
  <2> QED
    BY <2>1, <2>2, <2>3
<1>9. \A k \in 1..n : /\ st2.nodes[k].parent \in 0..(k - 1)
                      /\ IsNewest(st2.nodes[k].siblings, Kids(st2, st2.nodes[k].parent, k - 1))
  <2> SUFFICES ASSUME NEW k \in 1..n
               PROVE  /\ st2.nodes[k].parent \in 0..(k - 1)
                      /\ IsNewest(st2.nodes[k].siblings, Kids(st2, st2.nodes[k].parent, k - 1))
    OBVIOUS
  <2>1. CASE k = n
    <3>1. k - 1 = N /\ N \in 0..N /\ p \in Nat
      BY <1>0, <2>1
    <3>2. IsNewest(Location(st, p), Kids(st, p, N))
      BY DEF WellMade
    <3>3. Kids(st2, p, N) = Kids(st, p, N)
      BY <1>6, <3>1
    <3> QED
      BY <1>0, <1>4, <2>1, <3>1, <3>2, <3>3
  <2>2. CASE k # n
    <3>1. k \in 1..N /\ k - 1 \in 0..N
      BY <1>0, <2>2
    <3>2. /\ st.nodes[k].parent \in 0..(k - 1) /\ st.nodes[k].parent \in Nat
          /\ IsNewest(st.nodes[k].siblings, Kids(st, st.nodes[k].parent, k - 1))
      BY <3>1 DEF WellMade
    <3>3. Kids(st2, st.nodes[k].parent, k - 1) = Kids(st, st.nodes[k].parent, k - 1)
      BY <1>6, <3>1, <3>2
    <3>4. st2.nodes[k].parent = st.nodes[k].parent /\ st2.nodes[k].siblings = st.nodes[k].siblings
      BY <1>4, <3>1
    <3> QED
      BY <3>2, <3>3, <3>4
  <2> QED
    BY <2>1, <2>2
<1>10. Unique(st2)
  <2>1. \A k \in 1..N : ~ (st.nodes[k].parent = p /\ st.nodes[k].address = a)
    <3>1. Siblings(st, Location(st, p)) = Kids(st, p, N)
      BY SiblingsAre
    <3> QED
      BY <3>1 DEF Matches, Kids
  <2>2. \A k \in 1..n : k \in 1..N \/ k = n
    BY <1>0
  <2>3. Unique(st)
    BY DEF WellMade
  <2> QED
    BY <1>4, <2>1, <2>2, <2>3 DEF Unique
<1> QED
  BY <1>0, <1>4, <1>5, <1>8, <1>9, <1>10 DEF WellMade

\* What the loop carries from round to round.
Carried(acc) == acc = [stash |-> acc.stash, node |-> acc.node]

\* A round of the loop of stack_stash_add_trace puts a in front of the way up.
LEMMA BelowStep ==
  ASSUME NEW A, NEW acc, Carried(acc),
         WellMade(acc.stash, A), acc.node \in 0..Made(acc.stash), NEW a \in A,
         NEW acc2, acc2 = Below(acc, a)
  PROVE  /\ Carried(acc2)
         /\ WellMade(acc2.stash, A) /\ acc2.node \in 0..Made(acc2.stash)
         /\ Grown(acc.stash, acc2.stash)
         /\ Upwards(acc2.stash, acc2.node) = <<a>> \o Upwards(acc.stash, acc.node)
<1> DEFINE st == acc.stash
           p == acc.node
           there == Matches(st, p, a)
<1>0. Made(st) \in Nat
  BY NodesTyped
<1>1. CASE there # {}
  <2> DEFINE n == CHOOSE n \in there : TRUE
  <2>1. acc2 = [acc EXCEPT !.node = n]
    BY <1>1 DEF Below
  <2>2. n \in there
    BY <1>1
  <2> HIDE DEF n
  <2>3. Carried(acc2) /\ acc2.stash = st /\ acc2.node = n
    <3>1. acc2 = [stash |-> st, node |-> n]
      BY <2>1 DEF Carried
    <3> QED
      BY <3>1 DEF Carried
  <2>4. Siblings(st, Location(st, p)) = Kids(st, p, Made(st))
    BY SiblingsAre
  <2>5. n \in 1..Made(st) /\ st.nodes[n].parent = p /\ st.nodes[n].address = a
    BY <2>2, <2>4 DEF Matches, Kids
  <2>6. Upwards(st, n) = <<a>> \o Upwards(st, p)
    BY <2>5, UpwardsIs
  <2>7. Grown(st, st)
    BY <1>0 DEF Grown
  <2> QED
    BY <1>0, <2>3, <2>5, <2>6, <2>7
<1>2. CASE there = {}
  <2> DEFINE st2 == stack_node_new(st, p, a)
  <2>1. acc2 = [stash |-> st2, node |-> Len(st.nodes) + 1]
    BY <1>2 DEF Below
  <2>2. /\ WellMade(st2, A) /\ Grown(st, st2) /\ Made(st2) = Made(st) + 1
        /\ st2.nodes[Made(st2)].address = a /\ st2.nodes[Made(st2)].parent = p
    BY <1>2, NodeAdded
  <2> HIDE DEF st2
  <2>3. Carried(acc2) /\ acc2.stash = st2 /\ acc2.node = Made(st2)
    BY <2>1, <2>2 DEF Made, Carried
  <2>4. Made(st2) \in 1..Made(st2)
    BY <1>0, <2>2
  <2>5. Upwards(st2, Made(st2)) = <<a>> \o Upwards(st2, p)
    BY <2>2, <2>4, UpwardsIs
  <2>6. Upwards(st2, p) = Upwards(st, p)
    BY <2>2, UpwardsStays
  <2> QED
    BY <2>1, <2>2, <2>3, <2>4, <2>5, <2>6
<1> QED
  BY <1>1, <1>2

-----------------------------------------------------------------------------
(* A whole stack.  FoldLeft takes the last element of a set of indices off  *)
(* and folds the others first.                                             *)

\* Some numbers up to n have a greatest one, and it is their Max.
LEMMA MaxIs ==
  ASSUME NEW n \in Nat, NEW s \in SUBSET (1..n), s # {}
  PROVE  Max(s) \in s /\ \A k \in s : k <= Max(s)
<1> DEFINE T == {n - k : k \in s}
<1>1. T \in SUBSET Nat /\ T # {}
  <2>1. \A k \in s : k \in 1..n
    OBVIOUS
  <2>2. \A k \in s : n - k \in Nat
    BY <2>1
  <2> QED
    BY <2>2
<1>2. PICK m \in T : \A k \in T : m <= k
  <2> HIDE DEF T
  <2> QED
    BY <1>1, Least
<1>3. PICK x \in s : m = n - x
  OBVIOUS
<1>4. \A k \in s : x >= k
  <2> SUFFICES ASSUME NEW k \in s PROVE x >= k
    OBVIOUS
  <2>1. n - x <= n - k
    BY <1>2, <1>3
  <2>2. k \in 1..n /\ x \in 1..n
    OBVIOUS
  <2> QED
    BY <2>1, <2>2
<1>5. /\ Max(s) \in s /\ \A k \in s : Max(s) >= k
  BY <1>4 DEF Max
<1>6. \A k \in s : k \in 1..n
  OBVIOUS
<1> QED
  BY <1>5, <1>6

LEMMA MaxFalls ==
  ASSUME NEW n \in Nat, NEW s \in SUBSET (1..(n + 1)), s # {}
  PROVE  s \ {Max(s)} \in SUBSET (1..n)
<1>1. Max(s) \in s /\ \A k \in s : k <= Max(s)
  <2>1. n + 1 \in Nat
    OBVIOUS
  <2> QED
    BY <2>1, MaxIs
<1>2. \A k \in s : k \in 1..(n + 1)
  OBVIOUS
<1>3. ASSUME NEW k \in s, k # Max(s) PROVE k \in 1..n
  <2>1. k \in 1..(n + 1) /\ Max(s) \in 1..(n + 1) /\ k <= Max(s)
    BY <1>1, <1>2
  <2> QED
    BY <1>3, <2>1
<1> QED
  BY <1>3

LEMMA MaxOfRange ==
  ASSUME NEW n \in Nat \ {0}
  PROVE  Max(1..n) = n /\ (1..n) \ {n} = 1..(n - 1) /\ 1..n # {}
<1>1. n \in 1..n /\ \A k \in 1..n : k <= n
  OBVIOUS
<1>2. Max(1..n) \in 1..n /\ \A k \in 1..n : k <= Max(1..n)
  BY <1>1, MaxIs
<1> QED
  BY <1>1, <1>2

\* g takes every set of indices up to n to what the rounds over them come to.
Rounds(base, seq, n, g) ==
  g = [s \in SUBSET (1..n) |->
         IF s = {} THEN base ELSE Below(g[s \ {Max(s)}], seq[Max(s)])]

LEMMA RoundsExist ==
  ASSUME NEW base, NEW seq, NEW n \in Nat
  PROVE  \E g : Rounds(base, seq, n, g)
<1> DEFINE T == {m \in Nat : \E g : Rounds(base, seq, m, g)}
<1>1. 0 \in T
  <2> DEFINE g == [s \in {{}} |-> base]
  <2>1. SUBSET (1..0) = {{}}
    OBVIOUS
  <2>2. g = [s \in {{}} |-> IF s = {} THEN base ELSE Below(g[s \ {Max(s)}], seq[Max(s)])]
    OBVIOUS
  <2> HIDE DEF g
  <2>3. Rounds(base, seq, 0, g)
    BY <2>1, <2>2 DEF Rounds
  <2> QED
    BY <2>3
<1>2. ASSUME NEW m \in T PROVE m + 1 \in T
  <2>1. PICK g : Rounds(base, seq, m, g)
    OBVIOUS
  <2> DEFINE h == [s \in SUBSET (1..(m + 1)) |->
                     IF s = {} THEN base ELSE Below(g[s \ {Max(s)}], seq[Max(s)])]
  <2>2. \A s \in SUBSET (1..m) : h[s] = g[s]
    <3> DEFINE e(s) == IF s = {} THEN base ELSE Below(g[s \ {Max(s)}], seq[Max(s)])
    <3>1. g = [s \in SUBSET (1..m) |-> e(s)]
      BY <2>1 DEF Rounds
    <3>2. h = [s \in SUBSET (1..(m + 1)) |-> e(s)]
      OBVIOUS
    <3>3. \A s \in SUBSET (1..m) : s \in SUBSET (1..(m + 1))
      OBVIOUS
    <3> HIDE DEF e, h
    <3>4. \A s \in SUBSET (1..m) : g[s] = e(s)
      BY <3>1
    <3>5. \A s \in SUBSET (1..(m + 1)) : h[s] = e(s)
      BY <3>2
    <3> QED
      BY <3>3, <3>4, <3>5
  <2>3. \A s \in SUBSET (1..(m + 1)) : s # {} => h[s \ {Max(s)}] = g[s \ {Max(s)}]
    <3> HIDE DEF h
    <3> QED
      BY <2>2, MaxFalls
  <2>4. h = [s \in SUBSET (1..(m + 1)) |->
               IF s = {} THEN base ELSE Below(h[s \ {Max(s)}], seq[Max(s)])]
    BY <2>3
  <2> HIDE DEF h
  <2>5. Rounds(base, seq, m + 1, h)
    BY <2>4 DEF Rounds
  <2> QED
    BY <2>5
<1>3. T \in SUBSET Nat
  OBVIOUS
<1>4. \A m \in Nat : m \in T
  <2> HIDE DEF T
  <2> QED
    BY <1>1, <1>2, <1>3, Induct
<1> QED
  BY <1>4

\* The loop of stack_stash_add_trace, a round after the other.
LEMMA AddTraceIs ==
  ASSUME NEW st, NEW t, NEW A, t \in Seq(A)
  PROVE  \E c : /\ c[1..0] = [stash |-> st, node |-> 0]
                /\ \A k \in 1..Len(t) : c[1..k] = Below(c[1..(k - 1)], Reverse(t)[k])
                /\ stack_stash_add_trace(st, t) = c[1..Len(t)]
<1> DEFINE L == Len(t)
           seq == Reverse(t)
           base == [stash |-> st, node |-> 0]
           Fold(g) == g = [s \in SUBSET (DOMAIN seq) |->
                             IF s = {} THEN base
                             ELSE LET x == Max(s) IN Below(g[s \ {x}], seq[x])]
           c == CHOOSE g : Fold(g)
<1>1. L \in Nat /\ DOMAIN seq = 1..L
  BY DEF Reverse
<1>2. stack_stash_add_trace(st, t) = c[DOMAIN seq]
  BY DEF stack_stash_add_trace, FoldLeft, MapThenFoldSet
<1>3. \A g : Fold(g) <=> Rounds(base, seq, L, g)
  BY <1>1 DEF Rounds
<1>4. \E g : Rounds(base, seq, L, g)
  <2> HIDE DEF seq, base
  <2> QED
    BY <1>1, RoundsExist
<1> HIDE DEF Fold
<1>5. Rounds(base, seq, L, c)
  BY <1>3, <1>4
<1> HIDE DEF c, seq, base
<1>6. \A s \in SUBSET (1..L) : c[s] = IF s = {} THEN base ELSE Below(c[s \ {Max(s)}], seq[Max(s)])
  <2> DEFINE e(s) == IF s = {} THEN base ELSE Below(c[s \ {Max(s)}], seq[Max(s)])
  <2>1. c = [s \in SUBSET (1..L) |-> e(s)]
    BY <1>5 DEF Rounds
  <2> HIDE DEF e
  <2>2. \A s \in SUBSET (1..L) : c[s] = e(s)
    BY <2>1
  <2> QED
    BY <2>2 DEF e
<1>7. c[1..0] = base
  <2>1. 1..0 = {} /\ 1..0 \in SUBSET (1..L)
    OBVIOUS
  <2> QED
    BY <1>6, <2>1
<1>8. ASSUME NEW k \in 1..L PROVE c[1..k] = Below(c[1..(k - 1)], seq[k])
  <2>1. k \in Nat \ {0} /\ 1..k \in SUBSET (1..L)
    BY <1>1
  <2>2. Max(1..k) = k /\ (1..k) \ {k} = 1..(k - 1) /\ 1..k # {}
    BY <2>1, MaxOfRange
  <2> QED
    BY <1>6, <2>1, <2>2
<1> QED
  BY <1>1, <1>2, <1>7, <1>8 DEF base, seq

LEMMA GrownTwice ==
  ASSUME NEW st, NEW st2, NEW st3, Made(st) \in Nat, Made(st2) \in Nat, Made(st3) \in Nat,
         Grown(st, st2), Grown(st2, st3)
  PROVE  Grown(st, st3)
<1>1. \A k \in 1..Made(st) : k \in 1..Made(st2)
  BY DEF Grown
<1> QED
  BY <1>1 DEF Grown

\* After k rounds the node's way up is the last k addresses of t.
Climbed(st, A, t, k, acc) ==
  /\ Carried(acc)
  /\ WellMade(acc.stash, A) /\ acc.node \in 0..Made(acc.stash)
  /\ Grown(st, acc.stash)
  /\ Upwards(acc.stash, acc.node) = SubSeq(t, Len(t) - k + 1, Len(t))

\* A stack that is added can be read off its node, and the stash stays well made.
LEMMA TraceAdded ==
  ASSUME NEW st, NEW A, WellMade(st, A), NEW t \in Seq(A),
         NEW added, added = stack_stash_add_trace(st, t)
  PROVE  /\ WellMade(added.stash, A) /\ added.node \in 0..Made(added.stash)
         /\ Grown(st, added.stash)
         /\ Upwards(added.stash, added.node) = t
<1> DEFINE L == Len(t)
<1>0. L \in Nat /\ Made(st) \in Nat /\ \A i \in 1..L : t[i] \in A
  BY NodesTyped
<1>1. PICK c : /\ c[1..0] = [stash |-> st, node |-> 0]
               /\ \A k \in 1..L : c[1..k] = Below(c[1..(k - 1)], Reverse(t)[k])
               /\ stack_stash_add_trace(st, t) = c[1..L]
  BY AddTraceIs
<1> DEFINE T == {k \in Nat : k <= L => Climbed(st, A, t, k, c[1..k])}
<1>2. 0 \in T
  <2>1. SubSeq(t, L - 0 + 1, L) = <<>>
    BY <1>0, SubSeqEmpty
  <2>2. Grown(st, st)
    BY <1>0 DEF Grown
  <2>3. Upwards(st, 0) = <<>>
    BY UpwardsIs
  <2>4. Climbed(st, A, t, 0, [stash |-> st, node |-> 0])
    <3> DEFINE acc == [stash |-> st, node |-> 0]
    <3>1. acc.stash = st /\ acc.node = 0 /\ Carried(acc)
      BY DEF Carried
    <3> HIDE DEF acc
    <3>2. Carried(acc) /\ acc.node \in 0..Made(acc.stash)
      BY <1>0, <3>1 DEF Carried
    <3>3. /\ WellMade(acc.stash, A) /\ Grown(st, acc.stash)
          /\ Upwards(acc.stash, acc.node) = SubSeq(t, Len(t) - 0 + 1, Len(t))
      BY <2>1, <2>2, <2>3, <3>1, Zenon
    <3>4. Climbed(st, A, t, 0, acc)
      BY <3>2, <3>3 DEF Climbed
    <3> QED
      BY <3>4 DEF acc
  <2> QED
    BY <1>1, <2>4
<1>3. ASSUME NEW k \in T PROVE k + 1 \in T
  <2> SUFFICES ASSUME k + 1 <= L PROVE Climbed(st, A, t, k + 1, c[1..(k + 1)])
    OBVIOUS
  <2> DEFINE acc == c[1..k]
             acc2 == c[1..(k + 1)]
             a == t[L - k]
  <2>1. k \in Nat /\ Climbed(st, A, t, k, acc)
    BY <1>0
  <2>2. Reverse(t)[k + 1] = a /\ a \in A
    BY <1>0, <2>1 DEF Reverse
  <2>3. acc2 = Below(acc, a)
    <3>1. k + 1 \in 1..L /\ (k + 1) - 1 = k
      BY <1>0, <2>1
    <3> QED
      BY <1>1, <2>2, <3>1
  <2> HIDE DEF T, acc, acc2, a
  <2>4. /\ Carried(acc2)
        /\ WellMade(acc2.stash, A) /\ acc2.node \in 0..Made(acc2.stash)
        /\ Grown(acc.stash, acc2.stash)
        /\ Upwards(acc2.stash, acc2.node) = <<a>> \o Upwards(acc.stash, acc.node)
    BY <2>1, <2>2, <2>3, BelowStep DEF Climbed
  <2>5. Grown(st, acc2.stash)
    BY <1>0, <2>1, <2>4, NodesTyped, GrownTwice DEF Climbed
  <2>6. SubSeq(t, L - (k + 1) + 1, L) = <<a>> \o SubSeq(t, L - k + 1, L)
    <3>1. L - k \in 1..L /\ L \in (L - k)..L /\ L - (k + 1) + 1 = L - k
      BY <1>0, <2>1
    <3> QED
      BY <3>1, SubSeqRecursiveFirst DEF a
  <2> QED
    BY <2>1, <2>4, <2>5, <2>6 DEF acc2, Climbed
<1>4. \A k \in Nat : k \in T
  <2>1. T \in SUBSET Nat
    OBVIOUS
  <2> HIDE DEF T
  <2> QED
    BY <1>2, <1>3, <2>1, Induct
<1>5. Climbed(st, A, t, L, c[1..L])
  BY <1>0, <1>4
<1>6. SubSeq(t, L - L + 1, L) = t
  <2>1. L - L + 1 = 1
    BY <1>0
  <2> QED
    BY <2>1, SubSeqFull
<1> QED
  BY <1>1, <1>5, <1>6 DEF Climbed

-----------------------------------------------------------------------------
(* Symbols: those of a list of maps are pointers that its reading has made. *)

Names    == UNION {{FunctionIn[o][a] : a \in DOMAIN FunctionIn[o]} : o \in Objects}
Pointers == [object : Objects, name : Names, reading : Nat]
Symbols  == {UnknownMap} \cup Pointers

\* A list that is either L0 or one that was read since.
Cache(L0, c) ==
  /\ c.map_list \in SUBSET Objects /\ c.readings \in Nat
  /\ c.readings = 0 => c.map_list = L0

\* The symbols that n readings can have made, and those of L0 if there are any.
Strings(L0, n) ==
  {UnknownMap} \cup {y \in Pointers : y.reading \in 0..n /\ (y.reading = 0 => L0 # {})}

LEMMA StringsAre ==
  ASSUME NEW L0, NEW m \in Nat, NEW n \in Nat, m <= n
  PROVE  /\ Strings(L0, m) \subseteq Strings(L0, n) /\ Strings(L0, n) \subseteq Symbols
         /\ Seq(Strings(L0, m)) \subseteq Seq(Strings(L0, n))
         /\ Seq(Strings(L0, n)) \subseteq Seq(Symbols)
<1>1. Strings(L0, m) \subseteq Strings(L0, n)
  <2>1. \A i \in 0..m : i \in 0..n
    OBVIOUS
  <2> QED
    BY <2>1 DEF Strings
<1>2. Strings(L0, n) \subseteq Symbols
  BY DEF Strings, Symbols
<1> QED
  BY <1>1, <1>2

LEMMA SymbolMade ==
  ASSUME NEW L0, NEW c, Cache(L0, c), NEW a
  PROVE  SymbolIn(c, a) \in Strings(L0, c.readings)
<1>1. CASE Holders(c, a) = {}
  BY <1>1 DEF SymbolIn, Strings
<1>2. CASE Holders(c, a) # {}
  <2>1. PICK o \in Holders(c, a) : SymbolIn(c, a)
             = [object |-> o, name |-> FunctionIn[o][a], reading |-> c.readings]
    BY <1>2 DEF SymbolIn
  <2>2. o \in c.map_list /\ o \in Objects /\ a \in DOMAIN FunctionIn[o]
    BY DEF Holders, Cache
  <2>3. FunctionIn[o][a] \in Names
    BY <2>2 DEF Names
  <2>4. c.readings \in Nat /\ (c.readings = 0 => L0 # {})
    BY <2>2 DEF Cache
  <2>5. PICK r \in Nat : r = c.readings
    BY <2>4
  <2>6. PICK n \in Names : n = FunctionIn[o][a]
    BY <2>3
  <2>7. /\ [object |-> o, name |-> n, reading |-> r] \in Pointers
        /\ [object |-> o, name |-> n, reading |-> r].reading = r /\ r \in 0..r
    BY <2>2 DEF Pointers
  <2> QED
    BY <2>1, <2>4, <2>5, <2>6, <2>7 DEF Strings
<1> QED
  BY <1>1, <1>2

\* What locate_map leaves behind, when every reading finds files.
LEMMA MapsLocated ==
  ASSUME NEW L0, NEW c, Cache(L0, c), NEW a, NEW now \in Readings,
         Mappings \subseteq SUBSET Objects
  PROVE  /\ Cache(L0, locate_map(c, a, now))
         /\ c.readings <= locate_map(c, a, now).readings
<1> DEFINE read == process_read_maps(c, now)
<1>1. c.map_list \in SUBSET Objects /\ c.readings \in Nat
  BY DEF Cache
<1>2. /\ read.map_list \in SUBSET Objects /\ read.readings = c.readings + 1
  <2>1. /\ read.map_list = (IF c.readings < Len(now) THEN now[c.readings + 1] ELSE {})
        /\ read.readings = c.readings + 1
    BY DEF process_read_maps
  <2>2. PICK n \in 0..MaxReads : now \in [1..n -> Mappings]
    BY DEF Readings
  <2>3. CASE c.readings < Len(now)
    <3>1. n \in Nat
      BY <2>2
    <3>2. Len(now) = n
      BY <2>2, <3>1, LenProperties
    <3>3. c.readings + 1 \in 1..n
      BY <1>1, <2>3, <3>1, <3>2
    <3>4. now[c.readings + 1] \in Mappings
      BY <2>2, <3>3
    <3> QED
      BY <2>1, <2>3, <3>4
  <2>4. CASE ~ (c.readings < Len(now))
    BY <2>1, <2>4
  <2> QED
    BY <2>1, <2>3, <2>4
<1> HIDE DEF read
<1>3. locate_map(c, a, now) = c
        \/ locate_map(c, a, now) = read
        \/ locate_map(c, a, now) = [map_list |-> read.map_list,
                                    bad_pages |-> read.bad_pages \cup {PageOf[a]},
                                    readings |-> read.readings]
  BY DEF locate_map, read
<1>4. \/ locate_map(c, a, now) = c
      \/ /\ locate_map(c, a, now).map_list = read.map_list
         /\ locate_map(c, a, now).readings = read.readings
  BY <1>3
<1> QED
  BY <1>1, <1>2, <1>4 DEF Cache

\* The rounds of a walk are defined.
Walks(c, as, skip, now, n, g) ==
  g = [i \in 0..n |-> IF i = 0 THEN NoVisit(c) ELSE Visit(g[i - 1], as[i], skip, now)]

LEMMA WalksExist ==
  ASSUME NEW c, NEW as, NEW skip, NEW now, NEW n \in Nat
  PROVE  \E g : Walks(c, as, skip, now, n, g)
<1> DEFINE next(w, i) == Visit(w, as[i], skip, now)
           base == NoVisit(c)
           Walkable(m) == \E g : Walks(c, as, skip, now, m, g)
           T == {m \in Nat : Walkable(m)}
<1> HIDE DEF next, base
<1>1. 0 \in T
  <2> DEFINE g == [i \in 0..0 |-> base]
  <2>1. g = [i \in 0..0 |-> IF i = 0 THEN base ELSE next(g[i - 1], i)]
    OBVIOUS
  <2> HIDE DEF g
  <2>2. Walks(c, as, skip, now, 0, g)
    BY <2>1 DEF Walks, next, base
  <2> QED
    BY <2>2
<1>2. ASSUME NEW m \in T PROVE m + 1 \in T
  <2>1. PICK g : Walks(c, as, skip, now, m, g)
    OBVIOUS
  <2>2. g = [i \in 0..m |-> IF i = 0 THEN base ELSE next(g[i - 1], i)]
    BY <2>1 DEF Walks, next, base
  <2> DEFINE h == [i \in 0..(m + 1) |-> IF i = 0 THEN base ELSE next(g[i - 1], i)]
  <2>3. \A i \in 0..m : h[i] = g[i]
    <3>1. \A i \in 0..m : i \in 0..(m + 1)
      OBVIOUS
    <3>2. \A i \in 0..m : g[i] = IF i = 0 THEN base ELSE next(g[i - 1], i)
      BY <2>2
    <3> QED
      BY <3>1, <3>2
  <2>4. \A i \in 0..(m + 1) : i # 0 => h[i - 1] = g[i - 1]
    <3>1. \A i \in 0..(m + 1) : i # 0 => i - 1 \in 0..m
      OBVIOUS
    <3> HIDE DEF h
    <3> QED
      BY <2>3, <3>1
  <2>5. h = [i \in 0..(m + 1) |-> IF i = 0 THEN base ELSE next(h[i - 1], i)]
    BY <2>4
  <2> HIDE DEF h
  <2>6. Walks(c, as, skip, now, m + 1, h)
    BY <2>5 DEF Walks, next, base
  <2>7. Walkable(m + 1)
    <3> HIDE DEF h
    <3> QED
      BY <2>6
  <2>8. m \in Nat
    OBVIOUS
  <2> HIDE DEF Walkable
  <2> QED
    BY <2>7, <2>8
<1>3. T \in SUBSET Nat
  OBVIOUS
<1>4. \A m \in Nat : m \in T
  <2> HIDE DEF T
  <2> QED
    BY <1>1, <1>2, <1>3, Induct
<1> QED
  BY <1>4

\* What a walk that began at c can have come to.
Walked(L0, c, A, w) ==
  /\ Cache(L0, w.process) /\ c.readings <= w.process.readings
  /\ w.symbols \in Seq(Strings(L0, w.process.readings)) /\ w.kept \in Seq(A)

LEMMA VisitIs ==
  ASSUME NEW L0, NEW c, c.readings \in Nat, NEW A, NEW w, Walked(L0, c, A, w), NEW a \in A,
         NEW skip, NEW now \in Readings, Mappings \subseteq SUBSET Objects
  PROVE  Walked(L0, c, A, Visit(w, a, skip, now))
<1> DEFINE after == locate_map(w.process, a, now)
           symbol == SymbolIn(after, a)
           v == Visit(w, a, skip, now)
<1>1. Cache(L0, after) /\ w.process.readings <= after.readings
  BY MapsLocated DEF Walked
<1>2. symbol \in Strings(L0, after.readings)
  BY <1>1, SymbolMade
<1>3. /\ v.process = after /\ v.symbols = Append(w.symbols, symbol)
      /\ v.kept = IF symbol.name \in skip THEN w.kept ELSE Append(w.kept, a)
  BY DEF Visit
<1> HIDE DEF after, symbol, v
<1>4. w.process.readings \in Nat /\ after.readings \in Nat
  BY <1>1 DEF Walked, Cache
<1>5. w.symbols \in Seq(Strings(L0, after.readings))
  <2>1. Seq(Strings(L0, w.process.readings)) \subseteq Seq(Strings(L0, after.readings))
    BY <1>1, <1>4, StringsAre
  <2> QED
    BY <2>1 DEF Walked
<1>6. Append(w.symbols, symbol) \in Seq(Strings(L0, after.readings))
  BY <1>2, <1>5, AppendProperties
<1>7. v.kept \in Seq(A)
  <2>1. w.kept \in Seq(A)
    BY DEF Walked
  <2>2. Append(w.kept, a) \in Seq(A)
    BY <2>1, AppendProperties
  <2> QED
    BY <1>3, <2>1, <2>2
<1>8. c.readings <= after.readings
  BY <1>1, <1>4 DEF Walked
<1> QED
  BY <1>1, <1>3, <1>6, <1>7, <1>8 DEF Walked, v

LEMMA WalkIs ==
  ASSUME NEW L0, NEW c, Cache(L0, c), NEW A, NEW as \in Seq(A),
         NEW skip, NEW now \in Readings, Mappings \subseteq SUBSET Objects
  PROVE  Walked(L0, c, A, Walk(c, as, skip, now))
<1> DEFINE N == Len(as)
           g == CHOOSE g : Walks(c, as, skip, now, N, g)
<1>1. N \in Nat /\ \A i \in 1..N : as[i] \in A
  BY LenProperties, ElementOfSeq
<1>2. Walk(c, as, skip, now) = g[N]
  BY DEF Walk, Walks
<1>3. Walks(c, as, skip, now, N, g)
  <2> HIDE DEF N
  <2> QED
    BY <1>1, WalksExist
<1> HIDE DEF g, N
<1>4. \A i \in 0..N : g[i] = IF i = 0 THEN NoVisit(c) ELSE Visit(g[i - 1], as[i], skip, now)
  <2> DEFINE e(i) == IF i = 0 THEN NoVisit(c) ELSE Visit(g[i - 1], as[i], skip, now)
  <2>1. g = [i \in 0..N |-> e(i)]
    BY <1>3 DEF Walks
  <2> HIDE DEF e
  <2>2. \A i \in 0..N : g[i] = e(i)
    BY <2>1
  <2> QED
    BY <2>2 DEF e
<1> DEFINE T == {k \in Nat : k <= N => Walked(L0, c, A, g[k])}
<1>5. 0 \in T
  <2>1. g[0] = NoVisit(c)
    <3>1. 0 \in 0..N
      BY <1>1
    <3> QED
      BY <1>4, <3>1
  <2>2. Walked(L0, c, A, NoVisit(c))
    <3>1. /\ NoVisit(c).process = c /\ NoVisit(c).symbols = <<>> /\ NoVisit(c).kept = <<>>
      BY DEF NoVisit
    <3>2. c.readings \in Nat
      BY DEF Cache
    <3>3. <<>> \in Seq(Strings(L0, c.readings)) /\ <<>> \in Seq(A)
      OBVIOUS
    <3> QED
      BY <3>1, <3>2, <3>3 DEF Walked
  <2> QED
    BY <2>1, <2>2
<1>6. ASSUME NEW k \in T PROVE k + 1 \in T
  <2> SUFFICES ASSUME k + 1 <= N PROVE Walked(L0, c, A, g[k + 1])
    OBVIOUS
  <2>1. k + 1 \in 1..N /\ k + 1 \in 0..N /\ k <= N /\ (k + 1) - 1 = k /\ k + 1 # 0
    BY <1>1
  <2>2. Walked(L0, c, A, g[k]) /\ as[k + 1] \in A /\ c.readings \in Nat
    BY <1>1, <2>1 DEF Cache
  <2>3. g[k + 1] = Visit(g[k], as[k + 1], skip, now)
    BY <1>4, <2>1
  <2> HIDE DEF T
  <2> QED
    BY <2>2, <2>3, VisitIs
<1>7. T \in SUBSET Nat
  OBVIOUS
<1>8. \A k \in Nat : k \in T
  <2> HIDE DEF T
  <2> QED
    BY <1>5, <1>6, <1>7, Induct
<1> QED
  BY <1>1, <1>2, <1>8

-----------------------------------------------------------------------------
(* The blocks of the profile.                                              *)

\* Every block has a node of the stash, from which its stack can be read.
StashInv ==
  /\ WellMade(stash, DOMAIN PageOf) /\ process.map_list \in SUBSET Objects
  /\ blocks \in Seq([stack : Nat, size : Sizes])
  /\ traces \in Seq(Traces) /\ Len(traces) = Len(blocks)
  /\ \A b \in 1..Len(blocks) : blocks[b].stack \in 0..Made(stash)
  /\ TracesKept

LEMMA ReverseIs ==
  ASSUME NEW A, NEW s \in Seq(A)
  PROVE  Reverse(s) \in Seq(A)
<1>1. \A i \in 1..Len(s) : (Len(s) - i) + 1 \in 1..Len(s)
  OBVIOUS
<1>2. \A i \in 1..Len(s) : s[(Len(s) - i) + 1] \in A
  BY <1>1
<1> QED
  BY <1>2 DEF Reverse

\* What the loop over the blocks comes to after k of them.
Stacked(k, acc) ==
  /\ Cache(process.map_list, acc.process)
  /\ acc.stacks \in Seq([stack : Seq(Strings(process.map_list, acc.process.readings)),
                         size : Sizes])
  /\ Len(acc.stacks) = k
  /\ \A b \in 1..k : acc.stacks[b].size = blocks[b].size

LEMMA StackLooked ==
  ASSUME StashInv, NEW b \in 1..Len(blocks), NEW acc, Stacked(b - 1, acc),
         NEW skip, NEW now \in Readings
  PROVE  Stacked(b, AddStack(acc, blocks[b], skip, now))
<1> DEFINE A == DOMAIN PageOf
           L == process.map_list
           up == Walk(acc.process, Upwards(stash, blocks[b].stack), skip, now)
           down == Walk(up.process, Reverse(up.kept), {}, now)
           next == AddStack(acc, blocks[b], skip, now)
           new == [stack |-> down.symbols, size |-> blocks[b].size]
<1>0. Mappings \subseteq SUBSET Objects /\ b \in Nat /\ b - 1 \in Nat /\ DOMAIN blocks = 1..Len(blocks)
  BY ProfileAssumption DEF StashInv
<1>1. Upwards(stash, blocks[b].stack) \in Seq(A)
  <2>1. Upwards(stash, blocks[b].stack) = traces[b]
    BY <1>0 DEF StashInv, TracesKept
  <2>2. traces[b] \in Traces
    BY ElementOfSeq DEF StashInv
  <2> QED
    BY <2>1, <2>2, ProfileAssumption
<1>2. blocks[b].size \in Sizes
  <2>1. blocks[b] \in [stack : Nat, size : Sizes]
    BY ElementOfSeq DEF StashInv
  <2> QED
    BY <2>1
<1>3. Cache(L, acc.process)
  BY DEF Stacked
<1> HIDE DEF A
<1>4. Walked(L, acc.process, A, up)
  BY <1>0, <1>1, <1>3, WalkIs
<1> HIDE DEF up, L
<1>5. Cache(L, up.process) /\ up.kept \in Seq(A) /\ acc.process.readings <= up.process.readings
  BY <1>4 DEF Walked
<1>6. Walked(L, up.process, A, down)
  BY <1>0, <1>5, ReverseIs, WalkIs
<1>7. next.process = down.process /\ next.stacks = Append(acc.stacks, new)
  BY DEF AddStack, up
<1> HIDE DEF down, next
<1>8. /\ Cache(L, down.process) /\ up.process.readings <= down.process.readings
      /\ down.symbols \in Seq(Strings(L, down.process.readings))
  BY <1>6 DEF Walked
<1>9. /\ acc.process.readings \in Nat /\ up.process.readings \in Nat /\ down.process.readings \in Nat
  BY <1>3, <1>5, <1>8 DEF Cache
<1> DEFINE E(n) == [stack : Seq(Strings(L, n)), size : Sizes]
<1>10. acc.stacks \in Seq(E(down.process.readings))
  <2>1. acc.process.readings <= down.process.readings
    BY <1>5, <1>8, <1>9
  <2>2. Seq(Strings(L, acc.process.readings)) \subseteq Seq(Strings(L, down.process.readings))
    BY <1>9, <2>1, StringsAre
  <2>3. E(acc.process.readings) \subseteq E(down.process.readings)
    BY <2>2
  <2>4. acc.stacks \in Seq(E(acc.process.readings))
    BY DEF Stacked, L
  <2> HIDE DEF E
  <2> QED
    BY <2>3, <2>4
<1>11. new \in E(down.process.readings) /\ new.size = blocks[b].size
  BY <1>2, <1>8
<1> HIDE DEF E, new
<1>12. /\ Append(acc.stacks, new) \in Seq(E(down.process.readings))
       /\ Len(Append(acc.stacks, new)) = Len(acc.stacks) + 1
       /\ Append(acc.stacks, new)[Len(acc.stacks) + 1] = new
       /\ \A i \in 1..Len(acc.stacks) : Append(acc.stacks, new)[i] = acc.stacks[i]
  BY <1>10, <1>11, AppendProperties
<1>13. Len(acc.stacks) = b - 1 /\ \A i \in 1..(b - 1) : acc.stacks[i].size = blocks[i].size
  BY DEF Stacked
<1>14. \A i \in 1..b : next.stacks[i].size = blocks[i].size
  <2>1. \A i \in 1..b : i \in 1..(b - 1) \/ i = b
    BY <1>0
  <2>2. (b - 1) + 1 = b
    BY <1>0
  <2> QED
    BY <1>7, <1>11, <1>12, <1>13, <2>1, <2>2
<1>15. Len(next.stacks) = b
  BY <1>0, <1>7, <1>12, <1>13
<1> QED
  BY <1>7, <1>8, <1>12, <1>14, <1>15 DEF Stacked, E, L, next

Loops(skip, now, n, g) ==
  g = [b \in 0..n |-> IF b = 0 THEN NoStacks ELSE AddStack(g[b - 1], blocks[b], skip, now)]

LEMMA LoopsExist ==
  ASSUME NEW skip, NEW now, NEW n \in Nat
  PROVE  \E g : Loops(skip, now, n, g)
<1> DEFINE next(w, i) == AddStack(w, blocks[i], skip, now)
           base == NoStacks
           T == {m \in Nat : \E g : Loops(skip, now, m, g)}
<1> HIDE DEF next, base
<1>1. 0 \in T
  <2> DEFINE g == [i \in 0..0 |-> base]
  <2>1. g = [i \in 0..0 |-> IF i = 0 THEN base ELSE next(g[i - 1], i)]
    OBVIOUS
  <2> HIDE DEF g
  <2>2. Loops(skip, now, 0, g)
    BY <2>1 DEF Loops, next, base
  <2> QED
    BY <2>2
<1>2. ASSUME NEW m \in T PROVE m + 1 \in T
  <2>1. PICK g : Loops(skip, now, m, g)
    OBVIOUS
  <2>2. g = [i \in 0..m |-> IF i = 0 THEN base ELSE next(g[i - 1], i)]
    BY <2>1 DEF Loops, next, base
  <2> DEFINE h == [i \in 0..(m + 1) |-> IF i = 0 THEN base ELSE next(g[i - 1], i)]
  <2>3. \A i \in 0..m : h[i] = g[i]
    <3>1. \A i \in 0..m : i \in 0..(m + 1)
      OBVIOUS
    <3>2. \A i \in 0..m : g[i] = IF i = 0 THEN base ELSE next(g[i - 1], i)
      BY <2>2
    <3> QED
      BY <3>1, <3>2
  <2>4. \A i \in 0..(m + 1) : i # 0 => h[i - 1] = g[i - 1]
    <3>1. \A i \in 0..(m + 1) : i # 0 => i - 1 \in 0..m
      OBVIOUS
    <3> HIDE DEF h
    <3> QED
      BY <2>3, <3>1
  <2>5. h = [i \in 0..(m + 1) |-> IF i = 0 THEN base ELSE next(h[i - 1], i)]
    BY <2>4
  <2> HIDE DEF h
  <2>6. Loops(skip, now, m + 1, h)
    BY <2>5 DEF Loops, next, base
  <2> QED
    BY <2>6
<1>3. T \in SUBSET Nat
  OBVIOUS
<1>4. \A m \in Nat : m \in T
  <2> HIDE DEF T
  <2> QED
    BY <1>1, <1>2, <1>3, Induct
<1> QED
  BY <1>4

LEMMA SymbolizedIs ==
  ASSUME StashInv, NEW skip, NEW now \in Readings
  PROVE  Stacked(Len(blocks), Symbolized(skip, now))
<1> DEFINE N == Len(blocks)
           g == CHOOSE g : Loops(skip, now, N, g)
<1>1. N \in Nat
  BY DEF StashInv
<1>2. Symbolized(skip, now) = g[N]
  BY DEF Symbolized, Loops
<1>3. Loops(skip, now, N, g)
  <2> HIDE DEF N
  <2> QED
    BY <1>1, LoopsExist
<1> HIDE DEF g
<1>4. \A b \in 0..N : g[b] = IF b = 0 THEN NoStacks ELSE AddStack(g[b - 1], blocks[b], skip, now)
  <2> DEFINE e(b) == IF b = 0 THEN NoStacks ELSE AddStack(g[b - 1], blocks[b], skip, now)
  <2>1. g = [b \in 0..N |-> e(b)]
    BY <1>3 DEF Loops
  <2> HIDE DEF e
  <2>2. \A b \in 0..N : g[b] = e(b)
    BY <2>1
  <2> QED
    BY <2>2 DEF e
<1> DEFINE T == {k \in Nat : k <= N => Stacked(k, g[k])}
<1>5. 0 \in T
  <2>1. g[0] = NoStacks
    <3>1. 0 \in 0..N
      BY <1>1
    <3> QED
      BY <1>4, <3>1
  <2>2. Stacked(0, NoStacks)
    <3>1. /\ NoStacks.process = NoReading /\ NoStacks.stacks = <<>>
          /\ NoReading.map_list = process.map_list /\ NoReading.readings = 0
      BY DEF NoStacks, NoReading
    <3>2. Cache(process.map_list, NoReading)
      BY <3>1 DEF Cache, StashInv
    <3> QED
      BY <3>1, <3>2 DEF Stacked
  <2> QED
    BY <2>1, <2>2
<1>6. ASSUME NEW k \in T PROVE k + 1 \in T
  <2> SUFFICES ASSUME k + 1 <= N PROVE Stacked(k + 1, g[k + 1])
    OBVIOUS
  <2>1. k + 1 \in 1..N /\ k + 1 \in 0..N /\ k <= N /\ (k + 1) - 1 = k /\ k + 1 # 0
    BY <1>1
  <2>2. Stacked((k + 1) - 1, g[k])
    BY <2>1
  <2>3. g[k + 1] = AddStack(g[k], blocks[k + 1], skip, now)
    BY <1>4, <2>1
  <2> HIDE DEF T
  <2> QED
    BY <2>1, <2>2, <2>3, StackLooked
<1>7. T \in SUBSET Nat
  OBVIOUS
<1>8. \A k \in Nat : k \in T
  <2> HIDE DEF T
  <2> QED
    BY <1>5, <1>6, <1>7, Induct
<1> QED
  BY <1>1, <1>2, <1>8

LEMMA StashAllocated ==
  ASSUME StashInv, NEW t \in Traces, NEW size \in Sizes, Allocated(t, size)
  PROVE  StashInv'
<1> DEFINE A == DOMAIN PageOf
           added == stack_stash_add_trace(stash, t)
           block == [stack |-> added.node, size |-> size]
           n == Len(blocks) + 1
<1>1. t \in Seq(A)
  BY ProfileAssumption
<1>2. /\ WellMade(stash, A) /\ WellMade(added.stash, A) /\ added.node \in 0..Made(added.stash)
      /\ Grown(stash, added.stash) /\ Upwards(added.stash, added.node) = t
  <2>1. WellMade(stash, A)
    BY DEF StashInv
  <2> HIDE DEF A
  <2> QED
    BY <1>1, <2>1, TraceAdded
<1>3. stash' = added.stash /\ blocks' = Append(blocks, block) /\ traces' = Append(traces, t)
  BY DEF Allocated
<1> HIDE DEF A, added
<1>4. Made(stash) \in Nat /\ Made(added.stash) \in Nat
  BY <1>2, NodesTyped
<1>5. block \in [stack : Nat, size : Sizes] /\ block.stack = added.node
  BY <1>2, <1>4
<1> HIDE DEF block
<1>6. /\ blocks' \in Seq([stack : Nat, size : Sizes]) /\ Len(blocks') = n /\ blocks'[n] = block
      /\ \A b \in 1..Len(blocks) : blocks'[b] = blocks[b]
  BY <1>3, <1>5, AppendProperties DEF StashInv
<1>7. /\ traces' \in Seq(Traces) /\ Len(traces') = n /\ traces'[n] = t
      /\ \A b \in 1..Len(blocks) : traces'[b] = traces[b]
  BY <1>3, AppendProperties DEF StashInv
<1>8. Len(blocks) \in Nat /\ \A b \in 1..n : b \in 1..Len(blocks) \/ b = n
  BY DEF StashInv
<1>9. \A b \in 1..Len(blocks) : /\ blocks[b].stack \in 0..Made(added.stash)
                                /\ Upwards(added.stash, blocks[b].stack) = traces[b]
  <2> SUFFICES ASSUME NEW b \in 1..Len(blocks)
               PROVE  /\ blocks[b].stack \in 0..Made(added.stash)
                      /\ Upwards(added.stash, blocks[b].stack) = traces[b]
    OBVIOUS
  <2>1. blocks[b].stack \in 0..Made(stash) /\ Upwards(stash, blocks[b].stack) = traces[b]
    BY DEF StashInv, TracesKept
  <2>2. Upwards(added.stash, blocks[b].stack) = Upwards(stash, blocks[b].stack)
    BY <1>2, <2>1, UpwardsStays
  <2> QED
    BY <1>2, <1>4, <2>1, <2>2 DEF Grown
<1>10. \A b \in 1..n : /\ blocks'[b].stack \in 0..Made(added.stash)
                       /\ Upwards(added.stash, blocks'[b].stack) = traces'[b]
  BY <1>2, <1>5, <1>6, <1>7, <1>8, <1>9
<1>11. DOMAIN blocks' = 1..n
  BY <1>6
<1>12. \A b \in 1..n : blocks'[b].stack \in 0..Made(stash')
  BY <1>3, <1>10
<1>13. TracesKept'
  BY <1>3, <1>10, <1>11 DEF TracesKept
<1>14. WellMade(stash', DOMAIN PageOf)
  BY <1>2, <1>3 DEF A
<1>15. process' = process
  BY DEF Allocated
<1> QED
  BY <1>6, <1>7, <1>12, <1>13, <1>14, <1>15 DEF StashInv

LEMMA StashStarts == ProfInit => StashInv
<1>1. WellMade(NewStash, DOMAIN PageOf)
  BY NewStashIs
<1> QED
  BY <1>1 DEF ProfInit, StashInv, TracesKept

LEMMA StashStep == StashInv /\ [ProfNext]_profVars => StashInv'
<1> SUFFICES ASSUME StashInv, [ProfNext]_profVars PROVE StashInv'
  OBVIOUS
<1>0. Mappings \subseteq SUBSET Objects
  BY ProfileAssumption
<1>1. ASSUME UNCHANGED <<stash, blocks, traces>>, process'.map_list \in SUBSET Objects
      PROVE  StashInv'
  BY <1>1 DEF StashInv, TracesKept
<1>2. CASE UNCHANGED <<stash, blocks, traces, process>>
  BY <1>1, <1>2 DEF StashInv
<1>3. CASE \E t \in Traces, n \in Sizes : Allocated(t, n)
  BY <1>3, StashAllocated
<1>4. CASE \E skip \in SkipSets, now \in Readings : generate_profile_cb(skip, now)
  <2>1. PICK skip \in SkipSets, now \in Readings : generate_profile_cb(skip, now)
    BY <1>4
  <2>2. Symbolized(skip, now).process.map_list \in SUBSET Objects
    BY SymbolizedIs DEF Stacked, Cache
  <2>3. process' = process \/ process'.map_list = Symbolized(skip, now).process.map_list
    BY <2>1 DEF generate_profile_cb
  <2>4. process'.map_list \in SUBSET Objects
    BY <2>2, <2>3 DEF StashInv
  <2> QED
    BY <1>1, <2>1, <2>4 DEF generate_profile_cb
<1>5. CASE \E a \in DOMAIN PageOf, now \in Readings : find_line(a, now)
  <2>1. PICK a \in DOMAIN PageOf, now \in Readings : find_line(a, now)
    BY <1>5
  <2>2. Cache(process.map_list, NoReading)
    <3>1. NoReading.map_list = process.map_list /\ NoReading.readings = 0
      BY DEF NoReading
    <3> QED
      BY <3>1 DEF Cache, StashInv
  <2>3. locate_map(NoReading, a, now).map_list \in SUBSET Objects
    BY <1>0, <2>2, MapsLocated DEF Cache
  <2>4. process' = process \/ process'.map_list = locate_map(NoReading, a, now).map_list
    BY <2>1 DEF find_line
  <2>5. process'.map_list \in SUBSET Objects
    BY <2>3, <2>4 DEF StashInv
  <2> QED
    BY <1>1, <2>1, <2>5 DEF find_line
<1>6. CASE \E mapping \in Mappings : read_sections(mapping)
  <2>1. PICK mapping \in Mappings : read_sections(mapping)
    BY <1>6
  <2>2. process'.map_list = mapping \/ process'.map_list = process.map_list
    BY <2>1 DEF read_sections
  <2>3. process'.map_list \in SUBSET Objects
    BY <1>0, <2>2 DEF StashInv
  <2> QED
    BY <1>1, <2>1, <2>3 DEF read_sections
<1>7. CASE reset_profile_cb
  <2>1. stash' = NewStash /\ blocks' = <<>> /\ traces' = <<>> /\ process'.map_list = {}
    BY <1>7 DEF reset_profile_cb
  <2>2. WellMade(NewStash, DOMAIN PageOf)
    BY NewStashIs
  <2> QED
    BY <2>1, <2>2 DEF StashInv, TracesKept
<1>8. CASE profile_write
  BY <1>2, <1>8 DEF profile_write
<1>9. CASE UNCHANGED profVars
  BY <1>2, <1>9 DEF profVars
<1> QED
  BY <1>3, <1>4, <1>5, <1>6, <1>7, <1>8, <1>9 DEF ProfNext

\* Whatever stacks are reported, in whatever order and however often everything
\* is reset: the stash gives back every block's stack as it was reported, and has
\* no two nodes for one address below the same node.
THEOREM StashKept == ProfSpec => []StashExact
<1>1. StashInv => StashExact
  <2>1. WellMade(stash, DOMAIN PageOf) => StashShares
    BY DEF WellMade, Unique, StashShares, Made
  <2> QED
    BY <2>1 DEF StashInv, StashExact
<1> QED
  BY <1>1, StashStarts, StashStep, PTL DEF ProfSpec

-----------------------------------------------------------------------------
(* Sums, as the code and as the reports have them.                         *)

SelvesIn(tree)  == [q \in DOMAIN tree |-> tree[q].self]
TotalsIn(tree)  == [q \in DOMAIN tree |-> tree[q].total]
SizesIn(R)      == [r \in R |-> r.size]

LEMMA SelfIs ==
  ASSUME NEW tree, NEW S \in SUBSET DOMAIN tree
  PROVE  SelfOf(tree, S) = SumOver(SelvesIn(tree), S) % ByteMod
<1> DEFINE f == SelvesIn(tree)
           Fold(g) == g = [s \in SUBSET S |->
                             IF s = {} THEN 0
                             ELSE LET x == CHOOSE x \in s : TRUE IN tree[x].self + g[s \ {x}]]
<1>1. SelfOf(tree, S) = (CHOOSE g : Fold(g))[S] % ByteMod
  BY DEF SelfOf, Sum, MapThenSumSet, MapThenFoldSet
<1>2. \A s \in SUBSET S : s # {} => f[Chosen(s)] = tree[Chosen(s)].self
  BY DEF Chosen, SelvesIn
<1> HIDE DEF f
<1>3. \A g : [s \in SUBSET S |-> IF s = {} THEN 0 ELSE tree[Chosen(s)].self + g[s \ {Chosen(s)}]]
           = [s \in SUBSET S |-> IF s = {} THEN 0 ELSE f[Chosen(s)] + g[s \ {Chosen(s)}]]
  BY <1>2
<1>4. \A g : Fold(g) <=> Sums(f, SUBSET S, g)
  BY <1>3 DEF Sums, Chosen
<1> HIDE DEF Fold
<1>5. (CHOOSE g : Fold(g)) = (CHOOSE g : Sums(f, SUBSET S, g))
  BY <1>4
<1> QED
  BY <1>1, <1>5 DEF SumOver, f

LEMMA TotalIs ==
  ASSUME NEW tree, NEW S \in SUBSET DOMAIN tree
  PROVE  TotalOf(tree, S) = SumOver(TotalsIn(tree), S) % ByteMod
<1> DEFINE f == TotalsIn(tree)
           Fold(g) == g = [s \in SUBSET S |->
                             IF s = {} THEN 0
                             ELSE LET x == CHOOSE x \in s : TRUE IN tree[x].total + g[s \ {x}]]
<1>1. TotalOf(tree, S) = (CHOOSE g : Fold(g))[S] % ByteMod
  BY DEF TotalOf, Sum, MapThenSumSet, MapThenFoldSet
<1>2. \A s \in SUBSET S : s # {} => f[Chosen(s)] = tree[Chosen(s)].total
  BY DEF Chosen, TotalsIn
<1> HIDE DEF f
<1>3. \A g : [s \in SUBSET S |-> IF s = {} THEN 0 ELSE tree[Chosen(s)].total + g[s \ {Chosen(s)}]]
           = [s \in SUBSET S |-> IF s = {} THEN 0 ELSE f[Chosen(s)] + g[s \ {Chosen(s)}]]
  BY <1>2
<1>4. \A g : Fold(g) <=> Sums(f, SUBSET S, g)
  BY <1>3 DEF Sums, Chosen
<1> HIDE DEF Fold
<1>5. (CHOOSE g : Fold(g)) = (CHOOSE g : Sums(f, SUBSET S, g))
  BY <1>4
<1> QED
  BY <1>1, <1>5 DEF SumOver, f

LEMMA BytesIs ==
  ASSUME NEW R, NEW S \in SUBSET R
  PROVE  BytesOf(S) = SumOver(SizesIn(R), S) % ByteMod
<1> DEFINE f == SizesIn(R)
           Fold(g) == g = [s \in SUBSET S |->
                             IF s = {} THEN 0
                             ELSE LET x == CHOOSE x \in s : TRUE IN x.size + g[s \ {x}]]
<1>1. BytesOf(S) = (CHOOSE g : Fold(g))[S] % ByteMod
  BY DEF BytesOf, Sum, MapThenSumSet, MapThenFoldSet
<1>2. \A s \in SUBSET S : s # {} => f[Chosen(s)] = Chosen(s).size
  BY DEF Chosen, SizesIn
<1> HIDE DEF f
<1>3. \A g : [s \in SUBSET S |-> IF s = {} THEN 0 ELSE Chosen(s).size + g[s \ {Chosen(s)}]]
           = [s \in SUBSET S |-> IF s = {} THEN 0 ELSE f[Chosen(s)] + g[s \ {Chosen(s)}]]
  BY <1>2
<1>4. \A g : Fold(g) <=> Sums(f, SUBSET S, g)
  BY <1>3 DEF Sums, Chosen
<1> HIDE DEF Fold
<1>5. (CHOOSE g : Fold(g)) = (CHOOSE g : Sums(f, SUBSET S, g))
  BY <1>4
<1> QED
  BY <1>1, <1>5 DEF SumOver, f

\* What is 0 adds nothing.
LEMMA SumZeros ==
  ASSUME NEW f, NEW S2, Summable(f, S2), NEW S \in SUBSET S2,
         \A x \in S2 \ S : f[x] = 0
  PROVE  SumOver(f, S2) = SumOver(f, S)
<1> DEFINE T == {R \in SUBSET S2 : S \subseteq R /\ SumOver(f, R) # SumOver(f, S)}
<1> SUFFICES ASSUME T # {} PROVE FALSE
  OBVIOUS
<1>0. IsFiniteSet(S2) /\ T \in SUBSET SUBSET S2
  BY DEF Summable
<1>1. PICK R \in T : \A Q \in T : Cardinality(R) <= Cardinality(Q)
  <2> HIDE DEF T
  <2> QED
    BY <1>0, Fewest
<1>2. PICK x \in R : x \notin S
  OBVIOUS
<1>3. R \in SUBSET S2 /\ Summable(f, R) /\ IsFiniteSet(R) /\ f[x] = 0
  BY <1>0, <1>2, FS_Subset DEF Summable
<1>4. SumOver(f, R) = SumOver(f, R \ {x}) + f[x] /\ SumOver(f, R \ {x}) \in Int
  BY <1>3, SumAdd
<1>5. R \ {x} \in T
  <2>1. R \ {x} \in SUBSET S2 /\ S \subseteq R \ {x}
    BY <1>2, <1>3
  <2>2. SumOver(f, R \ {x}) = SumOver(f, R)
    BY <1>3, <1>4
  <2> QED
    BY <2>1, <2>2
<1>6. Cardinality(R) \in Nat /\ Cardinality(R \ {x}) = Cardinality(R) - 1
  BY <1>3, FS_CardinalityType, FS_RemoveElement
<1> HIDE DEF T
<1>7. Cardinality(R) <= Cardinality(R \ {x})
  BY <1>1, <1>5
<1> QED
  BY <1>6, <1>7

\* New elements count from 0.  When none changes, or one grows by n ...
LEMMA SumSame ==
  ASSUME NEW f, NEW S, Summable(f, S), NEW h, NEW S2, IsFiniteSet(S2), S \subseteq S2,
         \A x \in S2 : h[x] = IF x \in S THEN f[x] ELSE 0
  PROVE  SumOver(h, S2) = SumOver(f, S)
<1>1. Summable(h, S2)
  BY DEF Summable
<1>2. SumOver(h, S2) = SumOver(h, S)
  BY <1>1, SumZeros
<1>3. SumOver(f, S) = SumOver(h, S)
  BY SumAgree
<1> QED
  BY <1>2, <1>3

LEMMA SumGrows ==
  ASSUME NEW f, NEW S, Summable(f, S), NEW h, NEW S2, IsFiniteSet(S2), S \subseteq S2,
         NEW a \in S2, NEW n \in Int, NEW m \in Nat \ {0},
         \A x \in S2 \ {a} : h[x] = IF x \in S THEN f[x] ELSE 0,
         h[a] = ((IF a \in S THEN f[a] ELSE 0) + n) % m
  PROVE  SumOver(h, S2) % m = (SumOver(f, S) + n) % m
<1> DEFINE g == [x \in S2 |-> IF x \in S THEN f[x] ELSE 0]
           A == SumOver(g, S2 \ {a})
<1>1. Summable(g, S2) /\ SumOver(g, S2) = SumOver(f, S)
  <2>1. \A x \in S2 : g[x] = IF x \in S THEN f[x] ELSE 0
    OBVIOUS
  <2> HIDE DEF g
  <2>2. Summable(g, S2)
    BY <2>1 DEF Summable
  <2> QED
    BY <2>1, <2>2, SumSame
<1>2. \A x \in S2 \ {a} : g[x] = h[x]
  OBVIOUS
<1>3. g[a] = IF a \in S THEN f[a] ELSE 0
  OBVIOUS
<1> HIDE DEF g
<1>4. Summable(g, S2 \ {a}) /\ A \in Int /\ g[a] \in Int /\ SumOver(g, S2) = A + g[a]
  BY <1>1, SumAdd
<1>5. h[a] = (g[a] + n) % m /\ h[a] \in Int
  BY <1>3, <1>4
<1>6. Summable(h, S2)
  BY <1>1, <1>2, <1>5 DEF Summable
<1>7. SumOver(h, S2) = SumOver(h, S2 \ {a}) + h[a]
  BY <1>6, SumAdd
<1>8. A = SumOver(h, S2 \ {a})
  BY <1>2, <1>4, SumAgree
<1> HIDE DEF A
<1>9. (((g[a] + n) % m) + A) % m = ((g[a] + n) + A) % m
  <2>1. PICK y \in Int : y = g[a] + n
    BY <1>4
  <2>2. ((y % m) + A) % m = (y + A) % m
    BY <1>4, ModAdd
  <2> QED
    BY <2>1, <2>2
<1>10. /\ SumOver(h, S2) = ((g[a] + n) % m) + A
       /\ SumOver(f, S) + n = (g[a] + n) + A
  BY <1>1, <1>4, <1>5, <1>7, <1>8
<1> QED
  BY <1>9, <1>10

-----------------------------------------------------------------------------
(* The tree of calls: what a stack more does to the sums over its nodes.   *)

\* The nodes on the way down a stack.
Path(s) == Prefixes(s) \ {<<>>}

IsTree(tree) ==
  /\ IsFiniteSet(DOMAIN tree) /\ DOMAIN tree \subseteq Seq(Symbols) \ {<<>>}
  /\ \A q \in DOMAIN tree : /\ tree[q] \in [total : Int, self : Int, toplevel : BOOLEAN]
                            /\ tree[q].toplevel = (Last(q) \notin ToSet(Front(q)))
                            /\ Path(q) \subseteq DOMAIN tree

LEMMA PathIs ==
  ASSUME NEW s \in Seq(Symbols)
  PROVE  /\ IsFiniteSet(Path(s)) /\ Path(s) \subseteq Seq(Symbols) \ {<<>>}
         /\ Path(s) = {SubSeq(s, 1, l) : l \in 1..Len(s)}
         /\ \A l \in 1..Len(s) : /\ Len(SubSeq(s, 1, l)) = l
                                 /\ \A i \in 1..l : SubSeq(s, 1, l)[i] = s[i]
         /\ s # <<>> => s \in Path(s)
         /\ \A q \in Path(s) : Path(q) \subseteq Path(s)
<1>0. Len(s) \in Nat /\ \A i \in 1..Len(s) : s[i] \in Symbols
  OBVIOUS
<1>1. \A l \in 0..Len(s) : /\ SubSeq(s, 1, l) \in Seq(Symbols) /\ Len(SubSeq(s, 1, l)) = l
                           /\ \A i \in 1..l : SubSeq(s, 1, l)[i] = s[i]
  <2> SUFFICES ASSUME NEW l \in 0..Len(s)
               PROVE  /\ SubSeq(s, 1, l) \in Seq(Symbols) /\ Len(SubSeq(s, 1, l)) = l
                      /\ \A i \in 1..l : SubSeq(s, 1, l)[i] = s[i]
    OBVIOUS
  <2>1. \A i \in 1..l : s[i] \in Symbols
    BY <1>0
  <2> QED
    BY <2>1
<1>2. Path(s) = {SubSeq(s, 1, l) : l \in 1..Len(s)}
  <2>1. \A l \in 0..Len(s) : SubSeq(s, 1, l) # <<>> <=> l \in 1..Len(s)
    <3> SUFFICES ASSUME NEW l \in 0..Len(s)
                 PROVE  SubSeq(s, 1, l) # <<>> <=> l \in 1..Len(s)
      OBVIOUS
    <3>1. SubSeq(s, 1, l) = <<>> <=> Len(SubSeq(s, 1, l)) = 0
      BY <1>1, EmptySeq
    <3> QED
      BY <1>0, <1>1, <3>1
  <2>2. \A l \in 1..Len(s) : l \in 0..Len(s)
    OBVIOUS
  <2>3. Prefixes(s) = {SubSeq(s, 1, l) : l \in 0..Len(s)}
    BY DEF Prefixes
  <2> QED
    BY <2>1, <2>2, <2>3 DEF Path
<1>3. IsFiniteSet(Path(s))
  <2>1. IsFiniteSet(1..Len(s))
    BY <1>0, FS_Interval
  <2> DEFINE f == [l \in 1..Len(s) |-> SubSeq(s, 1, l)]
  <2>2. f \in Surjection(1..Len(s), Path(s))
    <3>1. f \in [1..Len(s) -> Path(s)] /\ \A q \in Path(s) : \E l \in 1..Len(s) : f[l] = q
      BY <1>2
    <3> HIDE DEF f
    <3> QED
      BY <3>1 DEF Surjection
  <2> QED
    BY <2>1, <2>2, FS_Surjection
<1>4. Path(s) \subseteq Seq(Symbols) \ {<<>>}
  BY <1>1, <1>2 DEF Path
<1>5. s # <<>> => s \in Path(s)
  <2>1. SubSeq(s, 1, Len(s)) = s
    BY SubSeqFull
  <2>2. s # <<>> => Len(s) \in 1..Len(s)
    BY <1>0, EmptySeq
  <2> QED
    BY <1>2, <2>1, <2>2
<1>6. \A q \in Path(s) : Path(q) \subseteq Path(s)
  <2> SUFFICES ASSUME NEW q \in Path(s), NEW r \in Path(q) PROVE r \in Path(s)
    OBVIOUS
  <2>1. PICK l \in 1..Len(s) : q = SubSeq(s, 1, l)
    BY <1>2
  <2>2. /\ q \in Seq(Symbols) /\ Len(q) = l /\ \A i \in 1..l : q[i] = s[i]
    BY <1>1, <2>1
  <2>3. PICK k \in 0..l : r = SubSeq(q, 1, k)
    BY <2>2 DEF Path, Prefixes
  <2>4. r # <<>>
    BY DEF Path
  <2>5. k \in 0..Len(s)
    BY <1>0
  <2>6. SubSeq(q, 1, k) = SubSeq(s, 1, k)
    <3>1. \A i \in 1..k : q[i] = s[i]
      BY <2>2
    <3>2. /\ SubSeq(q, 1, k) \in Seq(Symbols) /\ Len(SubSeq(q, 1, k)) = k
          /\ \A i \in 1..k : SubSeq(q, 1, k)[i] = q[i]
      BY <2>2, <2>3
    <3> QED
      BY <1>1, <2>5, <3>1, <3>2, SeqEqual
  <2> QED
    BY <2>3, <2>4, <2>5, <2>6 DEF Path, Prefixes
<1>7. \A l \in 1..Len(s) : l \in 0..Len(s)
  OBVIOUS
<1> QED
  BY <1>1, <1>2, <1>3, <1>4, <1>5, <1>6, <1>7

HadBefore(tree, q) == IF q \in DOMAIN tree THEN tree[q] ELSE [total |-> 0, self |-> 0]

\* What the nodes of t2 hold when it has the stack s in addition to those of t.
Counted(t, s, n, t2) ==
  \A q \in DOMAIN t2 :
    /\ t2[q].total = IF q \in Path(s) THEN (HadBefore(t, q).total + n) % ByteMod
                                      ELSE HadBefore(t, q).total
    /\ t2[q].self = IF q = s THEN (HadBefore(t, q).self + n) % ByteMod
                             ELSE HadBefore(t, q).self

LEMMA StackAdded ==
  ASSUME NEW t, IsTree(t), NEW s \in Seq(Symbols), NEW n \in Int, ByteMod \in Nat \ {0},
         NEW t2, t2 = profile_add_stack_trace(t, s, n)
  PROVE  IsTree(t2) /\ DOMAIN t2 = DOMAIN t \cup Path(s) /\ Counted(t, s, n, t2)
<1> DEFINE P == Path(s)
           D == DOMAIN t
           old(q) == IF q \in D THEN t[q] ELSE NewNode(q)
           new(q) == [old(q) EXCEPT !.total = Wrap(@ + n),
                                    !.self = IF q = s THEN Wrap(@ + n) ELSE @]
<1>1. t2 = [q \in D \cup P |-> IF q \in P THEN new(q) ELSE t[q]]
  BY DEF profile_add_stack_trace, Path
<1>2. /\ IsFiniteSet(P) /\ P \subseteq Seq(Symbols) \ {<<>>} /\ \A q \in P : Path(q) \subseteq P
  BY PathIs
<1>3. s \notin P => s = <<>>
  BY PathIs
<1>4. s \in D => s \in P
  BY <1>3 DEF IsTree
<1> HIDE DEF P, D
<1>5. \A q \in D \cup P : /\ old(q) \in [total : Int, self : Int, toplevel : BOOLEAN]
                          /\ old(q).toplevel = (Last(q) \notin ToSet(Front(q)))
                          /\ old(q).total = HadBefore(t, q).total /\ old(q).self = HadBefore(t, q).self
  <2> SUFFICES ASSUME NEW q \in D \cup P
               PROVE  /\ old(q) \in [total : Int, self : Int, toplevel : BOOLEAN]
                      /\ old(q).toplevel = (Last(q) \notin ToSet(Front(q)))
                      /\ old(q).total = HadBefore(t, q).total /\ old(q).self = HadBefore(t, q).self
    OBVIOUS
  <2>1. CASE q \in D
    BY <2>1 DEF D, IsTree, HadBefore
  <2>2. CASE q \notin D
    <3>1. NewNode(q) = [total |-> 0, self |-> 0, toplevel |-> Last(q) \notin ToSet(Front(q))]
      BY DEF NewNode
    <3>2. HadBefore(t, q) = [total |-> 0, self |-> 0]
      BY <2>2 DEF D, HadBefore
    <3> QED
      BY <2>2, <3>1, <3>2
  <2> QED
    BY <2>1, <2>2
<1> HIDE DEF old
<1>6. \A q \in D \cup P :
        /\ new(q) \in [total : Int, self : Int, toplevel : BOOLEAN]
        /\ new(q).toplevel = (Last(q) \notin ToSet(Front(q)))
        /\ new(q).total = (HadBefore(t, q).total + n) % ByteMod
        /\ new(q).self = IF q = s THEN (HadBefore(t, q).self + n) % ByteMod ELSE HadBefore(t, q).self
  <2> SUFFICES ASSUME NEW q \in D \cup P
               PROVE  /\ new(q) \in [total : Int, self : Int, toplevel : BOOLEAN]
                      /\ new(q).toplevel = (Last(q) \notin ToSet(Front(q)))
                      /\ new(q).total = (HadBefore(t, q).total + n) % ByteMod
                      /\ new(q).self = IF q = s THEN (HadBefore(t, q).self + n) % ByteMod
                                                ELSE HadBefore(t, q).self
    OBVIOUS
  <2>1. /\ old(q) \in [total : Int, self : Int, toplevel : BOOLEAN]
        /\ old(q).toplevel = (Last(q) \notin ToSet(Front(q)))
        /\ old(q).total = HadBefore(t, q).total /\ old(q).self = HadBefore(t, q).self
    BY <1>5
  <2>2. PICK r \in [total : Int, self : Int, toplevel : BOOLEAN] : r = old(q)
    BY <2>1
  <2>3. /\ Wrap(r.total + n) \in Int /\ Wrap(r.self + n) \in Int
        /\ Wrap(r.total + n) = (r.total + n) % ByteMod /\ Wrap(r.self + n) = (r.self + n) % ByteMod
    BY <2>2 DEF Wrap
  <2> DEFINE total == Wrap(r.total + n)
             self == IF q = s THEN Wrap(r.self + n) ELSE r.self
  <2>4. new(q) = [r EXCEPT !.total = total, !.self = self]
    BY <2>2
  <2>5. total \in Int /\ self \in Int
    BY <2>3
  <2>6. /\ total = (HadBefore(t, q).total + n) % ByteMod
        /\ self = IF q = s THEN (HadBefore(t, q).self + n) % ByteMod ELSE HadBefore(t, q).self
    BY <2>1, <2>2, <2>3
  <2> HIDE DEF total, self, new
  <2>7. /\ new(q) \in [total : Int, self : Int, toplevel : BOOLEAN]
        /\ new(q).toplevel = r.toplevel /\ new(q).total = total /\ new(q).self = self
    BY <2>4, <2>5
  <2> QED
    BY <2>1, <2>2, <2>6, <2>7
<1> HIDE DEF new
<1>7. DOMAIN t2 = D \cup P
  BY <1>1
<1>8. \A q \in P : t2[q] = new(q)
  BY <1>1
<1>9. \A q \in D : q \notin P => t2[q] = t[q] /\ HadBefore(t, q) = t[q] /\ q # s
  BY <1>1, <1>4 DEF HadBefore, D
<1>10. IsTree(t2)
  <2>1. IsFiniteSet(D \cup P) /\ D \cup P \subseteq Seq(Symbols) \ {<<>>}
    BY <1>2, FS_Union DEF IsTree, D
  <2>2. \A q \in D \cup P : /\ t2[q] \in [total : Int, self : Int, toplevel : BOOLEAN]
                            /\ t2[q].toplevel = (Last(q) \notin ToSet(Front(q)))
    <3> SUFFICES ASSUME NEW q \in D \cup P
                 PROVE  /\ t2[q] \in [total : Int, self : Int, toplevel : BOOLEAN]
                        /\ t2[q].toplevel = (Last(q) \notin ToSet(Front(q)))
      OBVIOUS
    <3>1. CASE q \in P
      BY <3>1, <1>6, <1>8
    <3>2. CASE q \notin P
      BY <3>2, <1>9 DEF D, IsTree
    <3> QED
      BY <3>1, <3>2
  <2>3. \A q \in D \cup P : Path(q) \subseteq D \cup P
    BY <1>2 DEF D, IsTree
  <2> QED
    BY <1>7, <2>1, <2>2, <2>3 DEF IsTree
<1>11. ASSUME NEW q \in D \cup P
       PROVE  /\ t2[q].total = IF q \in P THEN (HadBefore(t, q).total + n) % ByteMod
                                          ELSE HadBefore(t, q).total
              /\ t2[q].self = IF q = s THEN (HadBefore(t, q).self + n) % ByteMod
                                       ELSE HadBefore(t, q).self
  <2>1. CASE q \in P
    BY <2>1, <1>6, <1>8
  <2>2. CASE q \notin P
    BY <2>2, <1>9
  <2> QED
    BY <2>1, <2>2
<1> QED
  BY <1>7, <1>10, <1>11 DEF P, D, Counted

\* Of two nodes on the way down a stack, one is on the way to the other.
LEMMA InPath ==
  ASSUME NEW s \in Seq(Symbols), NEW q \in Path(s), NEW r \in Path(s), Len(q) <= Len(r)
  PROVE  q \in Path(r)
<1>1. PICK l \in 1..Len(s) : q = SubSeq(s, 1, l)
  BY PathIs
<1>2. PICK k \in 1..Len(s) : r = SubSeq(s, 1, k)
  BY PathIs
<1>3. /\ q \in Seq(Symbols) /\ r \in Seq(Symbols) /\ Len(q) = l /\ Len(r) = k
      /\ \A i \in 1..l : q[i] = s[i]
      /\ \A i \in 1..k : r[i] = s[i]
  BY <1>1, <1>2, PathIs
<1>4. l \in 1..Len(r) /\ \A i \in 1..l : i \in 1..k
  BY <1>3
<1>5. /\ SubSeq(r, 1, l) \in Path(r) /\ Len(SubSeq(r, 1, l)) = l
      /\ \A i \in 1..l : SubSeq(r, 1, l)[i] = r[i]
  <2>1. r \in Seq(Symbols)
    BY <1>3
  <2>2. Path(r) = {SubSeq(r, 1, j) : j \in 1..Len(r)}
    BY <2>1, PathIs
  <2>3. \A j \in 1..Len(r) : /\ Len(SubSeq(r, 1, j)) = j
                             /\ \A i \in 1..j : SubSeq(r, 1, j)[i] = r[i]
    BY <2>1, PathIs
  <2> QED
    BY <1>4, <2>2, <2>3
<1>6. SubSeq(r, 1, l) \in Seq(Symbols)
  BY <1>3, <1>5, PathIs
<1>7. q = SubSeq(r, 1, l)
  BY <1>3, <1>4, <1>5, <1>6, SeqEqual
<1> QED
  BY <1>5, <1>7

\* The nodes of W on the way down a stack: none, or one.
Misses(s, W)    == Path(s) \cap W = {}
MeetsOnce(s, W) == \E a : Path(s) \cap W = {a}

\* The sequences of B that have no other on the way to them.
First(B) == {q \in B : \A r \in Path(q) : r \in B => r = q}

\* The shortest on the way down a stack is such a one.
LEMMA ShortestIs ==
  ASSUME NEW B, NEW s \in Seq(Symbols), NEW a \in Path(s) \cap B,
         \A r \in Path(s) \cap B : Len(a) <= Len(r)
  PROVE  Path(s) \cap First(B) = {a}
<1>0. /\ Path(s) \subseteq Seq(Symbols) \ {<<>>}
      /\ \A q \in Path(s) : Path(q) \subseteq Path(s)
  BY PathIs
<1>1. a \in First(B)
  <2> SUFFICES ASSUME NEW r \in Path(a), r \in B PROVE r = a
    BY DEF First
  <2>1. a \in Seq(Symbols) /\ r \in Path(s) \cap B
    BY <1>0
  <2>2. Len(a) <= Len(r)
    BY <2>1
  <2>3. PICK l \in 1..Len(a) : r = SubSeq(a, 1, l) /\ Len(r) = l
    BY <2>1, PathIs
  <2>4. l = Len(a)
    BY <2>1, <2>2, <2>3
  <2> QED
    BY <2>1, <2>3, <2>4, SubSeqFull
<1>2. ASSUME NEW r \in Path(s) \cap First(B) PROVE r = a
  <2>1. r \in B
    BY DEF First
  <2>2. Len(a) <= Len(r)
    BY <2>1
  <2>3. a \in Path(r)
    BY <2>2, InPath
  <2> QED
    BY <2>3 DEF First
<1> QED
  BY <1>1, <1>2

LEMMA Shortest ==
  ASSUME NEW B, NEW s \in Seq(Symbols), ~ Misses(s, B)
  PROVE  \E a \in Path(s) \cap B : \A r \in Path(s) \cap B : Len(a) <= Len(r)
<1> DEFINE N == {Len(q) : q \in Path(s) \cap B}
<1>1. N \in SUBSET Nat /\ N # {}
  <2>1. \A q \in Path(s) : Len(q) \in Nat
    BY PathIs
  <2> QED
    BY <2>1 DEF Misses
<1>2. PICK n \in N : \A k \in N : n <= k
  <2> HIDE DEF N
  <2> QED
    BY <1>1, Least
<1> QED
  BY <1>2

LEMMA FirstIs ==
  ASSUME NEW B, NEW s \in Seq(Symbols)
  PROVE  IF Misses(s, B) THEN Misses(s, First(B)) ELSE MeetsOnce(s, First(B))
<1>1. CASE Misses(s, B)
  BY <1>1 DEF First, Misses
<1>2. CASE ~ Misses(s, B)
  <2>1. PICK a \in Path(s) \cap B : \A r \in Path(s) \cap B : Len(a) <= Len(r)
    BY <1>2, Shortest
  <2>2. Path(s) \cap First(B) = {a}
    BY <2>1, ShortestIs
  <2> QED
    BY <1>2, <2>2 DEF MeetsOnce
<1> QED
  BY <1>1, <1>2

\* The sums over the nodes of a tree that are in W.
TotalsOver(t, W) == SumOver(TotalsIn(t), DOMAIN t \cap W)
SelvesOver(t, W) == SumOver(SelvesIn(t), DOMAIN t \cap W)

\* What the sums over the nodes in W become when a stack is added that passes
\* none of them, or one.
LEMMA TotalsGrow ==
  ASSUME NEW t, IsTree(t), NEW s \in Seq(Symbols), NEW n \in Int, ByteMod \in Nat \ {0},
         NEW t2, t2 = profile_add_stack_trace(t, s, n), NEW W
  PROVE  /\ Misses(s, W) => TotalsOver(t2, W) = TotalsOver(t, W)
         /\ MeetsOnce(s, W) => TotalsOver(t2, W) % ByteMod = (TotalsOver(t, W) + n) % ByteMod
<1> DEFINE f == TotalsIn(t)
           h == TotalsIn(t2)
           S == DOMAIN t \cap W
           S2 == DOMAIN t2 \cap W
<1>1. /\ IsTree(t2) /\ DOMAIN t2 = DOMAIN t \cup Path(s)
      /\ \A q \in DOMAIN t2 :
           t2[q].total = IF q \in Path(s) THEN (HadBefore(t, q).total + n) % ByteMod
                                          ELSE HadBefore(t, q).total
  <2>1. IsTree(t2) /\ DOMAIN t2 = DOMAIN t \cup Path(s) /\ Counted(t, s, n, t2)
    BY StackAdded
  <2> QED
    BY <2>1 DEF Counted
<1>2. \A q : HadBefore(t, q).total = IF q \in DOMAIN t THEN t[q].total ELSE 0
  BY DEF HadBefore
<1>3. Summable(f, S) /\ IsFiniteSet(S2) /\ S \subseteq S2
  <2>1. IsFiniteSet(S) /\ IsFiniteSet(S2) /\ S \subseteq S2
    BY <1>1, FS_Subset DEF IsTree
  <2>2. \A q \in S : f[q] \in Int
    BY DEF TotalsIn, IsTree
  <2> QED
    BY <2>1, <2>2 DEF Summable
<1>4. \A q \in S2 : h[q] = IF q \in Path(s) THEN ((IF q \in S THEN f[q] ELSE 0) + n) % ByteMod
                                            ELSE IF q \in S THEN f[q] ELSE 0
  BY <1>1, <1>2 DEF TotalsIn
<1>5. \A q \in S2 : q \in Path(s) => q \in Path(s) \cap W
  OBVIOUS
<1>6. Path(s) \cap W \subseteq S2
  BY <1>1
<1> HIDE DEF f, h, S, S2
<1>7. CASE Path(s) \cap W = {}
  <2>1. \A q \in S2 : h[q] = IF q \in S THEN f[q] ELSE 0
    BY <1>4, <1>5, <1>7
  <2>2. SumOver(h, S2) = SumOver(f, S)
    BY <1>3, <2>1, SumSame
  <2>3. ~ MeetsOnce(s, W)
    BY <1>7 DEF MeetsOnce
  <2> QED
    BY <2>2, <2>3 DEF f, h, S, S2, TotalsOver
<1>8. ASSUME NEW a, Path(s) \cap W = {a}
      PROVE  SumOver(h, S2) % ByteMod = (SumOver(f, S) + n) % ByteMod
  <2>1. a \in S2 /\ a \in Path(s)
    BY <1>6, <1>8
  <2>2. \A q \in S2 \ {a} : h[q] = IF q \in S THEN f[q] ELSE 0
    BY <1>4, <1>5, <1>8
  <2>3. h[a] = ((IF a \in S THEN f[a] ELSE 0) + n) % ByteMod
    BY <1>4, <2>1
  <2> QED
    BY <1>3, <2>1, <2>2, <2>3, SumGrows, SMTT(60)
<1> QED
  BY <1>7, <1>8 DEF f, h, S, S2, TotalsOver, Misses, MeetsOnce

LEMMA SelvesGrow ==
  ASSUME NEW t, IsTree(t), NEW s \in Seq(Symbols), NEW n \in Int, ByteMod \in Nat \ {0},
         NEW t2, t2 = profile_add_stack_trace(t, s, n),
         NEW W \in SUBSET (Seq(Symbols) \ {<<>>})
  PROVE  /\ s \notin W => SelvesOver(t2, W) = SelvesOver(t, W)
         /\ s \in W => SelvesOver(t2, W) % ByteMod = (SelvesOver(t, W) + n) % ByteMod
<1> DEFINE f == SelvesIn(t)
           h == SelvesIn(t2)
           S == DOMAIN t \cap W
           S2 == DOMAIN t2 \cap W
<1>1. /\ IsTree(t2) /\ DOMAIN t2 = DOMAIN t \cup Path(s)
      /\ \A q \in DOMAIN t2 :
           t2[q].self = IF q = s THEN (HadBefore(t, q).self + n) % ByteMod
                                 ELSE HadBefore(t, q).self
  <2>1. IsTree(t2) /\ DOMAIN t2 = DOMAIN t \cup Path(s) /\ Counted(t, s, n, t2)
    BY StackAdded
  <2> QED
    BY <2>1 DEF Counted
<1>2. \A q : HadBefore(t, q).self = IF q \in DOMAIN t THEN t[q].self ELSE 0
  BY DEF HadBefore
<1>3. Summable(f, S) /\ IsFiniteSet(S2) /\ S \subseteq S2
  <2>1. IsFiniteSet(S) /\ IsFiniteSet(S2) /\ S \subseteq S2
    BY <1>1, FS_Subset DEF IsTree
  <2>2. \A q \in S : f[q] \in Int
    BY DEF SelvesIn, IsTree
  <2> QED
    BY <2>1, <2>2 DEF Summable
<1>4. \A q \in S2 : h[q] = IF q = s THEN ((IF q \in S THEN f[q] ELSE 0) + n) % ByteMod
                                    ELSE IF q \in S THEN f[q] ELSE 0
  BY <1>1, <1>2 DEF SelvesIn
<1>5. s \in W => s \in S2
  <2>1. s \in W => s # <<>>
    OBVIOUS
  <2>2. s # <<>> => s \in Path(s)
    BY PathIs
  <2> QED
    BY <1>1, <2>1, <2>2
<1>6. S2 \subseteq W
  OBVIOUS
<1> HIDE DEF f, h, S, S2
<1>7. CASE s \notin W
  <2>1. \A q \in S2 : h[q] = IF q \in S THEN f[q] ELSE 0
    BY <1>4, <1>6, <1>7
  <2>2. SumOver(h, S2) = SumOver(f, S)
    BY <1>3, <2>1, SumSame
  <2> QED
    BY <1>7, <2>2 DEF f, h, S, S2, SelvesOver
<1>8. CASE s \in W
  <2>1. \A q \in S2 \ {s} : h[q] = IF q \in S THEN f[q] ELSE 0
    BY <1>4
  <2>2. s \in S2
    BY <1>5, <1>8
  <2>3. h[s] = ((IF s \in S THEN f[s] ELSE 0) + n) % ByteMod
    BY <1>4, <2>2
  <2>4. SumOver(h, S2) % ByteMod = (SumOver(f, S) + n) % ByteMod
    BY <1>3, <2>1, <2>2, <2>3, SumGrows, SMTT(60)
  <2> QED
    BY <1>8, <2>4 DEF f, h, S, S2, SelvesOver
<1> QED
  BY <1>7, <1>8

-----------------------------------------------------------------------------
(* The tree that is built of the blocks, once their stacks are symbols.     *)

\* The stacks from the first to the n-th are added to one another.
Builds(all, n, g) ==
  g = [s \in SUBSET (1..n) |->
         IF s = {} THEN Empty
         ELSE profile_add_stack_trace(g[s \ {Max(s)}],
                all[Max(s)].stack, all[Max(s)].size)]

LEMMA BuildsExist ==
  ASSUME NEW all, NEW n \in Nat
  PROVE  \E g : Builds(all, n, g)
<1> DEFINE add(t, k) == profile_add_stack_trace(t, all[k].stack,
                                                all[k].size)
           T == {m \in Nat : \E g : Builds(all, m, g)}
<1>1. 0 \in T
  <2> DEFINE g == [s \in {{}} |-> Empty]
  <2>1. SUBSET (1..0) = {{}}
    OBVIOUS
  <2> HIDE DEF add
  <2>2. g = [s \in {{}} |-> IF s = {} THEN Empty ELSE add(g[s \ {Max(s)}], Max(s))]
    OBVIOUS
  <2> HIDE DEF g
  <2>3. Builds(all, 0, g)
    BY <2>1, <2>2 DEF Builds, add
  <2> QED
    BY <2>3
<1>2. ASSUME NEW m \in T PROVE m + 1 \in T
  <2>1. PICK g : Builds(all, m, g)
    OBVIOUS
  <2> DEFINE e(s) == IF s = {} THEN Empty ELSE add(g[s \ {Max(s)}], Max(s))
             h == [s \in SUBSET (1..(m + 1)) |-> e(s)]
  <2>2. g = [s \in SUBSET (1..m) |-> e(s)]
    BY <2>1 DEF Builds
  <2>3. \A s \in SUBSET (1..m) : h[s] = g[s]
    <3>1. \A s \in SUBSET (1..m) : s \in SUBSET (1..(m + 1))
      OBVIOUS
    <3> HIDE DEF e
    <3>2. \A s \in SUBSET (1..m) : g[s] = e(s)
      BY <2>2
    <3>3. \A s \in SUBSET (1..(m + 1)) : h[s] = e(s)
      OBVIOUS
    <3> QED
      BY <3>1, <3>2, <3>3
  <2>4. \A s \in SUBSET (1..(m + 1)) : s # {} => h[s \ {Max(s)}] = g[s \ {Max(s)}]
    <3> HIDE DEF h
    <3> QED
      BY <2>3, MaxFalls
  <2> HIDE DEF add
  <2>5. h = [s \in SUBSET (1..(m + 1)) |->
               IF s = {} THEN Empty ELSE add(h[s \ {Max(s)}], Max(s))]
    BY <2>4
  <2> HIDE DEF h
  <2>6. Builds(all, m + 1, h)
    BY <2>5 DEF Builds, add
  <2> QED
    BY <2>6
<1>3. T \in SUBSET Nat
  OBVIOUS
<1>4. \A m \in Nat : m \in T
  <2> HIDE DEF T
  <2> QED
    BY <1>1, <1>2, <1>3, Induct
<1> QED
  BY <1>4

\* The loop of profile_build_tree, a block after the other.
LEMMA BuildTreeIs ==
  ASSUME NEW all, NEW A, all \in Seq(A)
  PROVE  \E t : /\ t[0] = Empty
                /\ \A k \in 1..Len(all) :
                     t[k] = profile_add_stack_trace(t[k - 1],
                              all[k].stack, all[k].size)
                /\ profile_build_tree(all) = t[Len(all)]
<1> DEFINE L == Len(all)
           add(t, k) == profile_add_stack_trace(t, all[k].stack,
                                                all[k].size)
           Fold(g) == g = [s \in SUBSET (DOMAIN all) |->
                             IF s = {} THEN Empty
                             ELSE LET x == Max(s) IN add(g[s \ {x}], x)]
           c == CHOOSE g : Fold(g)
<1>1. L \in Nat /\ DOMAIN all = 1..L
  OBVIOUS
<1>2. profile_build_tree(all) = c[DOMAIN all]
  BY DEF profile_build_tree, FoldLeft, MapThenFoldSet
<1>3. \A g : Fold(g) <=> Builds(all, L, g)
  BY <1>1 DEF Builds
<1>4. \E g : Builds(all, L, g)
  BY <1>1, BuildsExist
<1> HIDE DEF Fold
<1>5. Builds(all, L, c)
  BY <1>3, <1>4
<1> HIDE DEF c
<1>6. \A s \in SUBSET (1..L) : c[s] = IF s = {} THEN Empty ELSE add(c[s \ {Max(s)}], Max(s))
  <2> DEFINE e(s) == IF s = {} THEN Empty ELSE add(c[s \ {Max(s)}], Max(s))
  <2>1. c = [s \in SUBSET (1..L) |-> e(s)]
    BY <1>5 DEF Builds
  <2> HIDE DEF e
  <2>2. \A s \in SUBSET (1..L) : c[s] = e(s)
    BY <2>1
  <2> QED
    BY <2>2 DEF e
<1> HIDE DEF add, L
<1>7. c[1..0] = Empty
  <2>1. 1..0 = {} /\ 1..0 \in SUBSET (1..L)
    OBVIOUS
  <2> QED
    BY <1>6, <2>1
<1>8. ASSUME NEW k \in 1..L PROVE c[1..k] = add(c[1..(k - 1)], k)
  <2>1. k \in Nat \ {0} /\ 1..k \in SUBSET (1..L)
    BY <1>1
  <2>2. Max(1..k) = k /\ (1..k) \ {k} = 1..(k - 1) /\ 1..k # {}
    BY <2>1, MaxOfRange
  <2> QED
    BY <1>6, <2>1, <2>2
<1> DEFINE t == [k \in 0..L |-> c[1..k]]
<1>9. t[0] = Empty /\ t[L] = c[1..L]
  BY <1>1, <1>7
<1>10. \A k \in 1..L : t[k] = add(t[k - 1], k)
  <2>1. \A k \in 1..L : k \in 0..L /\ k - 1 \in 0..L
    BY <1>1
  <2> QED
    BY <1>8, <2>1
<1> HIDE DEF t
<1> QED
  BY <1>1, <1>2, <1>9, <1>10 DEF add, L

\* The blocks with the symbols that have been looked up.
Listed(all) == all \in Seq([stack : Seq(Symbols), size : Sizes])

\* What a profile keeps of a block.
Report(all, b) == [id |-> b, trace |-> traces[b], size |-> all[b].size, stack |-> all[b].stack]

Reports(all) == {Report(all, b) : b \in DOMAIN all}

LEMMA ReportsAre ==
  ASSUME NEW all, Listed(all)
  PROVE  /\ Len(all) \in Nat /\ DOMAIN all = 1..Len(all)
         /\ \A b \in 1..Len(all) :
              /\ Report(all, b) \in Reports(all)
              /\ Report(all, b).id = b /\ Report(all, b).size = all[b].size
              /\ Report(all, b).stack = all[b].stack
              /\ all[b].size \in Int /\ all[b].stack \in Seq(Symbols)
              /\ SizesIn(Reports(all))[Report(all, b)] = all[b].size
         /\ \A r \in Reports(all) : r.id \in 1..Len(all) /\ r = Report(all, r.id)
         /\ \A r \in Reports(all) : r.stack \in Seq(Symbols)
         /\ Summable(SizesIn(Reports(all)), Reports(all))
<1> DEFINE N == Len(all)
<1>1. N \in Nat /\ DOMAIN all = 1..N
  BY DEF Listed
<1>2. \A b \in 1..N : all[b].size \in Int /\ all[b].stack \in Seq(Symbols)
  <2>1. \A b \in 1..N : all[b] \in [stack : Seq(Symbols), size : Sizes]
    BY ElementOfSeq DEF Listed
  <2>2. Sizes \subseteq Int
    BY ProfileAssumption
  <2> QED
    BY <2>1, <2>2
<1>3. \A b \in 1..N : /\ Report(all, b) \in Reports(all)
                      /\ Report(all, b).id = b /\ Report(all, b).size = all[b].size
                      /\ Report(all, b).stack = all[b].stack
  BY <1>1 DEF Report, Reports
<1>4. \A r \in Reports(all) : r.id \in 1..N /\ r = Report(all, r.id)
  BY <1>1, <1>3 DEF Reports
<1>5. \A r \in Reports(all) : SizesIn(Reports(all))[r] = r.size
  BY DEF SizesIn
<1>6. IsFiniteSet(Reports(all))
  <2> DEFINE f == [b \in 1..N |-> Report(all, b)]
  <2>1. IsFiniteSet(1..N)
    BY <1>1, FS_Interval
  <2>2. f \in Surjection(1..N, Reports(all))
    <3>1. f \in [1..N -> Reports(all)] /\ \A r \in Reports(all) : \E b \in 1..N : f[b] = r
      BY <1>3, <1>4
    <3> HIDE DEF f
    <3> QED
      BY <3>1 DEF Surjection
  <2> QED
    BY <2>1, <2>2, FS_Surjection
<1>7. \A r \in Reports(all) : SizesIn(Reports(all))[r] \in Int
  BY <1>2, <1>3, <1>4, <1>5
<1>8. \A r \in Reports(all) : r.stack \in Seq(Symbols)
  BY <1>2, <1>3, <1>4
<1> QED
  BY <1>1, <1>2, <1>3, <1>4, <1>5, <1>6, <1>7, <1>8 DEF Summable

\* The reports of the first k blocks that are in H.
UpTo(all, H, k) == {r \in Reports(all) : r.id <= k /\ r.id \in H}

\* A number that grows, for one block after the other, by the size of those in H
\* is their sum.
LEMMA Accumulates ==
  ASSUME NEW all, Listed(all), NEW H, NEW w, \A k \in 0..Len(all) : w[k] \in Int, w[0] = 0,
         \A k \in 1..Len(all) :
           /\ k \notin H => w[k] = w[k - 1]
           /\ k \in H => w[k] % ByteMod = (w[k - 1] + all[k].size) % ByteMod
  PROVE  w[Len(all)] % ByteMod = BytesOf({r \in Reports(all) : r.id \in H})
<1> DEFINE N == Len(all)
           f == SizesIn(Reports(all))
           sum(k) == SumOver(f, UpTo(all, H, k))
           T == {k \in Nat : k <= N => w[k] % ByteMod = sum(k) % ByteMod}
<1>0. ByteMod \in Nat \ {0} /\ N \in Nat
  BY ProfileAssumption, ReportsAre
<1>1. \A k : Summable(f, UpTo(all, H, k)) /\ sum(k) \in Int
  <2>1. \A k : Summable(f, UpTo(all, H, k))
    BY ReportsAre, FS_Subset DEF UpTo, Summable
  <2> QED
    BY <2>1, SumType
<1>2. ASSUME NEW k \in 1..N
      PROVE  sum(k) = IF k \in H THEN sum(k - 1) + all[k].size ELSE sum(k - 1)
  <2>1. /\ Report(all, k) \in Reports(all) /\ Report(all, k).id = k /\ f[Report(all, k)] = all[k].size
        /\ \A r \in Reports(all) : r.id \in Nat /\ (r.id = k => r = Report(all, k))
    BY ReportsAre
  <2>2. CASE k \notin H
    <3>1. UpTo(all, H, k) = UpTo(all, H, k - 1)
      BY <2>1, <2>2 DEF UpTo
    <3> QED
      BY <2>2, <3>1
  <2>3. CASE k \in H
    <3>1. Report(all, k) \in UpTo(all, H, k)
      BY <2>1, <2>3 DEF UpTo
    <3>2. UpTo(all, H, k) \ {Report(all, k)} = UpTo(all, H, k - 1)
      BY <2>1 DEF UpTo
    <3> HIDE DEF f
    <3>3. SumOver(f, UpTo(all, H, k)) = SumOver(f, UpTo(all, H, k) \ {Report(all, k)}) + f[Report(all, k)]
      BY <1>1, <3>1, SumAdd
    <3> QED
      BY <2>1, <2>3, <3>2, <3>3
  <2> QED
    BY <2>2, <2>3
<1>3. 0 \in T
  <2>1. UpTo(all, H, 0) = {}
    BY ReportsAre DEF UpTo
  <2>2. sum(0) = 0
    BY <2>1, SumEmpty
  <2> HIDE DEF sum
  <2> QED
    BY <2>2
<1>4. ASSUME NEW k \in T PROVE k + 1 \in T
  <2> SUFFICES ASSUME k + 1 <= N PROVE w[k + 1] % ByteMod = sum(k + 1) % ByteMod
    OBVIOUS
  <2>1. k \in Nat /\ k + 1 \in 1..N /\ k \in 0..N /\ (k + 1) - 1 = k
    <3>1. k \in Nat
      OBVIOUS
    <3> HIDE DEF T, N
    <3> QED
      BY <1>0, <3>1
  <2>2. w[k] % ByteMod = sum(k) % ByteMod /\ w[k] \in Int
    BY <2>1
  <2>3. all[k + 1].size \in Int
    BY <2>1, ReportsAre
  <2>4. PICK n \in Int : n = all[k + 1].size
    BY <2>3
  <2>5. PICK x \in Int : x = w[k]
    BY <2>2
  <2>6. PICK y \in Int : y = sum(k)
    BY <1>1
  <2>7. sum(k + 1) = IF k + 1 \in H THEN sum(k) + n ELSE sum(k)
    BY <1>2, <2>1, <2>4
  <2>8. /\ k + 1 \notin H => w[k + 1] = w[k]
        /\ k + 1 \in H => w[k + 1] % ByteMod = (w[k] + n) % ByteMod
    BY <2>1, <2>4
  <2> HIDE DEF sum, T
  <2>9. (x + n) % ByteMod = (y + n) % ByteMod
    <3>1. ((x % ByteMod) + n) % ByteMod = (x + n) % ByteMod
      BY <1>0, ModAdd
    <3>2. ((y % ByteMod) + n) % ByteMod = (y + n) % ByteMod
      BY <1>0, ModAdd
    <3>3. x % ByteMod = y % ByteMod
      BY <2>2, <2>5, <2>6
    <3> QED
      BY <3>1, <3>2, <3>3
  <2> QED
    BY <2>2, <2>5, <2>6, <2>7, <2>8, <2>9
<1>5. T \in SUBSET Nat
  OBVIOUS
<1>6. \A k \in Nat : k \in T
  <2> HIDE DEF T
  <2> QED
    BY <1>3, <1>4, <1>5, Induct
<1>7. w[N] % ByteMod = sum(N) % ByteMod
  BY <1>0, <1>6
<1>8. UpTo(all, H, N) = {r \in Reports(all) : r.id \in H}
  BY ReportsAre DEF UpTo
<1>9. BytesOf(UpTo(all, H, N)) = SumOver(f, UpTo(all, H, N)) % ByteMod
  <2>1. UpTo(all, H, N) \in SUBSET Reports(all)
    BY DEF UpTo
  <2> QED
    BY <2>1, BytesIs
<1> QED
  BY <1>7, <1>8, <1>9

\* The trees that are built, one block after the other.
LEMMA TreesBuilt ==
  ASSUME NEW all, Listed(all)
  PROVE  \E t : /\ t[0] = Empty /\ profile_build_tree(all) = t[Len(all)]
                /\ \A k \in 0..Len(all) : IsTree(t[k])
                /\ \A k \in 1..Len(all) :
                     t[k] = profile_add_stack_trace(t[k - 1], all[k].stack, all[k].size)
<1> DEFINE N == Len(all)
<1>1. N \in Nat /\ ByteMod \in Nat \ {0}
  BY ReportsAre, ProfileAssumption
<1>3. PICK t : /\ t[0] = Empty /\ profile_build_tree(all) = t[N]
               /\ \A k \in 1..N :
                    t[k] = profile_add_stack_trace(t[k - 1], all[k].stack, all[k].size)
  <2>1. all \in Seq([stack : Seq(Symbols), size : Sizes])
    BY DEF Listed
  <2> QED
    BY <2>1, BuildTreeIs
<1>5. \A k \in 1..N : all[k].stack \in Seq(Symbols) /\ all[k].size \in Int
  BY ReportsAre
<1> DEFINE T == {k \in Nat : k <= N => IsTree(t[k])}
<1>6. 0 \in T
  <2>1. IsTree(Empty)
    <3>1. DOMAIN Empty = {}
      BY DEF Empty
    <3> QED
      BY <3>1, FS_EmptySet DEF IsTree
  <2> QED
    BY <1>3, <2>1
<1>7. ASSUME NEW k \in T PROVE k + 1 \in T
  <2> SUFFICES ASSUME k + 1 <= N PROVE IsTree(t[k + 1])
    OBVIOUS
  <2>1. k + 1 \in 1..N /\ k <= N /\ (k + 1) - 1 = k
    BY <1>1
  <2>2. IsTree(t[k])
    BY <2>1
  <2>3. t[k + 1] = profile_add_stack_trace(t[k], all[k + 1].stack, all[k + 1].size)
    BY <1>3, <2>1
  <2> HIDE DEF T, N
  <2> QED
    BY <1>1, <1>5, <2>1, <2>2, <2>3, StackAdded
<1>8. T \in SUBSET Nat
  OBVIOUS
<1>9. \A k \in Nat : k \in T
  <2> HIDE DEF T
  <2> QED
    BY <1>6, <1>7, <1>8, Induct
<1>10. \A k \in 0..N : IsTree(t[k])
  BY <1>9
<1> QED
  BY <1>3, <1>10

LEMMA TreeSums ==
  ASSUME NEW t, IsTree(t), NEW W
  PROVE  TotalsOver(t, W) \in Int /\ SelvesOver(t, W) \in Int
<1> DEFINE S == DOMAIN t \cap W
<1>1. IsFiniteSet(S)
  BY FS_Subset DEF IsTree
<1>2. \A q \in S : TotalsIn(t)[q] \in Int /\ SelvesIn(t)[q] \in Int
  BY DEF TotalsIn, SelvesIn, IsTree
<1> HIDE DEF S
<1>3. Summable(TotalsIn(t), S) /\ Summable(SelvesIn(t), S)
  BY <1>1, <1>2 DEF Summable
<1>4. SumOver(TotalsIn(t), S) \in Int /\ SumOver(SelvesIn(t), S) \in Int
  BY <1>3, SumType
<1> QED
  BY <1>4 DEF S, TotalsOver, SelvesOver

\* The reports whose stacks pass B, and those whose stacks end in it.
Passing(all, B) == {r \in Reports(all) : ~ Misses(r.stack, B)}
Ending(all, B)  == {r \in Reports(all) : r.stack \in B}

\* The totals of the first nodes of B make up the all whose stacks pass B, and
\* the selfs of the nodes of B those whose stacks end in it.
LEMMA TreeTotals ==
  ASSUME NEW all, Listed(all), NEW tree, tree = profile_build_tree(all),
         NEW B \in SUBSET (Seq(Symbols) \ {<<>>})
  PROVE  /\ IsTree(tree)
         /\ TotalOf(tree, DOMAIN tree \cap First(B))
              = BytesOf(Passing(all, B))
         /\ SelfOf(tree, DOMAIN tree \cap B)
              = BytesOf(Ending(all, B))
<1> DEFINE N == Len(all)
           s(k) == all[k].stack
<1>1. /\ N \in Nat /\ ByteMod \in Nat \ {0}
      /\ \A k \in 1..N : s(k) \in Seq(Symbols) /\ all[k].size \in Int
  BY ReportsAre, ProfileAssumption
<1>2. PICK t : /\ t[0] = Empty /\ tree = t[N]
               /\ \A k \in 0..N : IsTree(t[k])
               /\ \A k \in 1..N : t[k] = profile_add_stack_trace(t[k - 1], s(k), all[k].size)
  BY TreesBuilt
<1>3. IsTree(tree)
  BY <1>1, <1>2
<1>4. \A r \in Reports(all) : r.id \in 1..N /\ r.stack = s(r.id)
  BY ReportsAre
<1>5. DOMAIN Empty = {}
  BY DEF Empty
<1> HIDE DEF N, s
<1>6. TotalOf(tree, DOMAIN tree \cap First(B))
        = BytesOf(Passing(all, B))
  <2> DEFINE W == First(B)
             H == {k \in 1..N : ~ Misses(s(k), B)}
             w == [k \in 0..N |-> TotalsOver(t[k], W)]
  <2>1. \A k \in 0..N : w[k] \in Int
    BY <1>2, TreeSums
  <2>2. w[0] = 0
    <3>1. DOMAIN t[0] \cap W = {} /\ 0 \in 0..N
      BY <1>1, <1>2, <1>5
    <3> QED
      BY <3>1, SumEmpty DEF TotalsOver
  <2>3. ASSUME NEW k \in 1..N
        PROVE  /\ k \notin H => w[k] = w[k - 1]
               /\ k \in H => w[k] % ByteMod = (w[k - 1] + all[k].size) % ByteMod
    <3>1. k \in 0..N /\ k - 1 \in 0..N
      BY <1>1
    <3>2. IF Misses(s(k), B) THEN Misses(s(k), W) ELSE MeetsOnce(s(k), W)
      BY <1>1, FirstIs
    <3>3. /\ w[k] = TotalsOver(t[k], W)
          /\ w[k - 1] = TotalsOver(t[k - 1], W)
      BY <3>1
    <3>4. k \in H <=> ~ Misses(s(k), B)
      OBVIOUS
    <3> HIDE DEF w, W, H
    <3>5. /\ IsTree(t[k - 1]) /\ s(k) \in Seq(Symbols) /\ all[k].size \in Int
          /\ t[k] = profile_add_stack_trace(t[k - 1], s(k), all[k].size)
      BY <1>1, <1>2, <3>1
    <3>6. /\ Misses(s(k), W) => w[k] = w[k - 1]
          /\ MeetsOnce(s(k), W) =>
               w[k] % ByteMod = (w[k - 1] + all[k].size) % ByteMod
      BY <1>1, <3>3, <3>5, TotalsGrow
    <3> QED
      BY <3>2, <3>4, <3>6
  <2> HIDE DEF w
  <2>4. w[N] % ByteMod = BytesOf({r \in Reports(all) : r.id \in H})
    <3> HIDE DEF H
    <3> QED
      BY <2>1, <2>2, <2>3, Accumulates DEF N
  <2>5. {r \in Reports(all) : r.id \in H} = Passing(all, B)
    BY <1>4 DEF Passing
  <2>6. TotalOf(tree, DOMAIN tree \cap W) = TotalsOver(tree, W) % ByteMod
    <3>1. DOMAIN tree \cap W \in SUBSET DOMAIN tree
      OBVIOUS
    <3> QED
      BY <3>1, TotalIs DEF TotalsOver
  <2>7. w[N] = TotalsOver(tree, W)
    BY <1>1, <1>2 DEF w
  <2> QED
    BY <2>4, <2>5, <2>6, <2>7
<1>7. SelfOf(tree, DOMAIN tree \cap B) = BytesOf(Ending(all, B))
  <2> DEFINE H == {k \in 1..N : s(k) \in B}
             w == [k \in 0..N |-> SelvesOver(t[k], B)]
  <2>1. \A k \in 0..N : w[k] \in Int
    BY <1>2, TreeSums
  <2>2. w[0] = 0
    <3>1. DOMAIN t[0] \cap B = {} /\ 0 \in 0..N
      BY <1>1, <1>2, <1>5
    <3> QED
      BY <3>1, SumEmpty DEF SelvesOver
  <2>3. ASSUME NEW k \in 1..N
        PROVE  /\ k \notin H => w[k] = w[k - 1]
               /\ k \in H => w[k] % ByteMod = (w[k - 1] + all[k].size) % ByteMod
    <3>1. k \in 0..N /\ k - 1 \in 0..N
      BY <1>1
    <3>3. /\ w[k] = SelvesOver(t[k], B)
          /\ w[k - 1] = SelvesOver(t[k - 1], B)
      BY <3>1
    <3>4. k \in H <=> s(k) \in B
      OBVIOUS
    <3> HIDE DEF w, H
    <3>5. /\ IsTree(t[k - 1]) /\ s(k) \in Seq(Symbols) /\ all[k].size \in Int
          /\ t[k] = profile_add_stack_trace(t[k - 1], s(k), all[k].size)
      BY <1>1, <1>2, <3>1
    <3>6. /\ s(k) \notin B => w[k] = w[k - 1]
          /\ s(k) \in B => w[k] % ByteMod = (w[k - 1] + all[k].size) % ByteMod
      BY <1>1, <3>3, <3>5, SelvesGrow
    <3> QED
      BY <3>4, <3>6
  <2> HIDE DEF w
  <2>4. w[N] % ByteMod = BytesOf({r \in Reports(all) : r.id \in H})
    <3> HIDE DEF H
    <3> QED
      BY <2>1, <2>2, <2>3, Accumulates DEF N
  <2>5. {r \in Reports(all) : r.id \in H} = Ending(all, B)
    BY <1>4 DEF Ending
  <2>6. SelfOf(tree, DOMAIN tree \cap B) = SelvesOver(tree, B) % ByteMod
    <3>1. DOMAIN tree \cap B \in SUBSET DOMAIN tree
      OBVIOUS
    <3> QED
      BY <3>1, SelfIs DEF SelvesOver
  <2>7. w[N] = SelvesOver(tree, B)
    BY <1>1, <1>2 DEF w
  <2> QED
    BY <2>4, <2>5, <2>6, <2>7
<1> QED
  BY <1>3, <1>6, <1>7

-----------------------------------------------------------------------------
(* The two flat lists.                                                     *)

\* The nodes of a function, and those it was called at by c.
EndsIn(f)  == {q \in Seq(Symbols) \ {<<>>} : Last(q) = f}
Calls(c, f) == {q \in EndsIn(f) : CallerOf(q) = c}

LEMMA PathNodes ==
  ASSUME NEW s \in Seq(Symbols)
  PROVE  /\ \A l \in 1..Len(s) :
              /\ SubSeq(s, 1, l) \in Path(s) /\ SubSeq(s, 1, l) \in Seq(Symbols) \ {<<>>}
              /\ Len(SubSeq(s, 1, l)) = l /\ Last(SubSeq(s, 1, l)) = s[l]
              /\ CallerOf(SubSeq(s, 1, l)) = IF l = 1 THEN <<>> ELSE <<s[l - 1]>>
         /\ \A q \in Path(s) : \E l \in 1..Len(s) : q = SubSeq(s, 1, l)
<1>1. /\ Path(s) = {SubSeq(s, 1, l) : l \in 1..Len(s)} /\ Path(s) \subseteq Seq(Symbols) \ {<<>>}
      /\ \A l \in 1..Len(s) : /\ Len(SubSeq(s, 1, l)) = l
                              /\ \A i \in 1..l : SubSeq(s, 1, l)[i] = s[i]
  BY PathIs
<1>2. ASSUME NEW l \in 1..Len(s)
      PROVE  /\ SubSeq(s, 1, l) \in Path(s) /\ SubSeq(s, 1, l) \in Seq(Symbols) \ {<<>>}
             /\ Len(SubSeq(s, 1, l)) = l /\ Last(SubSeq(s, 1, l)) = s[l]
             /\ CallerOf(SubSeq(s, 1, l)) = IF l = 1 THEN <<>> ELSE <<s[l - 1]>>
  <2> DEFINE q == SubSeq(s, 1, l)
  <2>1. /\ q \in Path(s) /\ q \in Seq(Symbols) \ {<<>>} /\ Len(q) = l
        /\ \A i \in 1..l : q[i] = s[i]
    BY <1>1
  <2> HIDE DEF q
  <2>2. l \in 1..l /\ (l # 1 => l - 1 \in 1..l)
    OBVIOUS
  <2>3. Last(q) = s[l]
    BY <2>1, <2>2 DEF Last
  <2>4. CallerOf(q) = IF l = 1 THEN <<>> ELSE <<s[l - 1]>>
    BY <2>1, <2>2 DEF CallerOf
  <2> QED
    BY <2>1, <2>3, <2>4 DEF q
<1> QED
  BY <1>1, <1>2

\* A stack passes a node of f when f is on it.
LEMMA FunctionPassed ==
  ASSUME NEW s \in Seq(Symbols), NEW f
  PROVE  ~ Misses(s, EndsIn(f)) <=> Contains(s, f)
<1>1. ~ Misses(s, EndsIn(f)) <=> \E q \in Path(s) : q \in EndsIn(f)
  BY DEF Misses
<1>2. (\E q \in Path(s) : q \in EndsIn(f)) <=> \E l \in 1..Len(s) : s[l] = f
  <2>1. ASSUME NEW q \in Path(s), q \in EndsIn(f) PROVE \E l \in 1..Len(s) : s[l] = f
    <3>1. PICK l \in 1..Len(s) : q = SubSeq(s, 1, l)
      BY PathNodes
    <3>2. Last(q) = f
      BY <2>1 DEF EndsIn
    <3>3. Last(q) = s[l]
      BY <3>1, PathNodes
    <3> QED
      BY <3>2, <3>3
  <2>2. ASSUME NEW l \in 1..Len(s), s[l] = f PROVE \E q \in Path(s) : q \in EndsIn(f)
    <3> DEFINE q == SubSeq(s, 1, l)
    <3>1. q \in Path(s) /\ q \in Seq(Symbols) \ {<<>>} /\ Last(q) = s[l]
      BY PathNodes
    <3> HIDE DEF q
    <3> QED
      BY <2>2, <3>1 DEF EndsIn
  <2> QED
    BY <2>1, <2>2
<1> QED
  BY <1>1, <1>2 DEF Contains

\* It passes a node of f called by c when c's call of f is on it.
CalledBy(s, c, f) == \E l \in 1..Len(s) : s[l] = f /\ c = IF l = 1 THEN <<>> ELSE <<s[l - 1]>>

LEMMA CallPassed ==
  ASSUME NEW s \in Seq(Symbols), NEW c, NEW f
  PROVE  ~ Misses(s, Calls(c, f)) <=> CalledBy(s, c, f)
<1>1. ~ Misses(s, Calls(c, f)) <=> \E q \in Path(s) : q \in Calls(c, f)
  BY DEF Misses
<1>2. (\E q \in Path(s) : q \in Calls(c, f)) <=> CalledBy(s, c, f)
  <2>1. ASSUME NEW q \in Path(s), q \in Calls(c, f) PROVE CalledBy(s, c, f)
    <3>1. PICK l \in 1..Len(s) : q = SubSeq(s, 1, l)
      BY PathNodes
    <3>2. Last(q) = f /\ CallerOf(q) = c
      BY <2>1 DEF Calls, EndsIn
    <3>3. Last(q) = s[l] /\ CallerOf(q) = IF l = 1 THEN <<>> ELSE <<s[l - 1]>>
      BY <3>1, PathNodes
    <3> QED
      BY <3>2, <3>3 DEF CalledBy
  <2>2. ASSUME CalledBy(s, c, f) PROVE \E q \in Path(s) : q \in Calls(c, f)
    <3>1. PICK l \in 1..Len(s) : s[l] = f /\ c = IF l = 1 THEN <<>> ELSE <<s[l - 1]>>
      BY <2>2 DEF CalledBy
    <3> DEFINE q == SubSeq(s, 1, l)
    <3>2. /\ q \in Path(s) /\ q \in Seq(Symbols) \ {<<>>} /\ Last(q) = s[l]
          /\ CallerOf(q) = IF l = 1 THEN <<>> ELSE <<s[l - 1]>>
      BY PathNodes
    <3> HIDE DEF q
    <3> QED
      BY <3>1, <3>2 DEF Calls, EndsIn
  <2> QED
    BY <2>1, <2>2
<1> QED
  BY <1>1, <1>2

\* A node is toplevel when none above it is of the same function.
LEMMA ToplevelIs ==
  ASSUME NEW q \in Seq(Symbols) \ {<<>>}, NEW f, Last(q) = f
  PROVE  (Last(q) \notin ToSet(Front(q))) <=> q \in First(EndsIn(f))
<1>0. Len(q) \in Nat \ {0} /\ q \in EndsIn(f)
  BY EmptySeq DEF EndsIn
<1>1. Last(q) \in ToSet(Front(q)) <=> \E l \in 1..(Len(q) - 1) : q[l] = f
  <2>1. \A l \in 1..(Len(q) - 1) : q[l] \in Symbols
    BY <1>0
  <2>2. /\ Front(q) = SubSeq(q, 1, Len(q) - 1) /\ Len(Front(q)) = Len(q) - 1
        /\ DOMAIN Front(q) = 1..(Len(q) - 1)
        /\ \A l \in 1..(Len(q) - 1) : Front(q)[l] = q[l]
    <3>1. Len(q) - 1 \in Nat /\ \A l \in 1..(Len(q) - 1) : l \in 1..Len(q)
      BY <1>0
    <3>2. PICK n \in Nat : n = Len(q) - 1
      BY <3>1
    <3>3. \A l \in 1..n : q[l] \in Symbols
      BY <2>1, <3>2
    <3>4. /\ SubSeq(q, 1, n) \in Seq(Symbols) /\ Len(SubSeq(q, 1, n)) = n
          /\ \A l \in 1..n : SubSeq(q, 1, n)[l] = q[l]
      BY <3>2, <3>3
    <3>5. DOMAIN SubSeq(q, 1, n) = 1..n
      BY <3>4
    <3> QED
      BY <3>2, <3>4, <3>5 DEF Front
  <2>3. ToSet(Front(q)) = {q[l] : l \in 1..(Len(q) - 1)}
    BY <2>2 DEF ToSet
  <2> QED
    BY <2>3
<1>2. q \notin First(EndsIn(f)) <=> \E r \in Path(q) : r \in EndsIn(f) /\ r # q
  BY <1>0 DEF First
<1>3. ASSUME NEW l \in 1..(Len(q) - 1), q[l] = f
      PROVE  \E r \in Path(q) : r \in EndsIn(f) /\ r # q
  <2> DEFINE r == SubSeq(q, 1, l)
  <2>1. l \in 1..Len(q) /\ l # Len(q)
    BY <1>0
  <2>2. r \in Path(q) /\ r \in Seq(Symbols) \ {<<>>} /\ Last(r) = q[l] /\ Len(r) = l
    BY <2>1, PathNodes
  <2> HIDE DEF r
  <2> QED
    BY <1>3, <2>1, <2>2 DEF EndsIn
<1>4. ASSUME NEW r \in Path(q), r \in EndsIn(f), r # q
      PROVE  \E l \in 1..(Len(q) - 1) : q[l] = f
  <2>1. PICK l \in 1..Len(q) : r = SubSeq(q, 1, l)
    BY PathNodes
  <2>2. Last(r) = q[l]
    BY <2>1, PathNodes
  <2>3. l # Len(q)
    BY <1>4, <2>1, SubSeqFull
  <2>4. Last(r) = f
    BY <1>4 DEF EndsIn
  <2>5. l \in 1..(Len(q) - 1)
    BY <1>0, <2>3
  <2> QED
    BY <2>2, <2>4, <2>5
<1> QED
  BY <1>1, <1>2, <1>3, <1>4

\* The topmost pair is the first node with the call.
LEMMA TopPairIs ==
  ASSUME NEW c, NEW f, NEW q \in Calls(c, f)
  PROVE  Path(q) \cap First(Calls(c, f)) = {TopPair(q)}
<1> DEFINE B == Calls(c, f)
           X == {r \in Prefixes(q) : Len(r) >= 2 /\ CallerOf(r) = CallerOf(q) /\ Last(r) = Last(q)}
<1>0. /\ q \in Seq(Symbols) /\ q # <<>> /\ Last(q) = f /\ CallerOf(q) = c
      /\ q \in Path(q) /\ Len(q) \in Nat \ {0}
  BY PathIs, EmptySeq DEF Calls, EndsIn
<1>1. PICK a \in Path(q) \cap B : \A r \in Path(q) \cap B : Len(a) <= Len(r)
  <2>1. ~ Misses(q, B)
    BY <1>0 DEF Misses
  <2> HIDE DEF B
  <2> QED
    BY <1>0, <2>1, Shortest
<1>2. \A b \in Path(q) \cap B :
        (\A r \in Path(q) \cap B : Len(b) <= Len(r)) => Path(q) \cap First(B) = {b}
  BY <1>0, ShortestIs
<1>3. CASE Len(q) = 1
  <2>1. TopPair(q) = q
    BY <1>3 DEF TopPair
  <2>2. \A r \in Path(q) : r = q
    <3> SUFFICES ASSUME NEW r \in Path(q) PROVE r = q
      OBVIOUS
    <3>1. PICK l \in 1..Len(q) : r = SubSeq(q, 1, l)
      BY <1>0, PathNodes
    <3> QED
      BY <1>0, <1>3, <3>1, SubSeqFull
  <2> QED
    BY <1>1, <1>2, <2>1, <2>2
<1>4. CASE Len(q) # 1
  <2>1. X = Path(q) \cap B
    <3>1. ASSUME NEW r \in X PROVE r \in Path(q) \cap B
      <4>1. r \in Prefixes(q) /\ Len(r) >= 2 /\ CallerOf(r) = c /\ Last(r) = f
        BY <1>0
      <4>2. r # <<>>
        <5>1. Len(<<>>) = 0
          OBVIOUS
        <5> QED
          BY <4>1, <5>1
      <4>3. r \in Path(q)
        BY <4>1, <4>2 DEF Path
      <4>4. r \in Seq(Symbols)
        BY <1>0, <4>3, PathIs
      <4> QED
        BY <4>1, <4>2, <4>3, <4>4 DEF Calls, EndsIn
    <3>2. ASSUME NEW r \in Path(q), r \in B PROVE r \in X
      <4>1. r \in Prefixes(q)
        BY DEF Path
      <4>2. Last(r) = f /\ CallerOf(r) = c
        BY <3>2 DEF Calls, EndsIn
      <4>3. c # <<>>
        <5>1. c = <<q[Len(q) - 1]>>
          BY <1>0, <1>4 DEF CallerOf
        <5>2. Len(c) = 1 /\ Len(<<>>) = 0
          BY <5>1
        <5> QED
          BY <5>2
      <4>4. Len(r) # 1
        BY <4>2, <4>3 DEF CallerOf
      <4>5. PICK l \in 1..Len(q) : r = SubSeq(q, 1, l) /\ Len(r) = l
        BY <1>0, PathNodes
      <4>6. Len(r) >= 2
        BY <4>4, <4>5
      <4> QED
        BY <1>0, <4>1, <4>2, <4>6
    <3> QED
      BY <3>1, <3>2
  <2>2. TopPair(q) = CHOOSE r \in X : \A s \in X : Len(r) <= Len(s)
    BY <1>4 DEF TopPair
  <2> HIDE DEF X, B
  <2>3. TopPair(q) \in X /\ \A s \in X : Len(TopPair(q)) <= Len(s)
    BY <1>1, <2>1, <2>2
  <2> QED
    BY <1>2, <2>1, <2>3 DEF B
<1> QED
  BY <1>3, <1>4

\* The reports whose stacks have f on them, or end in it, and those that have a
\* call of f by c on them, or end in one.
ReportsOn(all, f)        == {r \in Reports(all) : Contains(r.stack, f)}
ReportsIn(all, f)        == {r \in Reports(all) : /\ r.stack # <<>>
                                              /\ Last(r.stack) = f}
ReportsCalled(all, c, f) == {r \in Reports(all) : CalledBy(r.stack, c, f)}
ReportsFrom(all, c, f)   == {r \in Reports(all) : /\ r.stack # <<>>
                                              /\ Last(r.stack) = f
                                              /\ CallerOf(r.stack) = c}

LEMMA FunctionList ==
  ASSUME NEW all, Listed(all), NEW tree, tree = profile_build_tree(all), NEW f
  PROVE  /\ add_function(tree, f).total
              = BytesOf(ReportsOn(all, f))
         /\ add_function(tree, f).self
              = BytesOf(ReportsIn(all, f))
<1> DEFINE B == EndsIn(f)
<1>1. B \in SUBSET (Seq(Symbols) \ {<<>>})
  BY DEF EndsIn
<1>2. /\ IsTree(tree)
      /\ TotalOf(tree, DOMAIN tree \cap First(B))
           = BytesOf(Passing(all, B))
      /\ SelfOf(tree, DOMAIN tree \cap B) = BytesOf(Ending(all, B))
  <2> HIDE DEF B
  <2> QED
    BY <1>1, TreeTotals
<1>3. \A r \in Reports(all) : r.stack \in Seq(Symbols)
  BY ReportsAre
<1>4. NodesOf(tree, f) = DOMAIN tree \cap B
  BY <1>2 DEF NodesOf, IsTree, EndsIn
<1>5. {q \in NodesOf(tree, f) : tree[q].toplevel} = DOMAIN tree \cap First(B)
  <2>1. First(B) \subseteq B
    BY DEF First
  <2>2. ASSUME NEW q \in NodesOf(tree, f) PROVE tree[q].toplevel <=> q \in First(B)
    <3>1. /\ q \in Seq(Symbols) \ {<<>>} /\ Last(q) = f
          /\ tree[q].toplevel = (Last(q) \notin ToSet(Front(q)))
      BY <1>2 DEF NodesOf, IsTree
    <3> QED
      BY <3>1, ToplevelIs
  <2> HIDE DEF B
  <2> QED
    BY <1>4, <2>1, <2>2
<1>6. Passing(all, B) = ReportsOn(all, f)
  BY <1>3, FunctionPassed DEF Passing, ReportsOn
<1>7. Ending(all, B) = ReportsIn(all, f)
  BY <1>3 DEF EndsIn, Ending, ReportsIn
<1> HIDE DEF B
<1>8. /\ add_function(tree, f).total = TotalOf(tree, DOMAIN tree \cap First(B))
      /\ add_function(tree, f).self = SelfOf(tree, DOMAIN tree \cap B)
  BY <1>4, <1>5 DEF add_function
<1> QED
  BY <1>2, <1>6, <1>7, <1>8

LEMMA CallerList ==
  ASSUME NEW all, Listed(all), NEW tree, tree = profile_build_tree(all), NEW f,
         NEW c \in DOMAIN profile_func_create_caller_list(tree, f)
  PROVE  /\ profile_func_create_caller_list(tree, f)[c].total
              = BytesOf(ReportsCalled(all, c, f))
         /\ profile_func_create_caller_list(tree, f)[c].self
              = BytesOf(ReportsFrom(all, c, f))
         /\ c # <<>> => \E g : c = <<g>>
<1> DEFINE B == Calls(c, f)
           nodes == {q \in NodesOf(tree, f) : CallerOf(q) = c}
<1>1. B \in SUBSET (Seq(Symbols) \ {<<>>})
  BY DEF Calls, EndsIn
<1>2. /\ IsTree(tree)
      /\ TotalOf(tree, DOMAIN tree \cap First(B))
           = BytesOf(Passing(all, B))
      /\ SelfOf(tree, DOMAIN tree \cap B) = BytesOf(Ending(all, B))
  <2> HIDE DEF B
  <2> QED
    BY <1>1, TreeTotals
<1>3. \A r \in Reports(all) : r.stack \in Seq(Symbols)
  BY ReportsAre
<1>4. nodes = DOMAIN tree \cap B
  BY <1>2 DEF NodesOf, IsTree, Calls, EndsIn
<1>5. {TopPair(q) : q \in nodes} = DOMAIN tree \cap First(B)
  <2>1. First(B) \subseteq B
    BY DEF First
  <2>2. ASSUME NEW q \in DOMAIN tree \cap B
        PROVE  /\ TopPair(q) \in DOMAIN tree \cap First(B)
               /\ q \in First(B) => TopPair(q) = q
    <3>1. Path(q) \cap First(B) = {TopPair(q)}
      BY <2>2, TopPairIs
    <3>2. Path(q) \subseteq DOMAIN tree
      BY <1>2 DEF IsTree
    <3>3. q \in Path(q)
      BY <1>1, PathIs
    <3> HIDE DEF B
    <3> QED
      BY <3>1, <3>2, <3>3
  <2> HIDE DEF B, nodes
  <2> QED
    BY <1>4, <2>1, <2>2
<1>6. Passing(all, B) = ReportsCalled(all, c, f)
  BY <1>3, CallPassed DEF Passing, ReportsCalled
<1>7. Ending(all, B) = ReportsFrom(all, c, f)
  BY <1>3 DEF Calls, EndsIn, Ending, ReportsFrom
<1>8. c # <<>> => \E g : c = <<g>>
  BY DEF profile_func_create_caller_list, CallerOf
<1> HIDE DEF B
<1>9. /\ profile_func_create_caller_list(tree, f)[c].total = TotalOf(tree, {TopPair(q) : q \in nodes})
      /\ profile_func_create_caller_list(tree, f)[c].self = SelfOf(tree, nodes)
  BY DEF profile_func_create_caller_list
<1> HIDE DEF nodes
<1> QED
  BY <1>2, <1>4, <1>5, <1>6, <1>7, <1>8, <1>9

LEMMA CalledAlone ==
  ASSUME NEW s \in Seq(Symbols), NEW f
  PROVE  CalledBy(s, <<>>, f) <=> s # <<>> /\ s[1] = f
<1>1. Len(s) \in Nat /\ (s # <<>> <=> 1 \in 1..Len(s))
  BY EmptySeq
<1>2. \A g : <<g>> # <<>>
  OBVIOUS
<1>3. \A l \in 1..Len(s) : (<<>> = IF l = 1 THEN <<>> ELSE <<s[l - 1]>>) <=> l = 1
  BY <1>2
<1> QED
  BY <1>1, <1>3 DEF CalledBy

LEMMA CalledFrom ==
  ASSUME NEW s \in Seq(Symbols), NEW f, NEW g
  PROVE  CalledBy(s, <<g>>, f) <=> \E i \in 2..Len(s) : s[i] = f /\ s[i - 1] = g
<1>1. Len(s) \in Nat
  OBVIOUS
<1>2. <<g>> # <<>> /\ \A h : <<g>> = <<h>> <=> g = h
  <2>1. \A h : <<h>>[1] = h
    OBVIOUS
  <2> QED
    BY <2>1
<1>3. \A l \in 1..Len(s) :
        (<<g>> = IF l = 1 THEN <<>> ELSE <<s[l - 1]>>) <=> l # 1 /\ s[l - 1] = g
  BY <1>2
<1>4. \A l : l \in 2..Len(s) <=> l \in 1..Len(s) /\ l # 1
  BY <1>1
<1> QED
  BY <1>3, <1>4 DEF CalledBy

-----------------------------------------------------------------------------
(* One entry for each function, when there was one list of maps.           *)

LEMMA OneString ==
  ASSUME NEW L0, NEW n \in Nat, n + (IF L0 = {} THEN 0 ELSE 1) <= 1, NULL \notin Objects,
         NEW y \in Strings(L0, n), NEW z \in Strings(L0, n), SameFunction(y, z)
  PROVE  y = z
<1> DEFINE r == IF L0 = {} THEN 1 ELSE 0
<1>1. ASSUME NEW x \in Strings(L0, n)
      PROVE  /\ x = UnknownMap => x.object \notin Objects
             /\ x # UnknownMap => x \in Pointers /\ x.object \in Objects /\ x.reading = r
  <2>1. CASE x = UnknownMap
    BY <2>1 DEF UnknownMap
  <2>2. CASE x # UnknownMap
    <3>1. x \in Pointers /\ x.reading \in 0..n /\ (x.reading = 0 => L0 # {})
      BY <2>2 DEF Strings
    <3>2. x.object \in Objects
      BY <3>1 DEF Pointers
    <3>3. x.reading = r
      BY <3>1
    <3> QED
      BY <2>2, <3>1, <3>2, <3>3
  <2> QED
    BY <2>1, <2>2
<1>2. y.object = z.object /\ y.name = z.name
  BY DEF SameFunction
<1> HIDE DEF r
<1>3. CASE y = UnknownMap
  <2>1. z.object \notin Objects
    BY <1>1, <1>2, <1>3
  <2> QED
    BY <1>1, <1>3, <2>1
<1>4. CASE y # UnknownMap
  <2>1. /\ y \in Pointers /\ y.object \in Objects /\ y.reading = r
        /\ z \in Pointers /\ z.reading = r
    <3>1. y \in Pointers /\ y.object \in Objects /\ y.reading = r
      BY <1>1, <1>4
    <3>2. z.object \in Objects
      BY <1>2, <3>1
    <3> QED
      BY <1>1, <3>1, <3>2
  <2> QED
    BY <1>2, <2>1 DEF Pointers
<1> QED
  BY <1>3, <1>4

\* The nodes of the tree are symbols of the stacks.
LastIn(t, V) == \A q \in DOMAIN t : Last(q) \in V

LEMMA NodesFrom ==
  ASSUME NEW all, Listed(all), NEW V, \A k \in 1..Len(all) : all[k].stack \in Seq(V)
  PROVE  LastIn(profile_build_tree(all), V)
<1> DEFINE N == Len(all)
<1>1. /\ N \in Nat /\ ByteMod \in Nat \ {0}
      /\ \A k \in 1..N : all[k].stack \in Seq(Symbols) /\ all[k].size \in Int
  BY ReportsAre, ProfileAssumption
<1>2. PICK t : /\ t[0] = Empty /\ profile_build_tree(all) = t[N]
               /\ \A k \in 0..N : IsTree(t[k])
               /\ \A k \in 1..N :
                    t[k] = profile_add_stack_trace(t[k - 1], all[k].stack, all[k].size)
  BY TreesBuilt
<1> DEFINE T == {k \in Nat : k <= N => LastIn(t[k], V)}
<1>3. 0 \in T
  <2>1. DOMAIN t[0] = {}
    BY <1>2 DEF Empty
  <2> QED
    BY <2>1 DEF LastIn
<1>4. ASSUME NEW k \in T PROVE k + 1 \in T
  <2> SUFFICES ASSUME k + 1 <= N PROVE LastIn(t[k + 1], V)
    OBVIOUS
  <2>1. k + 1 \in 1..N /\ k \in 0..N /\ k <= N /\ (k + 1) - 1 = k
    BY <1>1
  <2>2. LastIn(t[k], V) /\ IsTree(t[k])
    BY <1>2, <2>1
  <2>3. t[k + 1] = profile_add_stack_trace(t[k], all[k + 1].stack, all[k + 1].size)
    BY <1>2, <2>1
  <2>4. PICK s \in Seq(Symbols) : s = all[k + 1].stack
    BY <1>1, <2>1
  <2>5. s \in Seq(V)
    BY <2>1, <2>4
  <2> HIDE DEF T, N
  <2>6. DOMAIN t[k + 1] = DOMAIN t[k] \cup Path(s)
    <3>1. all[k + 1].size \in Int /\ t[k + 1] = profile_add_stack_trace(t[k], s, all[k + 1].size)
      BY <1>1, <2>1, <2>3, <2>4
    <3>2. IsTree(t[k + 1]) /\ DOMAIN t[k + 1] = DOMAIN t[k] \cup Path(s)
          /\ Counted(t[k], s, all[k + 1].size, t[k + 1])
      BY <1>1, <2>2, <3>1, StackAdded
    <3> QED
      BY <3>2
  <2>7. ASSUME NEW q \in Path(s) PROVE Last(q) \in V
    <3>1. PICK l \in 1..Len(s) : q = SubSeq(s, 1, l)
      BY PathNodes
    <3>2. Last(q) = s[l]
      BY <3>1, PathNodes
    <3>3. s[l] \in V
      BY <2>5, ElementOfSeq
    <3> QED
      BY <3>2, <3>3
  <2> QED
    BY <2>2, <2>6, <2>7 DEF LastIn
<1>5. T \in SUBSET Nat
  OBVIOUS
<1>6. \A k \in Nat : k \in T
  <2> HIDE DEF T
  <2> QED
    BY <1>3, <1>4, <1>5, Induct
<1> QED
  BY <1>1, <1>2, <1>6

\* A profile that is made has these lists.
LEMMA FlatMade ==
  ASSUME StashInv, NEW skip, NEW now \in Readings, generate_profile_cb(skip, now),
         profile' # NULL
  PROVE  FlatTotals'
<1> DEFINE sym == Symbolized(skip, now)
           all == sym.stacks
           tree == profile_build_tree(all)
           L0 == process.map_list
           V == Strings(L0, sym.process.readings)
<1>1. /\ profile'.tree = tree
      /\ profile'.functions = [f \in {Last(q) : q \in DOMAIN tree} |-> add_function(tree, f)]
      /\ made'.lists = Len(now) + (IF L0 = {} THEN 0 ELSE 1)
      /\ made'.reports = {[id |-> b, trace |-> traces[b], size |-> blocks[b].size,
                           stack |-> all[b].stack] : b \in DOMAIN blocks}
      /\ sym.process.readings = Len(now)
  BY DEF generate_profile_cb, profile_create
<1>2. Stacked(Len(blocks), sym)
  BY SymbolizedIs
<1> HIDE DEF sym
<1>3. /\ sym.process.readings \in Nat /\ V \subseteq Symbols /\ all \in Seq([stack : Seq(V), size : Sizes])
      /\ Len(all) = Len(blocks) /\ \A b \in 1..Len(blocks) : all[b].size = blocks[b].size
  <2>1. sym.process.readings \in Nat
    BY <1>2 DEF Stacked, Cache
  <2>2. V \subseteq Symbols
    BY <2>1, StringsAre
  <2> QED
    BY <1>2, <2>1, <2>2 DEF Stacked
<1> HIDE DEF V, all, tree, L0
<1>4. Listed(all)
  <2>1. Seq(V) \subseteq Seq(Symbols)
    BY <1>3
  <2> DEFINE X == [stack : Seq(V), size : Sizes]
             Y == [stack : Seq(Symbols), size : Sizes]
  <2>2. X \subseteq Y
    BY <2>1
  <2>3. all \in Seq(X)
    BY <1>3
  <2> HIDE DEF X, Y
  <2>4. all \in Seq(Y)
    BY <2>2, <2>3
  <2> QED
    BY <2>4 DEF Listed, Y
<1>5. made'.reports = Reports(all)
  <2>1. DOMAIN blocks = 1..Len(blocks) /\ DOMAIN all = 1..Len(all)
    BY <1>4 DEF StashInv, Listed
  <2>2. \A b \in DOMAIN blocks :
          [id |-> b, trace |-> traces[b], size |-> blocks[b].size, stack |-> all[b].stack]
            = Report(all, b)
    BY <1>3, <2>1 DEF Report
  <2>3. DOMAIN all = DOMAIN blocks
    BY <1>3, <2>1
  <2> QED
    BY <1>1, <2>2, <2>3 DEF Reports
<1>6. \A r \in Reports(all) : Seen(r)' = r.stack /\ r.stack \in Seq(Symbols)
  BY <1>4, ReportsAre DEF Seen
<1>7. FunctionTotals'
  <2>1. ASSUME NEW f \in DOMAIN profile'.functions
        PROVE  /\ profile'.functions[f].total
                    = BytesOf({r \in made'.reports : Contains(Seen(r)', f)})
               /\ profile'.functions[f].self
                    = BytesOf({r \in made'.reports : Seen(r)' # <<>> /\ Last(Seen(r)') = f})
    <3>1. profile'.functions[f] = add_function(tree, f)
      BY <1>1
    <3>2. /\ add_function(tree, f).total = BytesOf(ReportsOn(all, f))
          /\ add_function(tree, f).self
               = BytesOf(ReportsIn(all, f))
      BY <1>4, FunctionList DEF tree
    <3>3. /\ {r \in made'.reports : Contains(Seen(r)', f)} = ReportsOn(all, f)
          /\ {r \in made'.reports : Seen(r)' # <<>> /\ Last(Seen(r)') = f}
               = ReportsIn(all, f)
      BY <1>5, <1>6 DEF ReportsOn, ReportsIn
    <3> QED
      BY <3>1, <3>2, <3>3
  <2> QED
    BY <2>1 DEF FunctionTotals, Bytes
<1>8. CallerTotals'
  <2>1. ASSUME NEW f \in DOMAIN profile'.functions,
               NEW c \in DOMAIN profile_func_create_caller_list(tree, f)
        PROVE  /\ profile_func_create_caller_list(tree, f)[c].total =
                    (IF c = <<>>
                     THEN BytesOf({r \in made'.reports : Seen(r)' # <<>> /\ Seen(r)'[1] = f})
                     ELSE BytesOf({r \in made'.reports :
                            \E i \in 2..Len(Seen(r)') : Seen(r)'[i] = f /\ Seen(r)'[i - 1] = c[1]}))
               /\ profile_func_create_caller_list(tree, f)[c].self =
                    BytesOf({r \in made'.reports :
                      Seen(r)' # <<>> /\ Last(Seen(r)') = f /\ CallerOf(Seen(r)') = c})
    <3> DEFINE callers == profile_func_create_caller_list(tree, f)
    <3>1. /\ callers[c].total = BytesOf(ReportsCalled(all, c, f))
          /\ callers[c].self
               = BytesOf(ReportsFrom(all, c, f))
          /\ c # <<>> => \E g : c = <<g>>
      BY <1>4, CallerList DEF tree
    <3> HIDE DEF callers
    <3>2. {r \in made'.reports : Seen(r)' # <<>> /\ Last(Seen(r)') = f /\ CallerOf(Seen(r)') = c}
            = ReportsFrom(all, c, f)
      BY <1>5, <1>6 DEF ReportsFrom
    <3>3. CASE c = <<>>
      <4>1. {r \in made'.reports : Seen(r)' # <<>> /\ Seen(r)'[1] = f}
              = ReportsCalled(all, c, f)
        BY <1>5, <1>6, <3>3, CalledAlone DEF ReportsCalled
      <4> QED
        BY <3>1, <3>2, <3>3, <4>1 DEF callers
    <3>4. CASE c # <<>>
      <4>1. PICK g : c = <<g>>
        BY <3>1, <3>4
      <4>2. c[1] = g
        BY <4>1
      <4>3. {r \in made'.reports :
               \E i \in 2..Len(Seen(r)') : Seen(r)'[i] = f /\ Seen(r)'[i - 1] = c[1]}
              = ReportsCalled(all, c, f)
        <5>1. \A r \in Reports(all) : CalledBy(r.stack, c, f)
                <=> \E i \in 2..Len(r.stack) : r.stack[i] = f /\ r.stack[i - 1] = c[1]
          <6> SUFFICES ASSUME NEW r \in Reports(all)
                       PROVE  CalledBy(r.stack, c, f)
                                <=> \E i \in 2..Len(r.stack) : r.stack[i] = f /\ r.stack[i - 1] = c[1]
            OBVIOUS
          <6>1. PICK s \in Seq(Symbols) : s = r.stack
            BY <1>6
          <6>2. CalledBy(s, <<g>>, f) <=> \E i \in 2..Len(s) : s[i] = f /\ s[i - 1] = g
            BY CalledFrom
          <6> QED
            BY <4>1, <4>2, <6>1, <6>2
        <5>2. {r \in made'.reports :
                 \E i \in 2..Len(Seen(r)') : Seen(r)'[i] = f /\ Seen(r)'[i - 1] = c[1]}
                = {r \in Reports(all) : \E i \in 2..Len(r.stack) : r.stack[i] = f /\ r.stack[i - 1] = c[1]}
          BY <1>5, <1>6
        <5>3. {r \in Reports(all) : \E i \in 2..Len(r.stack) : r.stack[i] = f /\ r.stack[i - 1] = c[1]}
                = {r \in Reports(all) : CalledBy(r.stack, c, f)}
          BY <5>1
        <5> QED
          BY <5>2, <5>3 DEF ReportsCalled
      <4> QED
        BY <3>1, <3>2, <3>4, <4>3 DEF callers
    <3> QED
      BY <3>3, <3>4
  <2> QED
    BY <1>1, <2>1 DEF CallerTotals, Bytes
<1>9. OneEntryEach'
  <2>1. ASSUME made'.lists <= 1, NEW f \in DOMAIN profile'.functions,
               NEW g \in DOMAIN profile'.functions, SameFunction(f, g)
        PROVE  f = g
    <3>1. \A k \in 1..Len(all) : all[k].stack \in Seq(V)
      <4>1. \A k \in 1..Len(all) : all[k] \in [stack : Seq(V), size : Sizes]
        BY <1>3, ElementOfSeq
      <4> QED
        BY <4>1
    <3>2. LastIn(tree, V)
      BY <1>4, <3>1, NodesFrom DEF tree
    <3>3. f \in V /\ g \in V
      BY <1>1, <3>2 DEF LastIn
    <3>4. sym.process.readings + (IF L0 = {} THEN 0 ELSE 1) <= 1
      BY <1>1, <2>1
    <3> QED
      BY <1>3, <2>1, <3>3, <3>4, OneString, ProfileAssumption DEF V
  <2> QED
    BY <2>1 DEF OneEntryEach
<1> QED
  BY <1>7, <1>8, <1>9 DEF FlatTotals

\* In every profile that is made, of whatever stacks, with whatever functions
\* skipped and however often the maps are read meanwhile, and as long as it is shown:
\* an entry's total is the bytes of the blocks in whose stacks that symbol was found,
\* once each however deep it recursed, and a caller's those with its call of it; the
\* selfs are those of the blocks allocated in it.  When all symbols are from one
\* reading of the maps a function has a single entry, and these are the totals of
\* the function; when they are not it can have several, and its total is split.
THEOREM FlatListsAreSums == ProfSpec => []FlatTotals
<1>1. ProfInit => FlatTotals
  BY DEF ProfInit, FlatTotals, FunctionTotals, CallerTotals, OneEntryEach
<1>2. StashInv /\ FlatTotals /\ [ProfNext]_profVars => FlatTotals'
  <2> SUFFICES ASSUME StashInv, FlatTotals, [ProfNext]_profVars PROVE FlatTotals'
    OBVIOUS
  <2>1. CASE UNCHANGED <<profile, made>>
    <3>1. profile' = profile /\ made' = made
      BY <2>1
    <3>2. FunctionTotals <=> FunctionTotals'
      BY <3>1 DEF FunctionTotals, Bytes, Seen
    <3>3. CallerTotals <=> CallerTotals'
      BY <3>1 DEF CallerTotals, Bytes, Seen
    <3>4. OneEntryEach <=> OneEntryEach'
      BY <3>1 DEF OneEntryEach
    <3> QED
      BY <3>2, <3>3, <3>4 DEF FlatTotals
  <2>2. CASE profile' = NULL
    BY <2>2 DEF FlatTotals, FunctionTotals, CallerTotals, OneEntryEach
  <2>3. CASE \E skip \in SkipSets, now \in Readings : generate_profile_cb(skip, now)
    BY <2>2, <2>3, FlatMade
  <2>4. CASE reset_profile_cb
    BY <2>2, <2>4 DEF reset_profile_cb
  <2> QED
    BY <2>1, <2>3, <2>4
       DEF ProfNext, profVars, Allocated, profile_write, find_line, read_sections
<1> QED
  BY <1>1, <1>2, StashStarts, StashStep, PTL DEF ProfSpec

=============================================================================

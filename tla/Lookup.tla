------------------------------- MODULE Lookup -------------------------------
(***************************************************************************)
(* From an address in a stack to a function's name (src/process.c): the    *)
(* list of maps that memprof keeps, the pages it has given up on, the       *)
(* symbols it reads when a map is first used, and the binary search of     *)
(* process_locate_symbol, one iteration a step.                            *)
(*                                                                         *)
(* The program maps and unmaps code as it likes, and can die.  A lookup is *)
(* for an address in a page that has held code since the last reset, as    *)
(* the addresses in a block's stack are.  A map is a record: where it is,  *)
(* whether its file is the program itself, the addresses the file gives    *)
(* its functions, and by how much they are displaced in memory.            *)
(***************************************************************************)
EXTENDS Integers, Sequences, FiniteSets, SequencesExt

CONSTANTS
  Maps,      \* the executable mappings that can appear in /proc/<pid>/maps
  PageSize,  \* MP_PAGE_SIZE
  UIntMod,   \* the range of a guint
  None       \* NULL

Ends(m)     == m.addr + m.size
Within(m)   == m.addr .. (Ends(m) - 1)
Page(a)     == a - (a % PageSize)
Apart(m, n) == Ends(m) <= n.addr \/ Ends(n) <= m.addr

ASSUME LookupAssumption ==
  /\ PageSize \in Nat \ {0} /\ UIntMod \in Nat \ {0}
  /\ None \notin Maps
  /\ \A m \in Maps :
       m.addr \in Nat /\ m.size \in Nat \ {0} /\ m.exe \in BOOLEAN /\ m.bias \in {0, m.addr}

\* The kernel maps whole pages.
ASSUME PageAssumption ==
  \A m \in Maps : \A a \in Within(m) : Page(a)..(Page(a) + PageSize - 1) \subseteq Within(m)

\* prepare_map: the functions of the file, sorted by address.
Sorted(S) == SetToSortSeq(S, <)

Ordered(s) == \A i, j \in DOMAIN s : i <= j => s[i] <= s[j]

\* What qsort returns; and the sum of two indices fits into a guint.
ASSUME SortAssumption ==
  \A m \in Maps : LET s == Sorted(m.functions) IN
    s \in Seq(Nat) /\ Ordered(s) /\ 2 * Len(s) < UIntMod

\* A library is displaced by the address it is mapped at.  A program that is, and
\* has functions, lies above the addresses its file gives them; one that is not
\* holds them.
ASSUME BiasAssumption ==
  \A m \in Maps : LET s == Sorted(m.functions) IN
    /\ ~m.exe => m.bias = m.addr
    /\ m.exe /\ s # <<>> => (m.bias # 0 <=> m.addr > s[Len(s)])

VARIABLES
  mapped,    \* the program's mappings
  ran,       \* the pages that have held code since the last reset
  unmapped,  \* whether something was unmapped since then
  alive,     \* whether /proc/<pid> exists
  map_list,  \* MPProcess.map_list, the maps memprof has read
  bad_pages, \* MPProcess.bad_pages
  at,        \* memprof: "idle", "search", "answer" or "SIGSEGV"
  asked,     \* the address being looked up
  map,       \* the map it was found in, or None
  data,      \* map->symbols, sorted by address
  addr,      \* the address the search compares
  first, last, \* the search
  found      \* the symbol answered, an index into data, or None

programVars == <<mapped, ran, unmapped, alive>>
cacheVars   == <<map_list, bad_pages>>
searchVars  == <<map, data, addr, first, last, found>>
lookupVars  == <<programVars, cacheVars, at, asked, searchVars>>

-----------------------------------------------------------------------------
(* The program. *)

Mmap(m) ==
  /\ alive /\ \A n \in mapped : Apart(m, n)
  /\ mapped' = mapped \cup {m}
  /\ ran' = ran \cup {Page(a) : a \in Within(m)}
  /\ UNCHANGED <<unmapped, alive, cacheVars, at, asked, searchVars>>

Munmap(m) ==
  /\ alive /\ m \in mapped
  /\ mapped' = mapped \ {m} /\ unmapped' = TRUE
  /\ UNCHANGED <<ran, alive, cacheVars, at, asked, searchVars>>

Die ==
  /\ alive /\ alive' = FALSE
  /\ UNCHANGED <<mapped, ran, unmapped, cacheVars, at, asked, searchVars>>

\* process_clear_input forgets the maps and the bad pages.
process_clear_input ==
  /\ at = "idle"
  /\ map_list' = {} /\ bad_pages' = {}
  /\ unmapped' = FALSE /\ ran' = UNION {{Page(a) : a \in Within(m)} : m \in mapped}
  /\ UNCHANGED <<mapped, alive, at, asked, searchVars>>

-----------------------------------------------------------------------------
(* Finding the map. *)

\* real_locate_map
real_locate_map(list, a) ==
  IF \E m \in list : a \in Within(m)
  THEN CHOOSE m \in list : a \in Within(m)
  ELSE None

ExeOnly_do_offset(m, symbols) == ~m.exe

\* process_read_maps sets do_offset for every file but the program's own;
\* "Check for position independent executable" is for that one.
do_offset(m, symbols) ==
  ~m.exe \/ (symbols # <<>> /\ m.addr > symbols[Len(symbols)])

\* process_locate_symbol, once it has the map: no symbols, the last symbol, or
\* the search among the others.
Begin(m, a) ==
  LET symbols == Sorted(m.functions)
      val     == IF do_offset(m, symbols) THEN a - m.addr ELSE a
      top     == Len(symbols) - 1
  IN
  /\ map' = m /\ data' = symbols /\ addr' = val /\ first' = 0
  /\ IF symbols = <<>> THEN last' = 0 /\ found' = None /\ at' = "answer"
     ELSE IF val < symbols[top + 1] THEN last' = top /\ found' = None /\ at' = "search"
     ELSE last' = top /\ found' = top /\ at' = "answer"

\* locate_map finds the address in the list it has ...
Hit(a) ==
  /\ real_locate_map(map_list, a) # None
  /\ Begin(real_locate_map(map_list, a), a)
  /\ UNCHANGED <<map_list, bad_pages>>

Unknown(a) ==
  /\ map' = None /\ data' = <<>> /\ addr' = a /\ first' = 0 /\ last' = 0
  /\ found' = None /\ at' = "answer"

\* ... or knows that the page is bad ...
BadPage(a) ==
  /\ real_locate_map(map_list, a) = None /\ Page(a) \in bad_pages
  /\ Unknown(a)
  /\ UNCHANGED cacheVars

\* The mutated form takes the page for bad without reading the maps again.
NoRead_Reread(a) ==
  /\ real_locate_map(map_list, a) = None /\ Page(a) \notin bad_pages /\ alive
  /\ Unknown(a)
  /\ map_list' = mapped
  /\ bad_pages' = bad_pages \cup {Page(a)}

\* ... or reads /proc/<pid>/maps again and then has it, or never will.
Reread(a) ==
  /\ real_locate_map(map_list, a) = None /\ Page(a) \notin bad_pages /\ alive
  /\ map_list' = mapped
  /\ IF real_locate_map(mapped, a) # None
     THEN /\ Begin(real_locate_map(mapped, a), a)
          /\ UNCHANGED bad_pages
     ELSE /\ Unknown(a)
          /\ bad_pages' = bad_pages \cup {Page(a)}

\* When the process is gone there is no such file, fopen returns NULL, and
\* process_read_maps passes it to fgets.
RereadDead(a) ==
  /\ real_locate_map(map_list, a) = None /\ Page(a) \notin bad_pages /\ ~alive
  /\ at' = "SIGSEGV"
  /\ UNCHANGED <<cacheVars, searchVars>>

process_locate_symbol(a) ==
  /\ at = "idle" /\ Page(a) \in ran
  /\ asked' = a
  /\ Hit(a) \/ BadPage(a) \/ Reread(a) \/ RereadDead(a)
  /\ UNCHANGED programVars

\* process_sections, for the leak detector: every map, read and prepared.
process_sections ==
  /\ at = "idle" /\ alive
  /\ map_list' = mapped
  /\ UNCHANGED <<programVars, bad_pages, at, asked, searchVars>>

-----------------------------------------------------------------------------
(* The search: data[i] of the code is data[i + 1]. *)

NoStop_Searching == first < last

Searching == first < (last - 1) % UIntMod

Exclusive_Lower(middle) == last' = middle - 1 /\ UNCHANGED first

\* The half that is kept.
Lower(middle) == last' = middle /\ UNCHANGED first
Upper(middle) == first' = middle /\ UNCHANGED last

AtMost_Before(middle) == addr <= data[middle + 1]

Before(middle) == addr < data[middle + 1]

Narrow ==
  /\ at = "search" /\ Searching
  /\ LET middle == ((first + last) % UIntMod) \div 2 IN
     IF Before(middle) THEN Lower(middle) ELSE Upper(middle)
  /\ UNCHANGED <<programVars, cacheVars, at, asked, map, data, addr, found>>

Last_Found ==
  /\ at = "search" /\ ~Searching
  /\ found' = last /\ at' = "answer"
  /\ UNCHANGED <<programVars, cacheVars, asked, map, data, addr, first, last>>

Found ==
  /\ at = "search" /\ ~Searching
  /\ found' = first /\ at' = "answer"
  /\ UNCHANGED <<programVars, cacheVars, asked, map, data, addr, first, last>>

Return ==
  /\ at = "answer" /\ at' = "idle"
  /\ asked' = 0 /\ map' = None /\ data' = <<>> /\ addr' = 0
  /\ first' = 0 /\ last' = 0 /\ found' = None
  /\ UNCHANGED <<programVars, cacheVars>>

-----------------------------------------------------------------------------
LookupInit ==
  /\ mapped = {} /\ ran = {} /\ unmapped = FALSE /\ alive = TRUE
  /\ map_list = {} /\ bad_pages = {}
  /\ at = "idle" /\ asked = 0
  /\ map = None /\ data = <<>> /\ addr = 0 /\ first = 0 /\ last = 0 /\ found = None

Addresses == UNION {Within(m) : m \in Maps}

LookupNext ==
  \/ \E m \in Maps : Mmap(m) \/ Munmap(m)
  \/ Die
  \/ process_clear_input \/ process_sections
  \/ \E a \in Addresses : process_locate_symbol(a)
  \/ Narrow \/ Found \/ Return

LookupSpec == LookupInit /\ [][LookupNext]_lookupVars

FairLookup == LookupSpec /\ WF_lookupVars(Narrow \/ Found \/ Return)

-----------------------------------------------------------------------------
\* What is in the caches and the search is what memprof can have put there.
LookupTypeOK ==
  /\ mapped \subseteq Maps /\ unmapped \in BOOLEAN /\ alive \in BOOLEAN
  /\ map_list \subseteq Maps
  /\ at \in {"idle", "search", "answer", "SIGSEGV"}
  /\ map \in Maps \cup {None}
  /\ data \in Seq(Nat) /\ first \in 0..Len(data) /\ last \in 0..Len(data)
  /\ found \in (0..Len(data)) \cup {None}

\* The address is not before all the symbols.
InRange == data # <<>> /\ data[1] <= addr

\* "Invariant: data[first].addr <= val < data[last].addr"
SearchInvariant ==
  at = "search" => data[first + 1] <= addr /\ addr < data[last + 1]

\* The same, of an address that has a symbol at or before it; and the search
\* ends at two neighbours.
Bracketed ==
  at = "search" /\ InRange =>
    /\ first < last /\ data[first + 1] <= addr /\ addr < data[last + 1]

\* The symbol answered is the last one at or before the address.
NearestSymbol ==
  at = "answer" /\ found # None /\ InRange =>
    /\ data[found + 1] <= addr
    /\ \A i \in DOMAIN data : data[i] <= addr => data[i] <= data[found + 1]

\* As long as nothing was unmapped since the last reset, an address is looked
\* up in the map that holds it, whenever that map appeared, and compared with
\* the addresses its file gives its functions, displaced or not.
RightMap ==
  at = "answer" /\ ~unmapped =>
    /\ map \in mapped /\ asked \in Within(map)
    /\ data # <<>> => addr = asked - map.bias

\* A lookup ends, unless the address lies before the only symbol of its map.
LookupEnds ==
  (at = "search" /\ (InRange \/ Len(data) > 1)) ~> (at # "search")

\* A search is of the right map and keeps the symbol between its ends.
LookupInv == LookupTypeOK /\ RightMap /\ Bracketed

=============================================================================

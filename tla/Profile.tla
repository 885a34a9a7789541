------------------------------- MODULE Profile ------------------------------
(***************************************************************************)
(* The profile (src/profile.c): how many bytes are allocated in and below   *)
(* each function, by which callers, and by which functions it calls.        *)
(*                                                                         *)
(* A node of a tree of functions is named by the symbols on the way to it, *)
(* outermost first: the children of a node have different symbols.  The    *)
(* list of nodes with the same symbol (next) is the set of names that end   *)
(* in it.                                                                  *)
(*                                                                         *)
(* A symbol is a pointer to a string, and equal to another only when it is  *)
(* the same pointer (symbol_equal).  An address in a page that no map in    *)
(* process->map_list holds has all the maps read again (locate_map), also   *)
(* while a profile is made; each reading makes new strings for all symbols. *)
(* A pointer is therefore known here by the file its function is in, the    *)
(* function and the reading it stems from.  How the symbol is searched for  *)
(* in a map, and maps without a name, are the matter of Lookup.             *)
(***************************************************************************)
EXTENDS StackStash, HashTable, FiniteSets, FiniteSetsExt

CONSTANTS
  Objects,    \* the files whose code a process can map
  FunctionIn, \* of each, the functions that the addresses it is mapped at are in
  PageOf,     \* the page of each address
  Mappings,   \* the sets of files that /proc/<pid>/maps can show
  MaxReads,   \* a bound on the readings of it in one profile
  Traces,     \* the stacks that are reported, innermost address first
  Sizes,      \* the sizes of blocks
  SkipSets,   \* what skip_funcs can hold
  ByteMod,    \* the range of a guint
  MaxBlocks,  \* a bound on the blocks
  NULL        \* no profile yet

ASSUME ProfileAssumption ==
  /\ \A o \in Objects : DOMAIN FunctionIn[o] \subseteq DOMAIN PageOf
  /\ NULL \notin Objects /\ Mappings \subseteq SUBSET Objects /\ MaxReads \in Nat
  /\ Traces \subseteq Seq(DOMAIN PageOf)
  /\ ByteMod \in Nat \ {0} /\ Sizes \subseteq 0..(ByteMod - 1)

VARIABLES
  stash,    \* the process's stack stash
  blocks,   \* its blocks: a node of the stash and a size each
  process,  \* its map_list, the files in it, and its bad_pages
  traces,   \* history: the stack each block was reported with
  profile,  \* pwin->profile
  made,     \* history: the skip_funcs, maps and reports that profile was made from
  file,     \* the callers and descendants saved from that profile, if it was
  memprof   \* "up", or the signal that ended it

profVars == <<stash, blocks, traces, process, profile, made, file, memprof>>

Sum(f(_), S) == MapThenSumSet(f, S) % ByteMod

Wrap(n) == n % ByteMod

-----------------------------------------------------------------------------
(* Symbols. *)

\* The pointer to the literal of process_locate_symbol.
UnknownMap == [object |-> NULL, name |-> "<unknown map>", reading |-> 0]

\* The maps as a profile begins; readings counts those of /proc/<pid>/maps since.
NoReading == [map_list |-> process.map_list, bad_pages |-> process.bad_pages, readings |-> 0]

\* process_read_maps forgets the maps it had, and keeps the bad pages; now[k] is
\* what the k-th reading finds.
process_read_maps(c, now) ==
  [map_list  |-> IF c.readings < Len(now) THEN now[c.readings + 1] ELSE {},
   bad_pages |-> c.bad_pages,
   readings  |-> c.readings + 1]

\* The files in the list that have an address.
Holders(c, a) == {o \in c.map_list : a \in DOMAIN FunctionIn[o]}

locate_map(c, a, now) ==
  LET read == process_read_maps(c, now) IN
  IF Holders(c, a) # {} \/ PageOf[a] \in c.bad_pages THEN c
  ELSE IF Holders(read, a) # {} THEN read
  ELSE [map_list  |-> read.map_list,
        bad_pages |-> read.bad_pages \cup {PageOf[a]},
        readings  |-> read.readings]

\* The mutated form asks for the bad pages first.
BadFirst_SymbolIn(c, a) ==
  IF PageOf[a] \in c.bad_pages \/ Holders(c, a) = {} THEN UnknownMap
  ELSE LET o == CHOOSE o \in Holders(c, a) : TRUE
       IN  [object |-> o, name |-> FunctionIn[o][a], reading |-> c.readings]

\* What process_locate_symbol returns when locate_map has left c behind.
SymbolIn(c, a) ==
  IF Holders(c, a) = {} THEN UnknownMap
  ELSE LET o == CHOOSE o \in Holders(c, a) : TRUE
       IN  [object |-> o, name |-> FunctionIn[o][a], reading |-> c.readings]

\* A loop that looks up one address after the other: it comes to their symbols and
\* to the addresses whose symbols are not to be skipped.
NoVisit(c) == [process |-> c, symbols |-> <<>>, kept |-> <<>>]

Visit(before, a, skip, now) ==
  LET after  == locate_map(before.process, a, now)
      symbol == SymbolIn(after, a)
  IN  [process |-> after,
       symbols |-> Append(before.symbols, symbol),
       kept    |-> IF symbol.name \in skip THEN before.kept ELSE Append(before.kept, a)]

Walk(c, as, skip, now) ==
  LET round[i \in 0..Len(as)] ==
        IF i = 0 THEN NoVisit(c) ELSE Visit(round[i - 1], as[i], skip, now)
  IN  round[Len(as)]

\* block_create_stack_list goes up from the block's node and puts each address in
\* front of those below it, so that the outermost is the first;
\* profile_add_stack_trace then looks up again what is left.
NoStacks == [process |-> NoReading, stacks |-> <<>>]

AddStack(before, block, skip, now) ==
  LET up   == Walk(before.process, Upwards(stash, block.stack), skip, now)
      down == Walk(up.process, Reverse(up.kept), {}, now)
  IN  [process |-> down.process,
       stacks  |-> Append(before.stacks, [stack |-> down.symbols, size |-> block.size])]

\* The blocks one after the other; process_block_foreach has them in the order of a
\* hash table, which can be any, as blocks can come in any.
Symbolized(skip, now) ==
  LET round[b \in 0..Len(blocks)] ==
        IF b = 0 THEN NoStacks ELSE AddStack(round[b - 1], blocks[b], skip, now)
  IN  round[Len(blocks)]

-----------------------------------------------------------------------------
(* The tree of calls. *)

\* A node that is not there yet; toplevel says whether the stack has not been
\* in this function before (seen_symbols).
AlwaysTop_NewNode(q) == [total |-> 0, self |-> 0, toplevel |-> TRUE]

NewNode(q) ==
  [total |-> 0, self |-> 0, toplevel |-> Last(q) \notin ToSet(Front(q))]

profile_add_stack_trace(tree, stack, size) ==
  LET path == Prefixes(stack) \ {<<>>}
      old(q) == IF q \in DOMAIN tree THEN tree[q] ELSE NewNode(q)
  IN  [q \in DOMAIN tree \cup path |->
         IF q \in path
         THEN [old(q) EXCEPT !.total = Wrap(@ + size),
                             !.self  = IF q = stack THEN Wrap(@ + size) ELSE @]
         ELSE tree[q]]

profile_build_tree(stacks) ==
  FoldLeft(LAMBDA tree, s : profile_add_stack_trace(tree, s.stack, s.size), Empty, stacks)

\* The bytes of some nodes of a tree.
SelfOf(tree, nodes)  == Sum(LAMBDA q : tree[q].self, nodes)
TotalOf(tree, nodes) == Sum(LAMBDA q : tree[q].total, nodes)

\* nodes_by_symbol
NodesOf(tree, f) == {q \in DOMAIN tree : Last(q) = f}

\* add_function: a function's self is the sum of all selfs, its total that of
\* the toplevel nodes.
add_function(tree, f) ==
  [self  |-> SelfOf(tree, NodesOf(tree, f)),
   total |-> TotalOf(tree, {q \in NodesOf(tree, f) : tree[q].toplevel})]

profile_create(stacks) ==
  LET tree == profile_build_tree(stacks) IN
  [tree      |-> tree,
   n_bytes   |-> Sum(LAMBDA b : blocks[b].size, DOMAIN blocks),
   functions |-> [f \in {Last(q) : q \in DOMAIN tree} |-> add_function(tree, f)]]

-----------------------------------------------------------------------------
(* The callers of a function; <<>> stands for <spontaneous>. *)

CallerOf(q) == IF Len(q) = 1 THEN <<>> ELSE <<q[Len(q) - 1]>>

\* "find topmost node/parent pair identical to this node/parent"
OwnPair_TopPair(q) == q

TopPair(q) ==
  LET same(r) == Len(r) >= 2 /\ CallerOf(r) = CallerOf(q) /\ Last(r) = Last(q) IN
  IF Len(q) = 1 THEN q
  ELSE CHOOSE r \in {r \in Prefixes(q) : same(r)} :
         \A s \in {s \in Prefixes(q) : same(s)} : Len(r) <= Len(s)

\* The second loop counts a topmost pair once (marked_callers).
profile_func_create_caller_list(tree, f) ==
  [c \in {CallerOf(q) : q \in NodesOf(tree, f)} |->
     LET nodes == {q \in NodesOf(tree, f) : CallerOf(q) = c} IN
     [self  |-> SelfOf(tree, nodes), total |-> TotalOf(tree, {TopPair(q) : q \in nodes})]]

-----------------------------------------------------------------------------
(* The descendants of a function: a tree in which recursion leads back to  *)
(* the node it came from.                                                  *)

NewTreeNode == [self |-> 0, non_recursion |-> 0, total |-> 0]

\* The mutated form does not take the bytes back from the nodes it leaves.
KeepsLeft_Descend(acc, s, size) ==
  LET child == Append(acc.path, s)
      seen  == child \notin DOMAIN acc.tree /\ Contains(acc.path, s)
      match == IF seen THEN SubSeq(acc.path, 1, CHOOSE i \in DOMAIN acc.path : acc.path[i] = s)
                       ELSE child
      tree  == IF Has(acc.tree, match) THEN acc.tree ELSE Insert(acc.tree, match, NewTreeNode)
      marks == IF Has(acc.marks, match) THEN acc.marks ELSE Insert(acc.marks, match, 0)
  IN  [path    |-> match,
       tree    |-> [tree EXCEPT
                      ![match].non_recursion = IF marks[match] = 0 THEN Wrap(@ + size) ELSE @,
                      ![match].total = IF match \in acc.counted THEN @ ELSE Wrap(@ + size)],
       marks   |-> [marks EXCEPT ![match] = 1],
       counted |-> acc.counted \cup {match}]

\* One round of the loop of add_trace_to_tree.  acc.path is the name of
\* `parent'; seen_symbols holds the nodes on the way to it.  acc.counted are
\* the nodes with marked_total, acc.marks the counts of marked_non_recursive.
Descend(acc, s, size) ==
  LET child  == Append(acc.path, s)
      known  == child \in DOMAIN acc.tree
      seen   == ~known /\ Contains(acc.path, s)
      match  == IF seen THEN SubSeq(acc.path, 1, CHOOSE i \in DOMAIN acc.path : acc.path[i] = s)
                        ELSE child
      left   == IF seen THEN {q \in Prefixes(acc.path) : Len(q) >= Len(match)} ELSE {}
      tree   == [q \in DOMAIN acc.tree \cup {match} |->
                   IF q \in left
                   THEN [acc.tree[q] EXCEPT !.non_recursion = Wrap(@ - size)]
                   ELSE IF q \in DOMAIN acc.tree THEN acc.tree[q] ELSE NewTreeNode]
      marks  == [q \in DOMAIN tree |->
                   (IF q \in DOMAIN acc.marks THEN acc.marks[q] ELSE 0)
                     - (IF q \in left THEN 1 ELSE 0)]
      marking  == marks[match] = 0
      counting == match \notin acc.counted
  IN  [path    |-> match,
       tree    |-> [tree EXCEPT
                      ![match].non_recursion = IF marking THEN Wrap(@ + size) ELSE @,
                      ![match].total = IF counting THEN Wrap(@ + size) ELSE @],
       marks   |-> [marks EXCEPT ![match] = IF marking THEN 1 ELSE @],
       counted |-> acc.counted \cup {match}]

add_trace_to_tree(dtree, trace, size) ==
  LET end == FoldLeft(LAMBDA acc, s : Descend(acc, s, size),
                      [path |-> <<>>, tree |-> dtree, marks |-> Empty, counted |-> {}],
                      trace)
  IN  [end.tree EXCEPT ![end.path].self = Wrap(@ + size)]

\* node_list_leaves, for every toplevel node l[1] of f: the leaf l[2].
Leaves(tree, f) ==
  {l \in (DOMAIN tree) \X (DOMAIN tree) :
     /\ Last(l[1]) = f /\ tree[l[1]].toplevel
     /\ IsPrefix(l[1], l[2]) /\ tree[l[2]].self > 0}

\* add_leaf_to_tree
TraceFrom(l) == SubSeq(l[2], Len(l[1]), Len(l[2]))

profile_func_create_descendant_tree(tree, f) ==
  FoldLeft(LAMBDA dtree, l : add_trace_to_tree(dtree, TraceFrom(l), tree[l[2]].self),
           Empty, SetToSeq(Leaves(tree, f)))

-----------------------------------------------------------------------------
(* What happens. *)

\* A report of an allocation: input_func stores its stack, process_command
\* enters the block.  (A free takes a block away and leaves the stash alone.)
Allocated(t, size) ==
  LET added == stack_stash_add_trace(stash, t) IN
  /\ Len(blocks) < MaxBlocks
  /\ stash' = added.stash
  /\ blocks' = Append(blocks, [stack |-> added.node, size |-> size])
  /\ traces' = Append(traces, t)
  /\ UNCHANGED <<process, profile, made, file, memprof>>

\* generate_profile_cb.  now is what the program shows each time its maps are read
\* while this goes on; when it has ended before that, there is no such file, and
\* fgets is called with NULL.
generate_profile_cb(skip, now) ==
  LET all == Symbolized(skip, now) IN
  /\ file' = NULL
  /\ IF all.process.readings > Len(now)
     THEN memprof' = "SIGSEGV" /\ profile' = NULL /\ made' = NULL /\ UNCHANGED process
     ELSE /\ all.process.readings = Len(now)
          /\ profile' = profile_create(all.stacks)
          /\ process' = [map_list |-> all.process.map_list, bad_pages |-> all.process.bad_pages]
          /\ made' = [skip |-> skip, maps |-> all.process.map_list,
                      lists |-> Len(now) + (IF process.map_list = {} THEN 0 ELSE 1),
                      reports |-> {[id |-> b, trace |-> traces[b], size |-> blocks[b].size,
                                    stack |-> all.stacks[b].stack] : b \in DOMAIN blocks}]
          /\ UNCHANGED memprof
  /\ UNCHANGED <<stash, blocks, traces>>

\* Another window asks for the line of an address (process_find_line) ...
find_line(a, now) ==
  LET after == locate_map(NoReading, a, now) IN
  /\ IF after.readings > Len(now)
     THEN memprof' = "SIGSEGV" /\ UNCHANGED process
     ELSE /\ after.readings = Len(now)
          /\ process' = [map_list |-> after.map_list, bad_pages |-> after.bad_pages]
          /\ UNCHANGED memprof
  /\ UNCHANGED <<stash, blocks, traces, profile, made, file>>

\* ... or a search for leaks for all the maps (process_sections).
read_sections(mapping) ==
  /\ process' = [process EXCEPT !.map_list = mapping]
  /\ UNCHANGED <<stash, blocks, traces, profile, made, file, memprof>>

\* reset_profile_cb
reset_profile_cb ==
  /\ profile' = NULL /\ made' = NULL /\ file' = NULL
  /\ stash' = NewStash /\ blocks' = <<>> /\ traces' = <<>>
  /\ process' = [map_list |-> {}, bad_pages |-> {}]
  /\ UNCHANGED memprof

DividesFirst_percent(part, whole) == (part \div whole) * 100

\* The percentages of output_callers and output_descendants are guints.
percent(part, whole) == Wrap(part * 100) \div whole

output_callers(f) ==
  LET callers == profile_func_create_caller_list(profile.tree, f) IN
  {c \in DOMAIN callers : percent(callers[c].total, profile.functions[f].total) >= 1}

output_descendants(f) ==
  LET dtree == profile_func_create_descendant_tree(profile.tree, f) IN
  {q \in DOMAIN dtree : Len(q) = 2 /\ percent(dtree[q].total, dtree[<<f>>].total) >= 1}

\* profile_write divides by the total of each function.
profile_write ==
  /\ profile # NULL
  /\ IF \E f \in DOMAIN profile.functions : profile.functions[f].total = 0
     THEN memprof' = "SIGFPE" /\ UNCHANGED file
     ELSE /\ file' = [f \in DOMAIN profile.functions |->
                        [callers |-> output_callers(f), descendants |-> output_descendants(f)]]
          /\ UNCHANGED memprof
  /\ UNCHANGED <<stash, blocks, traces, process, profile, made>>

-----------------------------------------------------------------------------
\* What the program can show while its maps are read so many times.
Readings == UNION {[1..n -> Mappings] : n \in 0..MaxReads}

ProfInit ==
  /\ stash = NewStash /\ blocks = <<>> /\ traces = <<>>
  /\ process = [map_list |-> {}, bad_pages |-> {}]
  /\ profile = NULL /\ made = NULL /\ file = NULL
  /\ memprof = "up"

ProfNext ==
  /\ memprof = "up"
  /\ \/ \E t \in Traces, n \in Sizes : Allocated(t, n)
     \/ \E skip \in SkipSets, now \in Readings : generate_profile_cb(skip, now)
     \/ \E a \in DOMAIN PageOf, now \in Readings : find_line(a, now)
     \/ \E mapping \in Mappings : read_sections(mapping)
     \/ reset_profile_cb
     \/ profile_write

ProfSpec == ProfInit /\ [][ProfNext]_profVars

-----------------------------------------------------------------------------
\* Every block's stack is the one it was reported with, whatever else the
\* stash has taken in since.
TracesKept ==
  \A b \in DOMAIN blocks : Upwards(stash, blocks[b].stack) = traces[b]

\* Stacks share all they have in common: no node has two children for the same
\* address, in whatever order the stacks came.
StashShares ==
  \A m, n \in DOMAIN stash.nodes :
    stash.nodes[m].parent = stash.nodes[n].parent /\ stash.nodes[m].address = stash.nodes[n].address
      => m = n

\* The reports of a profile as symbols, outermost first.
Seen(r) == r.stack

BytesOf(reports) == Sum(LAMBDA r : r.size, reports)

Bytes(P(_)) == BytesOf({r \in made.reports : P(Seen(r))})

\* A function's total is the size of the blocks allocated while it was on the
\* stack, once each however often it was on it; its self the size of those it
\* allocated itself.
FunctionTotals ==
  profile # NULL =>
    \A f \in DOMAIN profile.functions :
      /\ profile.functions[f].total = Bytes(LAMBDA s : Contains(s, f))
      /\ profile.functions[f].self  = Bytes(LAMBDA s : s # <<>> /\ Last(s) = f)

\* A caller's total is the size of the blocks with its call of f on the
\* stack, once each; its self that of the blocks f allocated when it called.
CallerTotals ==
  profile # NULL =>
    \A f \in DOMAIN profile.functions :
      LET callers == profile_func_create_caller_list(profile.tree, f)
          Calls(s, g) == \E i \in 2..Len(s) : s[i] = f /\ s[i - 1] = g
      IN \A c \in DOMAIN callers :
           /\ callers[c].total =
                (IF c = <<>> THEN Bytes(LAMBDA s : s # <<>> /\ s[1] = f)
                             ELSE Bytes(LAMBDA s : Calls(s, c[1])))
           /\ callers[c].self = Bytes(LAMBDA s : s # <<>> /\ Last(s) = f
                                                 /\ CallerOf(s) = c)

\* Two entries are two functions as long as all symbols stem from one reading of
\* the maps: no map was in the list before and all were read once, or they were in
\* it and none was missing.
SameFunction(f, g) == f.object = g.object /\ f.name = g.name

OneEntryEach ==
  (profile # NULL /\ made.lists <= 1) =>
    \A f, g \in DOMAIN profile.functions : SameFunction(f, g) => f = g

\* What the maps that the profile was made from say of a stack, without the
\* functions to be skipped.
FunctionAt(a) ==
  IF \E o \in made.maps : a \in DOMAIN FunctionIn[o]
  THEN LET o == CHOOSE o \in made.maps : a \in DOMAIN FunctionIn[o] IN <<o, FunctionIn[o][a]>>
  ELSE <<UnknownMap.object, UnknownMap.name>>

FunctionsOf(trace) ==
  SelectSeq([i \in DOMAIN trace |-> FunctionAt(Reverse(trace)[i])],
            LAMBDA f : f[2] \notin made.skip)

\* Then every stack is counted for the functions that these maps have at its
\* addresses, also when the maps were read while it was looked up.
SymbolsRight ==
  (profile # NULL /\ made.lists <= 1) =>
    \A r \in made.reports :
      FunctionsOf(r.trace) = [i \in DOMAIN Seen(r) |-> <<Seen(r)[i].object, Seen(r)[i].name>>]

\* ChangeLog:273, "Don't assume that symbols can be compared by comparing their
\* addresses": a function has one entry, whenever the maps were read.
FunctionsOnce ==
  profile # NULL =>
    \A f, g \in DOMAIN profile.functions : SameFunction(f, g) => f = g

\* A stack from the first call of f on, with every loop cut out.
WithoutLoops(s) ==
  LET n == Len(s)
      after[i \in 1..(n + 1)] ==
        IF i > n THEN <<>>
        ELSE LET j == CHOOSE j \in i..n : s[j] = s[i] /\ \A k \in (j + 1)..n : s[k] # s[i]
             IN  <<s[i]>> \o after[j + 1]
  IN  after[1]

FromFirst(s, f) == SubSeq(s, CHOOSE i \in DOMAIN s : s[i] = f /\ \A j \in 1..(i - 1) : s[j] # f, Len(s))

\* In the descendants of f a stack counts, without its loops, for every node
\* on its way (non_recursion) and for the last one (self); no node is counted
\* twice in a total, and the root's total is the function's.
DescendantTotals ==
  profile # NULL =>
    \A f \in DOMAIN profile.functions :
      LET dtree == profile_func_create_descendant_tree(profile.tree, f)
          Way(s) == WithoutLoops(FromFirst(s, f))
      IN /\ \A q \in DOMAIN dtree :
              /\ dtree[q].non_recursion = Bytes(LAMBDA s : Contains(s, f) /\ IsPrefix(q, Way(s)))
              /\ dtree[q].self = Bytes(LAMBDA s : Contains(s, f) /\ q = Way(s))
              /\ dtree[q].total >= dtree[q].non_recursion
              /\ Len(q) > 1 => dtree[q].total <= dtree[Front(q)].total
         /\ DOMAIN dtree # {} => dtree[<<f>>].total = profile.functions[f].total

\* "Callers (with count) that contribute at least for 1%", and "descendants" alike:
\* exactly those are in the file, unless a hundred times the bytes do not fit into a
\* guint.
OnePercentListed ==
  (profile # NULL /\ file # NULL /\ profile.n_bytes * 100 < ByteMod) =>
    \A f, g \in DOMAIN file :
      LET whole == Bytes(LAMBDA s : Contains(s, f))
          Calls(s, h, k) == \E i \in 2..Len(s) : s[i] = k /\ s[i - 1] = h
      IN /\ <<g>> \in file[f].callers
              <=> 100 * Bytes(LAMBDA s : Calls(s, g, f)) >= whole
         /\ <<f, g>> \in file[f].descendants
              <=> g # f /\ 100 * Bytes(LAMBDA s : Calls(s, f, g)) >= whole

\* The stash gives back every stack it was given, and keeps none of them twice.
StashExact == TracesKept /\ StashShares

\* The two flat lists, of the functions and of a function's callers, are the sums
\* over the reported stacks, and no function is in them twice.
FlatTotals == FunctionTotals /\ CallerTotals /\ OneEntryEach

\* The names in a profile are right, and the trees of descendants and the file with
\* its threshold are sums over the reported stacks too.
ReportExact == SymbolsRight /\ DescendantTotals /\ OnePercentListed

=============================================================================

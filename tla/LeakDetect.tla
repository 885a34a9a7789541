----------------------------- MODULE LeakDetect -----------------------------
(***************************************************************************)
(* The leak detector (src/leakdetect.c) and the button that calls it       *)
(* (generate_leak_cb in src/main.c): stop the program, mark the blocks     *)
(* that can be reached from its data sections and stacks, report the       *)
(* others, let the program go on.                                          *)
(*                                                                         *)
(* memprof is one thread and does nothing else meanwhile; `at' says where  *)
(* in leaks_find it is.  The program runs until the kernel has stopped it, *)
(* and can be killed at any point.  Addresses are bytes of a small address *)
(* space; `mem' maps the word-aligned addresses that can be read to the    *)
(* values stored there.  A Block is named by its address and size; a block *)
(* that is freed is not allocated again.                                   *)
(***************************************************************************)
EXTENDS Integers, Sequences, FiniteSets, SequencesExt

CONSTANTS
  Threads,    \* the pids of the program's threads
  Root,       \* MPProcess.pid
  Listings,   \* what process_get_clones can find
  WordSize,   \* sizeof (void *)
  Heap,       \* the blocks of the program, [addr, size]
  Sections,   \* the data sections, as blocks
  Stack,      \* the line of /proc/<pid>/maps with the stack, [lo, hi, perms]
  Esp,        \* where the stack ends, from /proc/<pid>/stat
  StartStack, \* where it starts, from the same file
  Readable,   \* the word addresses that can be read
  Pointers,   \* the values the program stores
  Faults,     \* what can go wrong: "kill", "open", "zombie"
  MaxStores,  \* a bound on the program's stores
  MaxSearches \* a bound on clicks of Leaks

ASSUME LeakAssumption ==
  /\ IsFiniteSet(Threads) /\ Root \in Threads
  /\ Listings \subseteq SUBSET Threads
  /\ WordSize \in {4, 8}
  /\ IsFiniteSet(Heap) /\ Heap \subseteq [addr : Nat, size : Nat]
  /\ \A b \in Heap : b.addr % WordSize = 0
  /\ \A b, c \in Heap : b # c =>
       /\ b.addr # c.addr
       /\ b.addr + b.size <= c.addr \/ c.addr + c.size <= b.addr
  /\ \A r \in Readable : r % WordSize = 0
  /\ 0 \in Pointers /\ Pointers \subseteq Int
  /\ IsFiniteSet(Sections) /\ Sections \subseteq [addr : Nat, size : Nat]
  /\ Stack.lo \in Nat /\ Stack.hi \in Nat
  /\ Esp \in Nat /\ StartStack \in Nat /\ Esp < StartStack  \* it grows downwards

VARIABLES
  at,         \* memprof, in leaks_find or in its main loop ("idle")
  todo,       \* the clones still to be stopped
  clones,     \* process_get_clones
  block_arr,  \* the blocks of the table, sorted by address
  marked,     \* BLOCK_MARKED
  block_list, \* the blocks still to be scanned
  table,      \* block_table
  refcount,   \* of each Block
  leaks,      \* pwin->leaks
  searches,   \* clicks so far
  ps,         \* the threads, as /proc/<pid>/stat shows them
  sigstop,    \* threads with SIGSTOP pending
  traced,     \* whether memprof is attached to Root
  mem,        \* the program's memory
  stores      \* stores so far

searchVars == <<at, todo, clones, block_arr, marked, block_list>>
blockVars  == <<table, refcount, leaks>>
kernelVars == <<ps, sigstop, traced>>
memVars    == <<mem, stores>>
leakVars   == <<searchVars, blockVars, searches, kernelVars, memVars>>

Live(q) == ps[q] \in {"running", "stopped"}

-----------------------------------------------------------------------------
(* The kernel and the program. *)

Stops(q) ==
  /\ q \in sigstop /\ ps[q] = "running"
  /\ ps' = [ps EXCEPT ![q] = "stopped"]
  /\ sigstop' = sigstop \ {q}
  /\ UNCHANGED <<searchVars, blockVars, searches, traced, memVars>>

\* A thread that has not been stopped writes to memory.
Store ==
  /\ \E q \in Threads : ps[q] = "running"
  /\ stores < MaxStores
  /\ stores' = stores + 1
  /\ \E a \in Readable, v \in Pointers : mem' = [mem EXCEPT ![a] = v]
  /\ UNCHANGED <<searchVars, blockVars, searches, kernelVars>>

\* The program is killed: its threads are reaped (sigchld_handler), or stay
\* zombies when their parent does not wait for them.
Die ==
  /\ "kill" \in Faults /\ Live(Root)
  /\ \E s \in {"gone"} \cup (Faults \cap {"zombie"}) : ps' = [q \in Threads |-> s]
  /\ sigstop' = {} /\ traced' = FALSE
  /\ UNCHANGED <<searchVars, blockVars, searches, memVars>>

\* A report of free() is applied: process_command takes the block from the
\* table and block_unref drops its reference.
block_unref(b) == refcount' = [refcount EXCEPT ![b] = @ - 1]

Freed(b) ==
  /\ at = "idle" /\ b \in table
  /\ table' = table \ {b} /\ block_unref(b)
  /\ UNCHANGED <<searchVars, leaks, searches, kernelVars, memVars>>

\* reset_profile_cb: the window forgets its leaks, process_clear_input its table.
Reset ==
  /\ at = "idle" /\ table \cup leaks # {}
  /\ refcount' = [b \in Heap |-> IF b \in table THEN refcount[b] - 1 ELSE refcount[b]]
  /\ table' = {} /\ leaks' = {}
  /\ UNCHANGED <<searchVars, searches, kernelVars, memVars>>

-----------------------------------------------------------------------------
(* Stopping the program. *)

\* generate_leak_cb drops the last report; leaks_find attaches to the process,
\* which sends it SIGSTOP.
generate_leak_cb ==
  /\ at = "idle" /\ searches < MaxSearches
  /\ searches' = searches + 1
  /\ refcount' = [b \in Heap |-> IF b \in leaks THEN refcount[b] - 1 ELSE refcount[b]]
  /\ leaks' = {}
  /\ clones' \in Listings /\ todo' = SetToSeq(clones')
  /\ traced' = Live(Root)
  /\ sigstop' = IF Live(Root) THEN sigstop \cup {Root} ELSE sigstop
  /\ at' = "stop"
  /\ UNCHANGED <<block_arr, marked, block_list, table, ps, memVars>>

kill_SIGSTOP ==
  /\ at = "stop" /\ todo # <<>>
  /\ sigstop' = IF Live(Head(todo)) THEN sigstop \cup {Head(todo)} ELSE sigstop
  /\ at' = "wait"
  /\ UNCHANGED <<todo, clones, block_arr, marked, block_list, blockVars, searches, ps,
                 traced, memVars>>

\* The mutated forms: no wait, and a wait for a thread that is no more.
NoWait_IsStopped(q) == TRUE
Gone_IsStopped(q) == ps[q] = "stopped"

\* process_status: 't' and 'T' for a stopped thread, and 'T' too when the
\* thread has no /proc/<pid>/stat any more.
IsStopped(q) == ps[q] \in {"stopped", "gone"}

Waited ==
  /\ at = "wait" /\ IsStopped(Head(todo))
  /\ todo' = Tail(todo) /\ at' = "stop"
  /\ UNCHANGED <<clones, block_arr, marked, block_list, blockVars, searches,
                 kernelVars, memVars>>

\* open ("/proc/<pid>/mem") succeeds.
OpenMem ==
  /\ at = "stop" /\ todo = <<>> /\ Live(Root)
  /\ at' = "prepare"
  /\ UNCHANGED <<todo, clones, block_arr, marked, block_list, blockVars, searches,
                 kernelVars, memVars>>

\* It fails, because the process is gone or memprof is out of descriptors:
\* leaks_find returns at once.
OpenFails ==
  /\ at = "stop" /\ todo = <<>>
  /\ ~Live(Root) \/ "open" \in Faults
  /\ at' = "idle" /\ clones' = {}
  /\ UNCHANGED <<todo, block_arr, marked, block_list, blockVars, searches,
                 kernelVars, memVars>>

-----------------------------------------------------------------------------
(* Marking. *)

compare_blocks(b1, b2) == b1.addr < b2.addr

\* What qsort makes of the blocks in S: all of them, and none before a smaller one.
Sorted(S) ==
  {s \in SetToSeqs(S) : \A i, j \in DOMAIN s : i < j => ~compare_blocks(s[j], s[i])}

\* What "%lu" makes of the hexadecimal digits of a: the same digits in base
\* ten, or nothing when one of them is a letter.
HexScans(a) == a % 16 < 10 /\ a \div 16 < 10
HexAsDecimal(a) == 10 * (a \div 16) + (a % 16)

\* read_stack_maps: writable and executable mappings only.
read_stack_maps ==
  {[addr |-> HexAsDecimal(l.lo), size |-> HexAsDecimal(l.hi) - HexAsDecimal(l.lo)] :
     l \in {l \in {Stack} : l.perms = "rwxp" /\ HexScans(l.lo) /\ HexScans(l.hi)}}

\* add_stack_root, for each of the clones.
StackRoots(q) ==
  {[addr |-> Esp,
    size |-> IF StartStack > m.addr /\ StartStack < m.addr + m.size
             THEN StartStack - Esp
             ELSE m.addr + m.size - Esp] :
     m \in {m \in read_stack_maps :
              Live(q) /\ Esp >= m.addr /\ Esp < m.addr + m.size}}

RootBlocks == Sections \cup UNION {StackRoots(q) : q \in clones}

NoRef_prepare_block(b) == refcount[b]

\* prepare_block for every block of the table, the sort, and the roots.
prepare_block(b) == refcount[b] + 1

Prepare ==
  /\ at = "prepare" /\ Live(Root)
  /\ marked' = {}
  /\ refcount' = [b \in Heap |-> IF b \in table THEN prepare_block(b) ELSE refcount[b]]
  /\ block_arr' \in Sorted(table)
  /\ block_list' = SetToSeq(RootBlocks)
  /\ at' = "scan"
  /\ UNCHANGED <<todo, clones, table, leaks, searches, kernelVars, memVars>>

\* process_sections reads the maps of a process that was killed since: fopen
\* returned NULL, and process_read_maps passes it to fgets.
PrepareDead ==
  /\ at = "prepare" /\ ~Live(Root)
  /\ at' = "SIGSEGV"
  /\ UNCHANGED <<todo, clones, block_arr, marked, block_list, blockVars, searches,
                 kernelVars, memVars>>

\* The mutated form looks for a block's first byte in the block before it.
AtMost_Below(a, b) == a <= b.addr

Below(a, b) == a < b.addr

\* The loop of find_block: the last block of arr from w[1] to w[2] - 1 that does not
\* begin above a.  arr counts from 1; first, middle and last count from 0.
narrow(arr, a) ==
  LET Ends == (0 .. Len(arr)) \X (0 .. Len(arr))
      found[w \in Ends] ==
        LET first == w[1]
            last == w[2]
            middle == (first + last) \div 2
        IN IF first >= last - 1 THEN first
           ELSE IF Below(a, arr[middle + 1]) THEN found[<<first, middle>>]
           ELSE found[<<middle, last>>]
  IN found

\* find_block: the block that holds address a, by binary search; {} for NULL.
find_block(arr, a) ==
  LET n == Len(arr)
      found == IF Below(a, arr[n]) THEN narrow(arr, a)[<<0, n - 1>>] ELSE n - 1
  IN IF n = 0 \/ Below(a, arr[1]) THEN {}
     ELSE {b \in {arr[found + 1]} : a < b.addr + b.size}

\* scan_block reads (size + 3) / 4 words, whatever the size of a word, and
\* gives the block up when one of them cannot be read ...
WordsRead(b) == {b.addr + i * WordSize : i \in 0..((b.size + 3) \div 4 - 1)}

\* ... and scan_block_contents looks at size / sizeof (void *) of them.
WordsUsed(b) == {b.addr + i * WordSize : i \in 0..(b.size \div WordSize - 1)}

scan_block(b) ==
  IF ps[Root] = "stopped" /\ WordsRead(b) \subseteq Readable
  THEN (UNION {find_block(block_arr, mem[a]) : a \in WordsUsed(b)}) \ marked
  ELSE {}

Scan ==
  /\ at = "scan" /\ block_list # <<>>
  /\ LET new == scan_block(Head(block_list)) IN
     /\ marked' = marked \cup new
     /\ block_list' = SetToSeq(new) \o Tail(block_list)
  /\ UNCHANGED <<at, todo, clones, block_arr, blockVars, searches, kernelVars, memVars>>

\* "Look for leaked blocks": what is not marked keeps the reference that
\* prepare_block took.
Collect ==
  /\ at = "scan" /\ block_list = <<>>
  /\ LET arr == {block_arr[i] : i \in DOMAIN block_arr} IN
     /\ leaks' = arr \ marked
     /\ refcount' = [b \in Heap |-> IF b \in arr \cap marked THEN refcount[b] - 1
                                                             ELSE refcount[b]]
  /\ at' = "resume"
  /\ UNCHANGED <<todo, clones, block_arr, marked, block_list, table, searches,
                 kernelVars, memVars>>

\* The mutated form returns without detaching.
NoDetach_Resume ==
  /\ at = "resume"
  /\ sigstop' = sigstop \ clones
  /\ ps' = [q \in Threads |-> IF ps[q] = "stopped" /\ q \in clones /\ q # Root
                              THEN "running" ELSE ps[q]]
  /\ at' = "idle" /\ clones' = {} /\ block_arr' = <<>>
  /\ UNCHANGED <<todo, marked, block_list, blockVars, searches, traced, memVars>>

\* SIGCONT for the clones, which also cancels a pending SIGSTOP, then
\* PTRACE_DETACH, which fails when the process has not stopped yet.
Resume ==
  /\ at = "resume"
  /\ LET detaches == traced /\ ps[Root] = "stopped" IN
     /\ traced' = (traced /\ ~detaches)
     /\ sigstop' = sigstop \ clones
     /\ ps' = [q \in Threads |->
                 IF ps[q] = "stopped" /\ (IF q = Root THEN detaches ELSE q \in clones)
                 THEN "running" ELSE ps[q]]
  /\ at' = "idle" /\ clones' = {} /\ block_arr' = <<>>
  /\ UNCHANGED <<todo, marked, block_list, blockVars, searches, memVars>>

-----------------------------------------------------------------------------
LeakInit ==
  /\ at = "idle" /\ todo = <<>> /\ clones = {}
  /\ block_arr = <<>> /\ marked = {} /\ block_list = <<>>
  /\ table = Heap
  /\ refcount = [b \in Heap |-> 1]
  /\ leaks = {} /\ searches = 0
  /\ ps = [q \in Threads |-> "running"] /\ sigstop = {} /\ traced = FALSE
  /\ mem = [a \in Readable |-> 0]
  /\ stores = 0

MemprofStep ==
  \/ OpenMem \/ OpenFails \/ Prepare \/ PrepareDead \/ Scan \/ Collect \/ Resume
  \/ kill_SIGSTOP \/ Waited

LeakNext ==
  \/ MemprofStep \/ generate_leak_cb \/ Reset
  \/ \E b \in Heap : Freed(b)
  \/ Store \/ Die
  \/ \E q \in Threads : Stops(q)

LeakSpec ==
  /\ LeakInit /\ [][LeakNext]_leakVars
  /\ WF_leakVars(MemprofStep)
  /\ \A q \in Threads : WF_leakVars(Stops(q))

-----------------------------------------------------------------------------
Places == {"idle", "stop", "wait", "prepare", "scan", "resume", "SIGSEGV"}

LeakTypeOK ==
  /\ at \in Places
  /\ todo \in Seq(Threads) /\ clones \subseteq Threads
  /\ block_arr \in Seq(Heap) /\ marked \subseteq Heap
  /\ table \subseteq Heap /\ leaks \subseteq Heap
  /\ refcount \in [Heap -> Nat]
  /\ ps \in [Threads -> {"running", "stopped", "gone", "zombie"}]
  /\ sigstop \subseteq Threads /\ traced \in BOOLEAN
  /\ mem \in [Readable -> Pointers]

\* The blocks of the table that a program could still get at, starting from
\* the words of the blocks in S: those in every set that holds what S and its
\* own blocks point to.  A word points to a block when its value lies inside it.
PointsTo(b, c) == \E a \in WordsUsed(b) \cap Readable : c.addr <= mem[a] /\ mem[a] < c.addr + c.size

Reach(S) ==
  {c \in table :
     \A T \in SUBSET table :
       (\A b \in S \cup T : {d \in table : PointsTo(b, d)} \subseteq T) => c \in T}

StackBlock == [addr |-> Esp, size |-> StartStack - Esp]

Searched == at = "resume" /\ Live(Root)

\* leaks_find reports no block that the data sections lead to, and every
\* block that neither they nor the stack lead to, however the program's
\* stores fell before it was stopped.
LeaksBetween ==
  Searched =>
    /\ leaks \cap Reach(Sections) = {}
    /\ table \ Reach(Sections \cup {StackBlock}) \subseteq leaks

\* "Red = Leaked": a block that is reported cannot be reached by the program.
\* This does not hold, because read_stack_maps finds no stack.
LeakedIsUnreachable ==
  Searched => leaks \cap Reach(Sections \cup {StackBlock}) = {}

\* "Wait for the processes we are tracing to actually stop": memory is read
\* only while no thread of the program runs.
ScansStillMemory ==
  at \in {"scan", "resume"} => \A q \in Threads : ps[q] # "running"

\* When leaks_find is over, no thread of the program is left stopped, about to
\* be stopped or traced.
ProgramResumed ==
  at = "idle" =>
    ~traced /\ \A q \in Threads : ps[q] # "stopped" /\ q \notin sigstop

\* A block in the table or in the report on screen has not been freed: each of
\* the two holds a reference, across searches, frees and resets.
ShownBlocksLive ==
  \A b \in Heap :
    refcount[b] >= Cardinality({x \in {"table", "leaks"} :
                                  b \in (IF x = "table" THEN table ELSE leaks)})

\* Clicking Leaks comes to an end.
SearchEnds == (at # "idle") ~> (at \in {"idle", "SIGSEGV"})

\* The program is stopped while its memory is read, and only then.
LeakInv == LeakTypeOK /\ ScansStillMemory /\ ProgramResumed

=============================================================================

# A verification project for memprof

memprof profiles the heap of a running program. A library preloaded into the
program (`lib/`) wraps the allocator and reports every call over a Unix socket;
memprof itself (`src/`) reads the reports, keeps a table of the blocks that are
allocated, and draws maps, profiles and leak reports from it. This directory
holds TLA+ models of that system, the TLC runs that check them on small
instances, and TLAPS proofs of the most important properties for every
instance.

Paths below are those of the repository (`lib/intercept.c`, `src/process.c`).

## 1. The system

| Component | Source | State it keeps | Operations |
|---|---|---|---|
| Allocator wrappers | `lib/memintercept.c` | none of its own | `malloc`, `calloc`, `memalign`, `realloc`, `free`: call the C library, then report |
| Connection and numbering | `lib/intercept.c` | `seqno`, `tracing`, `threads[]` with a socket each | `mi_write_stack`, `find_thread`, `new_process`, `stop_tracing`, `exit_wait`, `fork`, `vfork`, `execve`, `__clone` |
| Wire protocol | `lib/memintercept.h`, `lib/memintercept-utils.c` | the socket buffers | an `MIInfo`, then the stack frames; one answering byte at connect and at exit |
| Stack walker | `lib/stack-frame.c` | none | `mi_call_with_backtrace` |
| Speed interceptor | `lib/speedintercept.c`, `lib/mi-perfctr.c` | the timer and its signal handler | `mi_start`, the handler that sends `MI_TIME` and re-arms the timer, `mi_stop` |
| Process | `src/process.c` | `seqno`, `command_queue`, `block_table`, `bytes_used`, `n_allocations`, `status`, maps | `input_func`, `process_command`, `process_clear_input`, `process_detach`, `process_duplicate`, `process_exec_reset`, symbol lookup |
| Server | `src/server.c` | the control socket, `socket_paths`, the terminate pipe, `pid_table` | `create_control_socket`, `ensure_cleanup`, `term_handler`, `control_func` (`MI_NEW`, `MI_FORK`, `MI_CLONE`), add/remove/find process, `mp_server_instrument` |
| Leak detector | `src/leakdetect.c` | block marks | stop the process, scan roots and blocks, collect what is unreachable |
| Stack stash | `src/stackstash.c` | a trie of stacks | `stack_stash_add_trace` |
| Profile | `src/profile.c` | trees of functions | self and total counts over stacks |
| Main window | `src/main.c` | windows, their timers and reports, dialogs, `usage_max`, `usage_high` | Run, Reset, Record, Detach, Kill, Close, Leaks, Quit, `update_status` |
| Process tree window | `src/tree.c` | the rows, a popup menu | add, remove, update a row; the menu's Show, Kill, Detach |
| Detail window | `src/detailwin.c` | `memstats`, a history | the graph of the history, the map of the memory |
| Tree view helpers | `src/treeviewutils.c` | none | columns and sort orders |
| Inode cache | `src/inode.c` | a cache of file names | lookups in `/proc` |

How they interact. Every thread of the traced program has its own connection,
opened on its first report; memprof makes one `MPProcess` per connection, and
the ones of threads (`clone_of`) pass their reports to the root. A report gets
its number from one atomic counter *before* it is written, the threads write to
different sockets, and memprof reads whichever socket its main loop finds
ready. So reports arrive in any order, and `process_command` puts them back in
order with a sorted queue. Connecting and exiting are handshakes: the thread
blocks in `read()` until memprof answers with a byte or closes the socket.

What is hard here, and what would make each part correct:

* **Order.** The queue must hand the reports on in the order of their numbers,
  each once, and end empty. A number that is taken but never sent stops
  memprof for good (the ChangeLog calls this "out of step").
* **Truth of the table.** The table and the totals must describe the program's
  heap, in spite of failing calls, resets, and the gap between the call to the
  C library and the report.
* **Death.** Either end can go away at any point, between the two parts of a
  report too. The program must not hang, memprof must not be killed or abort,
  and no block may be shown with another report's stack.
* **Processes.** fork, exec and clone make connections that race with the end
  of older ones in the pid table.
* **Signals.** The profiling timer interrupts the library itself; SIGTERM
  interrupts memprof, and its children before their `execvp()`.
* **Windows.** A dialog runs the main loop, so a process can end, and its window
  be freed, while a question about it is on the screen.
* **Algorithms.** Marking for leaks, symbol search, the stack trie, the counts
  of the profile, the places in the memory map: pure, with edge cases at zero,
  overflow and boundaries.

`PROJECT.json` lists the hazards at their lines with the properties that would
catch them, and notes on what those properties except.

## 2. Modules

| Module | Models |
|---|---|
| `HashTable` | GLib's hash table, as `src/` uses it (external) |
| `Wire` | `MIInfo`, the two parts of a report, the hello record; a socket per thread that fills up (`WireCap`), breaks and ends |
| `Intercept` | the library inside one traced image: wrappers, numbering, connecting, writing, exit handshake; the program's heap |
| `Process` | memprof's side of that image: `input_func`, `process_command`, the queue, the table and totals, the `MI_CLONE` case of `control_func`, detach, reset, record, quit |
| `Tracing` | the composition of the last two, its fairness and its properties |
| `ReplayLog` | the abstract specification of `Tracing`: a table that is the replay of a log |
| `TracingInv` | the inductive invariant of `Tracing` |
| `Session` | many processes: fork, vfork, exec, exit in the library; `control_func`, the pid table, duplication, exec reset, detach and kill in memprof |
| `LeakDetect` | `leaks_find` against a running program |
| `Lookup` | the list of maps, the bad pages and the symbol search |
| `StackStash` | the trie of stacks (operators) |
| `Profile` | the call tree, functions, callers, descendants and percentages, over `StackStash` |
| `Speed` | the speed interceptor in one thread of a program, with its descriptors, and memprof's side of its reports |
| `Control` | memprof's start, control socket, signals and end |
| `Windows` | the windows, the tree window and the dialogs, over `Control` |
| `Meter` | the usage meter, the high water mark and the history with its graph |
| `MemMap` | the picture of a process's memory |
| `MCTracing`, `MCSession`, `MCLeakDetect`, `MCLookup`, `MCProfile`, `MCSpeed`, `MCWindows`, `MCDisplay` | the instances for TLC |
| `TracingProofs` | the theorems about `Tracing`: types and totals; order; the queue in step; the replay of the log |
| `SessionProofs`, `LeakProofs`, `SpeedProofs`, `WindowsProofs` | the theorems about these modules (`WindowsProofs` about `Control` too) |
| `ProfileProofs` | the theorems about `Lookup`, `StackStash` and `Profile` |
| `DisplayProofs` | the theorems about `Meter` |
| `Recursion` | what the proofs above need of numbers: the least element of a set, induction over a set, the values of a recursive function, sums over a finite set |

`Intercept` and `Process` share only the variables of `Wire`; each action of
one leaves the other's variables alone (`Client`, `Server` in `Tracing`).
`Tracing` has many threads and one process, `Session` many processes of one
thread each; `LeakDetect`, `Lookup`, `Profile` and `MemMap` begin where those
end, at a table of blocks. `Windows` has of a process only the status that its
signals report, and `Speed` of a program only its one thread.

### Intercept

A step is what runs between two points where another thread or memprof can see
or change shared state. A wrapped call is therefore several steps: the C library
is called (`do_malloc`, `do_realloc`, `do_free`, which change `heap` at once);
`mi_tracing` is tested; the backtrace may be elided (`Elide`, before a number is
taken, as in `mi_write_stack`); the number is taken (`TakeSeqno`, atomic); an
unregistered thread connects (`new_process`, `Response`; `ConnectError` when
memprof is gone, where the library ends the program); the header and the frames
are written (`WriteInfo`, `WriteFrames`), or a write fails and tracing stops
(`WriteFails`). `atexit_trap`, `exit_wait` and `Exited` are the exit path.
`Die` is the end of the process: after exit, or, with the fault `kill`, at any
point. `calloc` and `memalign` report `MI_MALLOC` and are `do_malloc`.

The program is a correct one: it passes to `realloc` and `free` only pointers
that were returned to it and that no call in progress is working on (`Usable`).
The C library is external: it hands out any free address, may return the same
one from `realloc`, frees on `realloc(p, 0)`, and, with the fault `oom`, fails.

`log` is a history variable, the reports in the order they were numbered. No
action reads it.

### Process

memprof is one thread. `srv` says where it is: in the main loop, in `input_func`
blocked on the frames of a report, or in the loop that ends `process_command`;
the queue is a set, with the head of the sorted list defined by `queue_compare`
(`IsHead`). `Apply` is the body of `process_command`. A stack is named by the
number of the report it came with, so that pairing the wrong header and frames
would show; `NULL` stands for the uninitialised buffer `input_func` uses when
the program dies between the two (`FramesEOF`), and for the absent stack of
`MI_EXIT`.

The MPProcess of a thread is its `status` and `input_tag`; `pid_entry` is the
server's `pid_table` at the one pid the threads share under NPTL, which each
clone overwrites. `AnswerNobody` is a write to a socket whose other end is
closed: memprof leaves `SIGPIPE` at its default. `CloneOfNobody` is the
`g_error` of `control_func`.

Numbers keep their width: `seqno` modulo `SeqMod`, `bytes_used` and a block's
size modulo `ByteMod` (both 2^32 in the code, small in the runs).

### Session

A process is a place (`at`), the memory it runs in (`space`, an index into
`image`, so that a vfork child can borrow its parent's) and its parent. An image
has the library's `seqno`, `tracing` and `outfd`, and a heap. A connection keeps
the processes that hold its descriptor (`held`: fork duplicates it, exec and
exit let go), what memprof has not read, and the answer. An `MPProcess` has its
status, pid, channel, number, table, queue and whether a window shows it;
`pid_table` maps pids to them. A report is one message here: its two parts are
the business of `Tracing`.

`fork`, `vfork`, `execve`, `atexit_trap`, `exit_wait` and the reports are steps
of a process; `control_func` (with `Refuses`, `process_exec_reset`,
`process_duplicate`), `input_func` and `InputEOF` are steps of memprof, in any
order the main loop can take; `process_run`, `process_detach`, `process_kill`
are the user's. `AnswerNobody` and `DetachUnconnected` end memprof (`SIGPIPE`,
`SIGSEGV`).

### LeakDetect

memprof does nothing else during `leaks_find`, so the model is that function cut
at the points where the program or the kernel can come between: attach, a
`SIGSTOP` per clone, a wait per clone, `open`, preparing, one block scanned,
collecting, resuming. The program stores pointers until it is stopped and can be
killed anywhere. `Threads` are the pids memprof stops: one per thread with
LinuxThreads, a single one with NPTL, where a pid stands for all threads.
`find_block` is the code's binary search; `Reach` is the reference, the blocks
that words lead to. Hexadecimal numbers read with a decimal format are modelled
by what `sscanf` makes of them (`HexScans`, `HexAsDecimal`). Reference counts of
blocks are followed across searches, frees and resets.

### Lookup

A map is where it lies, whether its file is the program's own, the addresses of
its functions and how far they are displaced (`bias`, which the code must guess:
`do_offset`). `process_locate_symbol` takes one of the four ways of
`locate_map` and then searches one iteration a step, with the arithmetic of
`guint`. That the symbols of a map are read at its first use is not a step of
its own: files do not change in the model.

### StackStash and Profile

A node of the stash is a number; a node of a tree of functions is named by the
symbols that lead to it. A symbol is a pointer: in the model the file and the
function with the reading of the maps that it stems from. `Visit` is one call of
`process_locate_symbol` in the loops of `block_create_stack_list` and
`profile_add_stack_trace`, in their order; `locate_map` reads all maps again at an
address that none of them holds (`process_read_maps`), or calls its page bad, and
`now` is what the program shows each time, which may differ. When the program has
ended there is nothing to be read, and memprof crashes. The other calls that fill
or change the list are `find_line` and `read_sections`. `profile_create`, the caller
list and the descendant tree are operators that follow the code's loops (`Descend` is one round of
`add_trace_to_tree`, with its marks); the properties compare them with sums over
the reported stacks. A free takes a block from the table and leaves the stash
alone; `Process` has it, `Profile` does not.

### Speed

One thread, and a handler (`sig`) that can run between any two of its steps:
between `init_sighandler`, the handler's installation and `profile_type` in
`mi_start`, between the number and the report in `exit_wait`. The three timers
(the real-time clock, the performance counter, the interval timer) are chosen as
`mi_start` does, with the fallback when a device is missing or `setitimer`
fails. Descriptors are part of the state, with their owner, because the handler
writes to whatever `thread->outfd` names: `Open` is the program taking a free
number, `harm` records a write to, or a close of, a descriptor of the program.
`early` records a signal in the middle of `mi_start`. memprof's side is
`process_command` for `MI_TIME` and `MI_EXIT`, where a sample is a block of one
byte at an address of its own.

### Control and Windows

`Control` has the steps of `create_control_socket` and `ensure_cleanup`, with
other memprofs that make and remove sockets in between (`Other`), SIGTERM at any
point, calls that fail (`fatal`), `terminate_io_handler`, and the children that are
copies of memprof until their `execvp()` and share its pipe and its `atexit` handler.

In `Windows` a C function that runs to its end is an operator on `gui`, the
state of all windows; actions are what the main loop dispatches: a process that
connects, starts to exit or ends, a click, an answer. The calls a function makes
are applied in the code's order, so `process_window_destroy` includes
`check_quit`, and a change of status runs both handlers, that of the tree and
that of the window. A dialog is a state of its own (`prompt`) in which the
processes go on. Use of a freed window or of a NULL process or channel sets
`fate` to `crashed`.

### Meter and MemMap

`Meter` keeps `usage_max` in the width of a `guint`, with the loop of
`update_status` by what it computes (`Stops`, and `hung` when there is no end).
An entry of the history remembers, for the properties only, what made it and
whether it is older than the last reset.

`MemMap` is one action, `dw_draw_memmap`: it computes the bands of the regions
and the colour of every pixel, in the order in which the code draws (resident
pages, blocks, swapped pages; one region after another), in unsigned arithmetic.

### Mutated forms

Definitions named `Variant_Name` (`NoLoop_QueueDone`, `AtMost_Before`...) are
`Name` with one plausible bug. No action uses them: they show, when put in place
of `Name`, that the properties notice.

## 3. Runs

Deadlock is not an error anywhere: a program may finish and a user may stop
clicking. A name with parts in brackets is the conjunction of these.

| Run | Instance | Checks |
|---|---|---|
| `faults` | 2 threads, 3 calls, elided reports, a kill at any point, detach and quit at any point | `InStep`: once nothing is on its way, the queue is empty and `pseqno = seqno`; `Accounted`: every number handed out and not applied is with its thread, on a wire, being read or queued, and none is behind memprof's counter; `StackIsAllocators`: a block's stack and size are those of the report that allocated it, and a stack is missing only after the program died; `PipeNeedsDeath`: SIGPIPE ends memprof only when the program, or the root's socket, is gone; `PidEntryLive`: the pid's entry never leads to a process that has ended, and is gone only after one has |
| `replay` | 2 threads, 2 addresses, `ByteMod` 4, failing calls, a kill, reset | `ReplaysTheLog`: `Tracing` implements `ReplayLog`; `TypeOK`; `CountMatches`, `BytesMatch`: the totals shown are those of the table |
| `mirror` | 1 thread, 2 addresses, sizes 0 and 6, 5 calls, record toggled | `YellowIsAllocated`: at rest the table is the heap |
| `live` | 2 threads, 2 calls, kill, detach, quit; `FairSpec` | `NobodyHangs` (`CallReturns`, `ExitAnswered`): the program gets out of its calls and of its exit; `ReportApplied`: what was numbered is applied |
| `session` | 2 pids, 1 address, 3 calls, all four sets of options; fork, exec, exit, kill, detach | `OneOwner`: a traced process is the one its pid leads to, and no second MPProcess reads its socket; `ImageInStep`: an earlier image does not show in its MPProcess; `SessionInv` (`SessionTypeOK`, `OnlyTheProgram`, `RunningIsTraced`, `StartingWaits`): unfollowed children are never traced, and statuses say what is so |
| `session_live` | the same with vfork, without detach; `FairSession` | `ConnectionsServed` (`HelloAnswered`, `EndSeen`): whoever connects is answered, and when the last holder of a socket is gone memprof finds out; `ExitHasWindow` |
| `leaks` | 2 threads, 3 blocks, a section and a stack of a word, 3 stores, 2 searches, a kill at any point; `LeakSpec` | `LeaksBetween`: what is reported lies between what sections do not lead to and what neither they nor the stack lead to; `LeakInv` (`LeakTypeOK`, `ScansStillMemory`, `ProgramResumed`): the program is stopped while its memory is read, and runs again after; `ShownBlocksLive`: what is shown has not been freed; `SearchEnds` |
| `lookup` | 6 maps, of which up to 3 at a time, 4, 3, 1 and no symbols; `FairLookup` | `LookupInv` (`LookupTypeOK`, `RightMap`, `Bracketed`): the search is of the map that holds the address, and keeps it between its ends; `NearestSymbol`; `LookupEnds` |
| `profile` | 13 stacks of up to 6 frames, 3 sizes, 2 blocks, a skipped function; a library that is mapped or not at each of up to 2 readings in a profile | `StashExact` (`TracesKept`, `StashShares`): the trie gives back each stack and holds it once; `FlatTotals` (`FunctionTotals`, `CallerTotals`, `OneEntryEach`) and `ReportExact` (`DescendantTotals`, `OnePercentListed`, `SymbolsRight`): the lists, the tree and the 1% of both in the file are sums over the reported stacks, and a function has one entry if all symbols stem from one reading of the maps; these symbols are then those of the functions that the maps have at the addresses |
| `speed` | each kind of timer, at three rates, with and without its device; 3 signals, an exec, an exit, a detach, a refusal; `FairSpeed` | `SamplesKept` (`SamplesCounted`, `SamplesInStep`): every sample sent is counted once or on its way, and the queue empties although `MI_EXIT` is numbered before samples that precede it; `OwnDescriptors`: while tracing is on the handler leaves the program's descriptors alone; `SpeedInv` (`SpeedTypeOK`, `StaysArmed`, `SignalsHandled`, `ClockFollows`): the timer is armed, at the rate asked for, with a handler; `SamplingGoesOn`; `ExitReturns`: samples do not hold up the exit |
| `windows` | 3 processes, 2 windows, a name in `/tmp`, 2 retries; `FairSpec` | `WindowsInv` (`WindowsTypeOK`, `OneRowEach`, `TimersSafe`, `HandlersMatch`, `NoStaleReport`): window, row, timer, handlers and reports come and go together; `OldestShown`: the user is not left without a window; `CrashNeeds`: memprof uses freed windows in two named cases only; `SocketOwned` (`OwnSocket`, `CleanExit`): it removes no socket but its own, and leaves that behind only when it ends before `socket_paths` has its name, by an unhandled signal, a second signal or a failing `pipe()`; `TermEnds`: a signal ends it, dialogs or not |
| `display` | 4-bit counters, a history of 3; widgets of 1–3 by 1–7 pixels, up to 3 regions | `MeterInv` (`MeterTypeOK`, `ScaleTight`, `HangNeedsHalf`): the scale is the smallest that holds the mark, and is found; `GraphFits`: the graph is of one measurement; `PictureExact` (`MapFits`, `FirstRegionExact`, `PagesSeen`): rounding keeps bands in the picture, and the blocks and pages of the first region in their own pixels |

### What is known not to hold

The properties above are stated, or checked, without these cases. Each is what
the code does, and can be seen by changing the named constant, or by checking
the named formula, or the negation of the named state, as an invariant.

| Where | What happens | To see it |
|---|---|---|
| `lib/memintercept.c:201` | `do_free` calls the C library before its report is numbered; the address comes back to another thread whose report is numbered first, and the table ends without a block the program holds | `YellowIsAllocated` with `Threads = {t1, t2}` |
| `lib/memintercept.c:167` | a failed `realloc` is reported with `new_ptr = NULL` and the old block is dropped | `mirror` with `Faults = {"oom"}` |
| `src/process.c:71` | the queue is sorted by the raw number, so it sticks when the counter wraps; `InStep` has the hypothesis `NoWrap` | `InStepAlways`, `SeqMod` 4, 5 calls |
| `src/server.c:548` | the pid's entry is gone while threads of the program still connect: `g_error` | `CloneHasParent` with `detach` |
| `src/server.c:529` | exec closes the old socket before the new image connects; if memprof reads that end of file first, it forgets the pid and refuses the program | `OnlyForksRefused` in `session` |
| `src/process.c:458` | a followed child starts from the number memprof has got to, not its own | `ChildInStep` in `session` |
| `src/server.c:515` | with `--follow-exec` the first connection makes a second MPProcess and the first stays STARTING | `StartingWaits` without its first disjunct |
| `lib/intercept.c:388` | an unfollowed child keeps its parent's socket open, so the parent's end is not seen | `EndSeen` for the process instead of its socket |
| `lib/intercept.c:416` | a refused vfork child stops the tracing of its parent | `RunningIsTraced` with `vfork` |
| `src/server.c:526` | a detached process that execs before it is forgotten runs on without a window | `ExitHasWindow` with `detach` |
| `src/leakdetect.c:174` | stacks are not found, so blocks they hold are reported | `LeakedIsUnreachable` in `leaks` |
| `src/leakdetect.c:358` | with 8-byte words twice the block is read; near the end of a mapping it is given up | `WordSize = 8` and addresses to match |
| `src/leakdetect.c:416` | a failed `open` leaves the program stopped | `leaks` with `"open"` |
| `src/leakdetect.c:408` | a zombie is waited for without end | `leaks` with `"zombie"` |
| `src/process.c:321` | only the upper half of the comment's invariant is tested before the search; below the first symbol it is false, and with one symbol the loop does not end | `SearchInvariant` in `lookup` |
| `src/process.c:188` | a lookup after the process has ended passes NULL to `fgets` | `at = "SIGSEGV"` is reached in `lookup`, `memprof = "SIGSEGV"` in `profile` |
| `src/process.c:1038` | symbols are compared as pointers, and an address in no cached map has all maps read anew, in the middle of a profile too: a function gets several entries with split totals, and its recursion through them is not recognised | `FunctionsOnce` in `profile`: what `ChangeLog:273` asks for, "Don't assume that symbols can be compared by comparing their addresses" |
| `src/profile.c:610` | a function with zero-sized blocks only is divided by | `memprof = "SIGFPE"` is reached in `profile` |
| `lib/speedintercept.c:99`, `:145` | a signal between the arming of the timer and the handler ends the program; a timer that survives an exec does the same | `main = "killed"` is reached in `speed` |
| `lib/speedintercept.c:226` | a signal before `profile_type` is set re-arms another timer, and is the last | `StaysArmed` without `early` |
| `lib/speedintercept.c:173` | the handler does not ask `mi_tracing()`: after a detach or a refusal it writes to, and closes, descriptors of the program | `harm = {}` in `speed` |
| `src/main.c:1641` | `check_quit` looks at the oldest window only, and quits while others are shown | a step that hides a window and makes `memprof` `quitting` leaves `gui.shown` non-empty |
| `src/main.c:880` | after a detach with several windows the handlers stay connected to the freed window, which the process's end then uses | `CrashNeeds` without its second case |
| `src/main.c:1680`, `src/process.c:977` | a process ends while a dialog asks about it, or is detached before it has connected: its window, or its NULL channel, is used | `CrashNeeds` without its first case |
| `src/server.c:226` | a child that is killed before `execvp()` writes to the pipe it shares with memprof and ends it; killed twice, it exits and removes the socket | `OwnSocket` without its hypothesis on children |
| `src/server.c:458` | the socket is bound before its name is in `socket_paths`: a signal before the handlers are set, a second signal after, or a failing `pipe()` leaves it in `/tmp` | `ExitCleans` in `windows`, and for `killed` too; the comment at `src/server.c:81` has the list "so we can cleanup in an atexit() function" |
| `src/server.c:337` | a signal between `signal()` and `pipe()` is written nowhere, and memprof goes on | `term.terminated => term.pipe # "none"` in `windows` |
| `src/main.c:218` | with more than 2^31 bytes in use the scale is doubled to zero and `update_status` does not return | `meter = "hung"` is reached in `display` |
| `src/detailwin.c:514` | the history is kept over resets and new programs and drawn against the present mark | `GraphFits` without `now` |
| `src/detailwin.c:320` | with as many regions as lines there is a division by zero; with more, the sizes wrap | `picture.fate = "SIGFPE"` is reached in `display` |
| `src/detailwin.c:172` | `y` includes the band's own offset, so that `x` is wrong in all regions but the first; of a block that spans more than two lines only two are drawn | `FirstRegionExact` for other regions |

### Bounds

`MaxCalls` bounds the wrapped calls, and so the numbers. Three calls are enough
for two reports to be queued behind a third, in either order; two threads are
enough for a report to overtake another. The third thread, whose report can wait
in the queue between those of two others, is covered by the proofs. `WireCap` 2
is the smallest buffer in which a whole report fits and a second one blocks half
sent. One address suffices where order is the question; two are used where
blocks move or totals add up.

In `Session` two pids give a parent and a child, each of which can exec; three
calls allow an allocation, a fork and an exec in any order, or two execs and a
report. `process_run` is clicked once, pids are not reused, and `MaxConns`,
`MaxObjs` follow from `MaxCalls`.

In `LeakDetect` three blocks are enough for a chain (section, block, block) and
for the search among three, with sizes that are not multiples of a word and a
pointer into the middle of a block; two searches let a second one find the first
one's report. In `Lookup` four symbols make the search take both halves. In
`Profile` two blocks are enough for a stack to meet the nodes of another, and
the long stacks have loops in loops; `f` has two call sites. With two pages a profile
reads the maps at most twice, once for each page it misses, so that `MaxReads` 2
leaves none out.

In `Speed` three signals allow one in the middle of start-up, one while the
program runs and one inside `exit_wait`; one exec makes an image that meets what
the first one left, and two descriptors let the program take the number that the
library had. In `Windows` three processes give a program, its child and another
that is run in the window the first leaves, and the second window is the
child's; with one name in `/tmp` every two
memprofs meet. In `Display` the levels lie on both sides of each doubling and of
the highest bit; a picture is drawn from the first state only, since it does not
depend on the one before. Three regions are enough for a middle one, and seven
lines for all roundings of up to three bands.

### Fairness

`Fairness` in `Tracing`: a thread inside a wrapper keeps running (weak, per
thread); memprof's own loops keep running (weak); and each source of the main
loop that is ready again and again is dispatched (strong, per source), because
GLib polls all sources and dispatches every ready one of a priority before it
polls again. Control connections have a higher priority than input, but each
thread connects once, so they cannot starve input. `SessionFairness` needs only
weak fairness per process, connection and `MPProcess`, for there a ready source
stays ready until it is dispatched. In `LeakDetect` memprof keeps running and
the kernel stops a thread that has `SIGSTOP` pending; in `Lookup` the loop keeps
running. In `Speed` the kernel delivers the signals of armed timers, the handler
and the library's start-up and exit run on, and memprof serves its sources; in
`Windows` memprof's start-up, its terminate pipe, the return from `gtk_main` and
the end of `main` are taken when they can be (all weak). Nothing is assumed of the program's next call, of the user, or of
death.

## 4. Proofs

A theorem holds for every value of the constants that the assumption of its
module allows, and a hypothesis beyond that is in the table. The assumptions
say little: bounds are numbers, `NULL` is nobody's name, and in `LeakDetect` that
the heap is finite and its blocks lie apart, that pointers are integers, that
sections are blocks and that the stack grows downwards; in `Lookup` that maps are
made of pages (`PageAssumption`), that `qsort` puts their symbols in order, that
two indices add up to a `guint` (`SortAssumption`), and how linkers displace the
symbols of libraries and of programs (`BiasAssumption`); in `Speed` that a rate is
between 2 and a million samples a second, and that descriptors are numbers, 0
and 1 among them; in `Meter` that the smallest scale is a power of two that a
`guint` holds; in `Profile` that stacks are of addresses with a page, and that sizes
fit a `guint`.

| Theorem | Statement | Hypothesis |
|---|---|---|
| `TypeCorrect` | `Spec => []TypeOK` | |
| `CountsAgree` | `Spec => []CountMatches` | |
| `OrderKept` | `Spec => []OrderInv` | |
| `QueueKeepsStep` | `Spec => []InStep` | |
| `NumbersAccounted` | `Spec => []Accounted` | |
| `EntryKept` | `Spec => []PidEntryLive` | |
| `PipeNeedsEnd` | `Spec => []PipeNeedsDeath` | |
| `LogKept` | `Spec => [](ShapeInv /\ LogInv)` | |
| `StacksAreOwn` | `Spec => []StackIsAllocators` | |
| `TracingReplays` | `Spec => ReplaysTheLog`: `Tracing` implements `ReplayLog` | `[]NoWrap` |
| `BytesAgree` | `Spec => []BytesMatch` | |
| `YellowIsHeap` | `Spec => [](NoWrap => YellowIsAllocated)` | one thread; no call fails, no report is elided, no reset |
| `SaidIsSo` | `SessionSpec => []SessionInv` | `NoVfork` |
| `OwnersAreOne` | `SessionSpec => []OneOwner` | `NoVfork` |
| `ImagesInStep` | `SessionSpec => []ImageInStep` | `NoVfork` |
| `ExitsHaveWindows` | `SessionSpec => []ExitHasWindow` | `NoVfork`, `NoDetach` |
| `FindBlockFinds` | `find_block` returns the block of a set that holds an address, and `NULL` when none does | the array is the set, sorted |
| `SearchKept` | `LeakSpec => []SearchInv` | |
| `BlocksLive` | `LeakSpec => []ShownBlocksLive` | |
| `LeakKept` | `LeakSpec => []LeakInv` | all threads are listed, `open` succeeds |
| `ReportsBetween` | `LeakSpec => []LeaksBetween` | all threads are listed, the words `scan_block` reads of blocks and sections can be read |
| `SearchBracketed` | `LookupSpec => []Bracketed` | |
| `SymbolIsNearest` | `LookupSpec => []NearestSymbol` | |
| `LookupKept` | `LookupSpec => []LookupInv` | |
| `StashKept` | `ProfSpec => []StashExact` | |
| `FlatListsAreSums` | `ProfSpec => []FlatTotals` | |
| `StaysTimed` | `SpeedSpec => []SpeedInv` | |
| `DescriptorsAreSafe` | `SpeedSpec => []OwnDescriptors` | |
| `SamplesAreKept` | `SpeedSpec => []SamplesKept` | |
| `ScaleFits` | `MeterSpec => []MeterInv` | |
| `GraphOfNow` | `MeterSpec => []GraphFits` | |
| `WindowsKept` | `Spec => []WindowsInv` | |
| `OldestStays` | `Spec => []OldestShown` | |
| `SocketStaysOwn` | `Spec => []SocketOwned` | |
| `CrashesExcused` | `Spec => CrashNeeds`, an action property | |

### Tracing

`CountMatches` is inductive with the finiteness of the table's domain.
`PidEntryLive` is inductive with `TypeOK`: only `InputEOF` ends an MPProcess, and
it removes the entry that names it.

`InStep` is not inductive: it says something of quiet states only. The
invariant (`OrderInv`, in `TracingInv`) has four parts.

* `ConnInv`: a thread, its socket and its MPProcess agree how far the
  connection has got (a thread that waits for an answer has its hello on the
  wire or the answer ready, a broken socket means that one end is gone).
* `WireInv`: frames follow their header, only the last part can be a header
  alone, and then its thread is about to write the frames; if memprof waits
  for frames, they are the next part of that socket.
* `ReadInv`: memprof waits only for reports that have frames.
* `NumberInv`: the numbers with the threads, on the wires, in `input_func` and
  in the queue lie between the two counters, are nowhere twice (`Apart`), and,
  while both ends are there, none is missing (`Complete`); the queue does not
  hold the number that is due, except while it is being drained.

The first three are kept action by action. For the fourth there is one lemma for
each way a number moves (`Take`, `Send`, `Receive`, `Enqueue`, `Dequeue`,
`Advance`, `Lose`), and every action is one or two such moves.
`InStep` follows: in a quiet state every number between the counters would be
in the queue, the one that is due cannot be, so there is none.

`PipeNeedsDeath` needs to know which end closes first (`HoldInv`): memprof does
not close a socket it listens to, and a thread that is alive does not close one
on which it owes frames or waits for an answer. So a write of memprof finds a
closed socket only after a death, or after the root's own socket was closed.

For `StackIsAllocators` the log comes in. `LogInv` says that each report with a
thread, on a wire, in `input_func` or in the queue is the one the log has at its
number, that a queued one carries its own stack, or none once the program is
dead, and that a block in the table is what the log has at the number of its
stack. Numbers below the modulus make the log's index and the report's number
the same thing, which is why the refinement has the hypothesis `NoWrap`; with
`InStep`'s order, `Apply` is then the step of `ReplayLog` that applies the next
entry (`ApplyIsEffect`), and every other step leaves the abstract state alone
(`ReplayStep`). Without `NoWrap` the code does not implement it (section 3).

`BytesMatch` relates a counter to a sum over the table. `Total` folds the table in
an order nobody fixes, so the proof first shows that the order is of no matter
(`AnyOrder`, from a set with the fewest elements on which two orders differ), and
then that a block more or less is its size more or less (`TotalInsert`,
`TotalDelete`), whether the width of the counter is cut at each step or once
(`ModSum`). What is true of any sum is in `Recursion`.

`YellowIsAllocated` is about a table that has caught up. Its invariant `CatchesUp`
says it of every state: the sizes in the table, changed by the reports that are
numbered and not yet applied, in the order of the log, and by the call in
progress, are the sizes of the heap; and tracing stays on as long as memprof
listens to the thread. A report that is applied moves from the log to the table,
a call that is numbered from the call in progress to the log. With two threads
this is false, for the order of the calls is not that of their numbers (section 3);
after a failed call, an elided report or a reset it is false for one.

### Session

`FullInv` is one invariant for all four theorems, because each part needs the
others. `SpaceInv`: every process has a memory of its own. `ObjInv`: the pid
table leads to objects of that pid, and no two objects read one connection.
`PendingInv`: a connection that memprof has not accepted is held by the process
that made it alone, has a true hello to be read and nothing else. `OwnerInv`: a
process that traces holds the connection its memory names, and if memprof has
accepted it, the table leads to the object that reads it. On these rest
`QuietInv` (no process that is not traced is said to be running), `StartInv`
(a waiting object is the one the table has, and nothing of its pid is open) and
`StepInv`: the reports on their way, applied in order to the object's table
(`After`), give the heap of the program (`Leads`). `ImageInStep` is `StepInv` with
no report on its way; an exec keeps it because the new image, empty and at
number 0, meets an object that `process_exec_reset` has just made so.

The hypothesis is needed: in the code a vfork child stores its own descriptor
over its parent's (`new_process` in memory they share), and `OwnerInv` is then
false of the parent. `ExitHasWindow` also needs the windows (`ShownInv`: what is
in the table or has a channel has a window), which a detach takes away. With
vfork `ExitHasWindow` is only model-checked (`session_live`).

### LeakDetect

`FindBlockFinds` is about the binary search, a recursive function over the
interval: the two ends of `narrow` enclose the last block that does not begin above the
address, and induction is over their distance. `SearchInv` says, whatever
clones are listed and whatever fails: those that memprof has got through with do
not run (`Stilled`), the sorted array is the table (`InSearch`), and a block's
references are at least the places that hold it (`Counted`), from which
`ShownBlocksLive` follows. That the *program* is stopped, and runs again, takes two
more facts: threads die together (`DiesWhole`), and during a search all of them
are listed (`StoppedInSearch`). The code guarantees neither that
`process_get_clones` lists all nor that it detaches when `open` fails; these are
the hypotheses of `LeakKept`, and the `open` failure is one of the cases of
section 3.

`ReportsBetween` is about marking, which no loop of the code bounds in advance.
`Reach(S)` is the least set of blocks closed under following words (`PointsTo`),
written as the intersection of all closed sets, so that it needs no recursion.
`Marking` holds during the scan: what is marked can be reached from the sections
and the stack, what is still to be scanned is a root or was marked, and the
successors of every block that is a section or marked, and not still to be
scanned, are marked. So when the list is empty the marked blocks are a closed
set: they contain `Reach(Sections)` and are contained in the larger `Reach`. That
memory does not change meanwhile is `StoppedInSearch`, hence the first hypothesis;
the second is needed because `scan_block` gives a block up that it cannot read
to its end, and it reads `(size + 3) / 4` words whatever their width.

### Lookup

`SearchBracketed` and `SymbolIsNearest` are proved together, from an invariant
that says what a search in progress has: a sorted list, indices in range with
`first <= last`, and, if some symbol is at or before the address, ends that
enclose it (`SearchInv` in `ProfileProofs`). When the loop stops the ends are
neighbours, and order does the rest. Without the hypothesis (`InRange`) the
first is false. For `RightMap` the caches are followed: until something is
unmapped the cached maps are the program's, no page is called bad, and a page
that has held code still does (`Cached`); so the map found is the one that holds
the address (`Located`).

### StackStash and Profile

`StashExact` rests on `WellMade`, what a stash is after any number of nodes: a
parent is older than its children, `*location` leads to the newest child, and the
`siblings` of a node to the next older one, so that a list of siblings is all
children of a node (`SiblingsAre`) and a node is made only where there is none for
the address (`NodeAdded`). New nodes change nothing for old ones (`UpwardsStays`),
and each round of the loop puts one address in front of the way up (`BelowStep`):
after the loop the way up is the stack (`TraceAdded`). The fold that is the
loop, and the lists and ways that follow pointers, are recursive functions; that
they exist is shown first (`RoundsExist`, `Descent`).

`FlatTotals` is about the profile that is shown, and follows from `StashInv` when it
is made. A stack adds its bytes to every node on its way down (`StackAdded`). The
code sums over some nodes only: for a function the toplevel ones, for a caller
those that `TopPair` finds. Both are the same idea: of the nodes that end in f, or
in a call of f by c, those that have no other such node above them (`First`;
`ToplevelIs`, `TopPairIs`). A stack that passes any of the nodes passes exactly
one of the first (`FirstIs`), so it is counted once however deep it recurses
(`TotalsGrow`), and when all blocks are in the tree the sum over the first nodes is
the sum over the blocks that pass them (`TreeTotals`), each cut to the width of a
`guint`. The order of the blocks does not matter. These stacks are lists of
pointers, whatever readings they stem from (`SymbolizedIs`). That a function has one
entry when there was one list is `OneString`: the count of readings only grows along
the loops (`WalkIs`, `LoopsExist`), and the symbols of one count are those of one
list (`SymbolMade`, `MapsLocated`). From two lists it can have more (section 3). The
tree of descendants is not covered: its counts are compared with one another, which
wrapping sums do not allow.

### Speed

`SpeedIInv` has four parts, each inductive with `SpeedTypeOK` and the first.
`HandlerInv`: no handler runs before it is installed or after the end, and a number
is held only between the steps that take and that write it. `OwnsInv`: while
tracing is on, `outfd` names the library's socket, or a closed number that nobody
has opened since; with it no write and no close can hit a descriptor of the
program. `TimingInv`: which timers there can be with which devices
(`TimersInv`), that the signal of each has its handler and `profile_type` is the
timer's (`SignalsInv`), and that the timer is armed from `mi_start` on except
while its own handler runs (`ArmedInv`). The rate of the clock is the value of
`irq_rate`, whose loop over powers of two is a set of numbers with a least element
(`ClockIs`).

`ConnectionInv` is `InStep`'s argument again, for a thread and a handler that
interrupts it: each number from the one that memprof expects to the library's next
is held, unread or queued, each exactly once (`NumbersInv`), and what was read
was counted (`ReadInv`). `process_command` takes reports from the queue until one
does not fit; its result is given by a recursive function of how many it took
(`Processed`, with `Iterated` from `Recursion`), and it stops at a number that is
neither applied nor queued. When nothing is held or unread, that number can only
be the library's own.

### Meter

`MeterIInv` adds to `MeterInv` that the scale is a power of two (`ScaleInv`), so
that doubling it goes on to the next and a mark that is not above half a `guint` is
met before it wraps, and that the marks of the present measurement do not fall
along the history (`HistoryInv`), which `dw_update` keeps when it shifts
(`Shifted`). The powers are values of a recursive function; `Recursion` has them.

### Windows and Control

`GuiInv` is about the windows as a value, so that each C function that is an
operator on `gui` has a lemma that it keeps it (the functions are applied one
after another in an action, and the lemmas with them). It has four parts: rows are
those of the windows that show a process, with its status; no two windows show one
process, and timers run where a process is shown; the handlers of a process lead
to windows that show it or to ones freed after its end; every window is on
gtk's list. `OldestShown` is inductive with it because `check_quit` looks at
just that window. `ControlInv` follows `create_control_socket` through its
stages: until `bind` no socket is memprof's, afterwards exactly one may be, it is
the one on the list to be removed, and children that are still copies of
memprof are the only others who could remove it. `CleanExit` needs from it when the
handlers are set, and that there is no pipe until all three calls of
`ensure_cleanup` are through (`FatalKeeps`, `ExitKeeps`). The two halves meet only in
what `CrashNeeds` excuses, and in the children's processes being known.

### What stays with TLC

Liveness (fairness and `ENABLED` are outside the prover): `CallReturns`,
`ReportApplied`, `HelloAnswered`, `SearchEnds`, `SamplingGoesOn` and the others.
The tree of descendants, the file and the names of `Profile` (`ReportExact`). The picture of `MemMap`. `Session` with vfork.

The induction theorems of the proof library take an operator and cannot be used.
In their place, for a *set* of numbers, lemma `Least` of `Recursion` has a least
element from `WFMin`, `Induct` induction from it, and `Iterated` the
existence of recursive functions of a number. This is what the searches, the
marking, the powers of two and the queue of `Speed` rest on.

## 5. Not modelled

Text, lists and preferences (`src/treeviewutils.c`, the filling of the profile
and leak lists, saving to files); the machine-level stack walk (its failure is
the fault `elide`); the inode cache, which only remembers what `/proc` and
`stat()` say; memory lifetimes inside memprof other than those of windows
(dangling stacks after a reset); in `Tracing` and `Session` descriptor and pid
numbers that are reused (a closed socket stays closed there; `Speed` has the
numbers); signals interrupting a system call, which the code retries;
maps without a name in `Profile` (their symbol would be `NULL`, one for all readings);
initialisation before `main()`; `__clone` itself (a thread exists from the start
and connects at its first report; when `clone()` fails the code spins for ever);
threads and several processes in one model; timers of forked children, which
have none; the counts, flags and iterators of the stash that memprof does not
use; the dashed lines and names of regions in the memory map.

## 6. Plan

Done: tracing of one process, sessions of several, leak detection, symbol
lookup, stash and profile, the speed interceptor, memprof's start, signals and
windows, the meter and the memory map. Left, in this order:

1. Proofs: `PictureExact` of `MemMap`.
2. Threads and exec in one model: clone sockets of an old image that outlive an
   exec, and the reports they still hold.
3. Leak detection over a table that is behind the heap.

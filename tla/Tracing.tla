------------------------------ MODULE Tracing -------------------------------
(***************************************************************************)
(* One traced image and memprof together: the intercept library of every   *)
(* thread (Intercept), memprof's main loop (Process) and the sockets       *)
(* between them (Wire).                                                    *)
(***************************************************************************)
EXTENDS Intercept, Process, FiniteSetsExt

vars == <<wireVars, localVars, processVars>>

Init == WireInit /\ InterceptInit /\ ProcessInit

Client == InterceptNext /\ UNCHANGED processVars
Server == ProcessNext /\ UNCHANGED localVars

Next == Client \/ Server

Spec == Init /\ [][Next]_vars

\* A thread that is in a wrapper keeps running.  The main loop dispatches
\* every source that is ready before it polls again, so a socket with input
\* is not passed over for ever: strong fairness per source.  The program need
\* not make another call, nor the user click.
Fairness ==
  /\ \A t \in Threads : WF_vars(CallStep(t) /\ UNCHANGED processVars)
  /\ WF_vars((unqueue_command \/ QueueDone \/ ReadFrames \/ FramesEOF)
             /\ UNCHANGED localVars)
  /\ \A t \in Threads :
       /\ SF_vars((control_func(t) \/ CloneOfNobody(t)) /\ UNCHANGED localVars)
       /\ SF_vars((input_func(t) \/ ReadExit(t)) /\ UNCHANGED localVars)
       /\ SF_vars(InputEOF(t) /\ UNCHANGED localVars)

FairSpec == Spec /\ Fairness

-----------------------------------------------------------------------------
TypeOK == WireTypeOK /\ InterceptTypeOK /\ ProcessTypeOK

\* memprof still reads the root's socket and the program is running.
Attached == alive /\ memprof = "up" /\ peer[Main] = "open"

\* No report is on its way: none is numbered and unsent, none is on a wire,
\* memprof is between callbacks.
Quiet ==
  /\ Attached
  /\ \A t \in Threads :
       pc[t] \notin {"numbered", "await", "frames"} /\ wire[t] = <<>>
  /\ srv = "loop"

\* Fewer reports than the counter has values (src: uint32_t seqno).
NoWrap == Len(log) < SeqMod

\* The command queue does its work (process.c, process_command): once every
\* numbered report has been delivered, in whatever order the threads' sockets
\* were read, none is left in the queue and memprof expects exactly the number
\* the library will hand out next.
InStepAlways == Quiet => command_queue = {} /\ pseqno = seqno

InStep == NoWrap => InStepAlways

\* Where a numbered report can be before memprof applies it: with its thread,
\* on the wire, in input_func's hands, in the queue.
HandSeqs(t) == IF pc[t] \in {"numbered", "await"} THEN {info[t].seqno} ELSE {}
Numbers(w)  == {w[k].info.seqno : k \in {j \in 1..Len(w) : w[j].part = "info"}}
WireSeqs(t) == Numbers(wire[t])
ReadSeqs    == IF srv = "frames" THEN {cmd.seqno} ELSE {}
QueueSeqs   == {c.info.seqno : c \in command_queue}

Pending ==
  ReadSeqs \cup QueueSeqs
    \cup UNION {HandSeqs(t) \cup WireSeqs(t) : t \in Threads}

\* No number memprof still has to see is behind its counter, which would be
\* queued for ever (unqueue_command looks at the head only); and while both
\* ends are there every number between the two counters is somewhere.
Accounted ==
  NoWrap =>
    /\ Pending \subseteq pseqno..(seqno - 1)
    /\ Attached => pseqno..(seqno - 1) \subseteq Pending

\* The stack and the size memprof shows for a block are those of the report
\* that allocated it, although the reports of many threads arrive on many
\* sockets in two parts each; a stack is missing only if the program died
\* between the parts (input_func does not look at count).
StackIsAllocators ==
  NoWrap =>
    \A a \in DOMAIN block_table :
      LET b == block_table[a] IN
      IF b.stack = NULL THEN ~alive
      ELSE /\ log[b.stack + 1].new_ptr = a
           /\ log[b.stack + 1].size % ByteMod = b.size

\* What update_status shows is what is in the table, whatever order reports
\* are applied in and however often the user resets: the number of blocks ...
CountMatches == n_allocations = Cardinality(DOMAIN block_table)

\* ... and the sum of their sizes, in a counter of its own width.
Total(table) == MapThenSumSet(LAMBDA a : table[a].size, DOMAIN table)

BytesMatch == bytes_used = Total(block_table) % ByteMod

\* "Yellow = Allocated": with nothing on its way and no call in progress, the
\* table memprof draws is the program's heap (a Block's size is a guint).
TableSizes == [a \in DOMAIN block_table |-> block_table[a].size]
HeapSizes  == [a \in DOMAIN heap |-> heap[a] % ByteMod]

YellowIsAllocated ==
  Quiet /\ (\A t \in Threads : pc[t] = "run") => TableSizes = HeapSizes

\* The pid's entry, which each clone that connects overwrites and only the clone
\* it names removes (server.c, mp_server_remove_process), never leads to a process
\* that has ended, and is gone, so that the next clone is met by g_error, only
\* after one has ended.
PidEntryLive ==
  IF pid_entry = NULL THEN \E t \in Threads : status[t] = "DEFUNCT"
  ELSE status[pid_entry] \in {"RUNNING", "EXITING", "DETACHED"}

\* Process death and user clicks apart, a clone always finds its parent
\* (control_func's g_error).  This does not hold once the user has detached,
\* or a thread has exited, while others have yet to connect.
CloneHasParent == memprof # "g_error"

\* memprof is not killed by writing to a socket whose program is still there
\* to read it: control_func and process_detach answer a live thread only.
PipeNeedsDeath == memprof = "SIGPIPE" => ~alive \/ fd[Main] = "closed"

\* What memprof promises (ReplayLog): whatever the interleaving of threads and
\* sockets, the table is the replay of the numbered log, in order, each report
\* once and with its own stack.
Replay == INSTANCE ReplayLog
            WITH Width <- ByteMod, replayed <- pseqno, table <- block_table, running <- alive

ReplaysTheLog == Replay!Spec

\* A wrapped allocator call returns, however memprof behaves.
CallReturns ==
  \A t \in Threads :
    (pc[t] # "run" /\ info[t].operation \in AllocOps)
      ~> (pc[t] = "run" \/ ~alive)

\* A numbered report is applied, unless an end goes away or the user detaches.
ReportApplied ==
  \A n \in 1..MaxCalls :
    Len(log) >= n ~> (pseqno >= n \/ ~Attached)

\* A thread that exits after the user detached, and any thread but the root,
\* is let go.
ExitAnswered ==
  \A t \in Threads \ {Main} :
    pc[t] = "exitwait" ~> (pc[t] # "exitwait" \/ ~alive)

\* The program does not hang in the library because of memprof: its calls return,
\* and its threads get out of their exit handshake.
NobodyHangs == CallReturns /\ ExitAnswered

=============================================================================

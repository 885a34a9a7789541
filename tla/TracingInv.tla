----------------------------- MODULE TracingInv -----------------------------
(***************************************************************************)
(* The inductive invariant behind InStep, Accounted and the refinement of  *)
(* ReplayLog: how a connection and its thread go together, what a socket   *)
(* can hold, and that every number handed out and not yet applied is in    *)
(* exactly one place.                                                      *)
(***************************************************************************)
EXTENDS Tracing

\* A thread, its socket and its MPProcess agree about how far the connection
\* has got.
ConnOf(t) ==
  /\ fd[t] = "open" => alive
  /\ fd[t] = "none" =>
       /\ status[t] = "INIT" /\ wire[t] = <<>>
       /\ pc[t] \in {"run", "called", "backtrace", "numbered", "exited"}
  /\ alive /\ pc[t] = "await" =>
       /\ t # Main /\ fd[t] = "open"
       /\ \/ status[t] = "INIT" /\ reply[t] = NULL /\ wire[t] = <<Hello>>
          \/ status[t] = "RUNNING" /\ reply[t] = 1 /\ wire[t] = <<>>
  /\ status[t] = "INIT" /\ fd[t] = "open" => pc[t] = "await"
  /\ status[t] = "INIT" => wire[t] \in {<<>>, <<Hello>>}
  /\ status[t] = "INIT" => reply[t] = NULL
  /\ memprof = "up" /\ t # Main => peer[t] # "closed"
  /\ Attached /\ fd[t] = "closed" => pc[t] \in {"closing", "exited"}
  /\ pc[t] = "frames" => info[t].operation \in AllocOps
  /\ pc[t] = "exitwait" => info[t].operation = "MI_EXIT"
  /\ info[t].operation # "MI_CLONE"

ConnInv ==
  /\ fd[Main] # "none" /\ status[Main] # "INIT"
  /\ \A t \in Threads : ConnOf(t)

\* The parts on a socket: frames follow the header they belong to, and only
\* the last part can be a header without its frames.
Paired(w) ==
  /\ \A k \in 1..Len(w) - 1 :
       w[k].part = "info" => /\ w[k].info.operation \in AllocOps
                             /\ w[k + 1] = Frames(w[k].info)
  /\ \A k \in 2..Len(w) :
       w[k].part = "frames" => w[k - 1] = Header(w[k].info)

AllDifferent(w) ==
  \A j, k \in 1..Len(w) :
    /\ w[j].part = "info" /\ w[k].part = "info"
    /\ w[j].info.seqno = w[k].info.seqno
    => j = k

WaitsFor(t) == srv = "frames" /\ reading = t

\* What is on t's socket fits what t is doing and what memprof is reading.
WireOf(t) ==
  LET w == wire[t] IN
  /\ Paired(w)
  /\ status[t] # "INIT" =>
       \A k \in 1..Len(w) : /\ w[k].part # "hello"
                            /\ w[k].info.operation # "MI_CLONE"
  \* the first part
  /\ w # <<>> /\ WaitsFor(t) => w[1] = Frames(cmd)
  /\ w # <<>> /\ ~WaitsFor(t) => w[1].part # "frames"
  \* the last part
  /\ w # <<>> /\ w[Len(w)].part = "info" /\ fd[t] = "open" =>
       pc[t] \in {"frames", "exitwait"} /\ info[t] = w[Len(w)].info
  /\ w = <<>> /\ WaitsFor(t) /\ fd[t] = "open" =>
       pc[t] = "frames" /\ info[t] = cmd
  /\ pc[t] = "frames" /\ ~Broken(t) =>
       IF w = <<>> THEN WaitsFor(t) /\ cmd = info[t]
       ELSE w[Len(w)] = Header(info[t])

WireInv == \A t \in Threads : WireOf(t)

\* memprof waits for frames only of a report that has some, on a live watch.
ReadInv ==
  srv = "frames" => cmd.operation \in AllocOps /\ status[reading] # "INIT"

\* The numbers with threads (H), on wires (W), in input_func (R) and in the
\* queue (Q) lie between the two counters and are nowhere twice ...
Apart(H, W, R, Q, lo, hi) ==
  /\ \A t \in Threads : \A n \in H[t] :
       /\ lo <= n /\ n < hi /\ n \notin R /\ n \notin Q
       /\ \A u \in Threads : n \notin W[u] /\ (u # t => n \notin H[u])
  /\ \A t \in Threads : \A n \in W[t] :
       /\ lo <= n /\ n < hi /\ n \notin R /\ n \notin Q
       /\ \A u \in Threads : u # t => n \notin W[u]
  /\ \A n \in R : lo <= n /\ n < hi /\ n \notin Q
  /\ \A n \in Q : lo <= n /\ n < hi

\* ... and none between the counters is missing.
Complete(H, W, R, Q, lo, hi) ==
  \A n \in lo..(hi - 1) :
    n \in R \/ n \in Q \/ \E t \in Threads : n \in H[t] \/ n \in W[t]

Hands == [t \in Threads |-> HandSeqs(t)]
Wires == [t \in Threads |-> WireSeqs(t)]

QueueInv ==
  /\ \A c, d \in command_queue : c.info.seqno = d.info.seqno => c = d
  /\ srv # "drain" => pseqno \notin QueueSeqs

\* Every number that is out is in exactly one place.
Placed ==
  /\ seqno = Len(log) /\ pseqno <= seqno
  /\ Apart(Hands, Wires, ReadSeqs, QueueSeqs, pseqno, seqno)
  /\ Attached => Complete(Hands, Wires, ReadSeqs, QueueSeqs, pseqno, seqno)
  /\ QueueInv
  /\ \A t \in Threads : AllDifferent(wire[t])

NumberInv == NoWrap => Placed

\* memprof reads t's socket for reports.
Listening(t) == memprof = "up" /\ status[t] \in {"RUNNING", "EXITING"}

\* A header of t's was read, or is the last thing sent, whose frames are still
\* to come.
Owed(t) ==
  IF wire[t] = <<>> THEN WaitsFor(t)
  ELSE LET last == wire[t][Len(wire[t])] IN
       last.part = "info" /\ last.info.operation \in AllocOps

\* Neither end closes early: memprof does not while it listens, nor a live
\* thread while it owes frames or has yet to be answered.
HoldOf(t) ==
  /\ Listening(t) => peer[t] = "open"
  /\ Listening(t) /\ alive /\ Owed(t) => fd[t] = "open"
  /\ t # Main =>
       /\ alive /\ reply[t] = 1 => pc[t] = "await"
       /\ reply[t] = 0 => status[t] \notin {"INIT", "RUNNING"}
       /\ memprof = "up" /\ alive /\ status[t] \in {"INIT", "RUNNING"} =>
            fd[t] # "closed"

HoldInv ==
  /\ \A t \in Threads : HoldOf(t)
  /\ memprof = "up" /\ srv = "frames" => Listening(reading)

\* Only a report with a stack allocates.
StackedIfNew(i) == i.new_ptr # NULL => i.operation \in AllocOps

ShapeInv ==
  /\ \A t \in Threads : StackedIfNew(info[t])
  /\ \A k \in 1..Len(log) : StackedIfNew(log[k])

\* Every report on its way is the one the log has at its number, and a queued
\* one carries its own stack, or none once the program has died.
Logged(i) == i.seqno < Len(log) /\ i = log[i.seqno + 1]

WireLogged(w) ==
  \A k \in 1..Len(w) : w[k].part = "info" => Logged(w[k].info)

OwnStack(i, stack) ==
  i.operation \in AllocOps => stack = i.seqno \/ (stack = NULL /\ ~alive)

Delivered ==
  /\ \A t \in Threads :
       /\ pc[t] \in {"numbered", "await", "frames"} => Logged(info[t])
       /\ WireLogged(wire[t])
  /\ srv = "frames" => Logged(cmd)
  /\ \A c \in command_queue : Logged(c.info) /\ OwnStack(c.info, c.stack)

\* A block in the table is what the report that allocated it says.
Reported(a, b) ==
  IF b.stack = NULL THEN ~alive
  ELSE /\ b.stack < Len(log)
       /\ log[b.stack + 1].new_ptr = a
       /\ log[b.stack + 1].size % ByteMod = b.size

TableReported == \A a \in DOMAIN block_table : Reported(a, block_table[a])

LogInv == NoWrap => Delivered /\ TableReported

OrderInv == ConnInv /\ WireInv /\ ReadInv /\ NumberInv

=============================================================================

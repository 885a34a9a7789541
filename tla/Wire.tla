-------------------------------- MODULE Wire --------------------------------
(***************************************************************************)
(* What travels between the intercept library inside a traced program and  *)
(* memprof (lib/memintercept.h), and the socket each thread owns.          *)
(*                                                                         *)
(* A report is sent in two parts, as the library sends it: the MIInfo      *)
(* record, then the stack frames.  The frames part carries the report it   *)
(* was sent for, so that a reader which pairs the wrong parts is visible.  *)
(* One traced image is modelled; its threads share one pid (NPTL).         *)
(***************************************************************************)
EXTENDS Integers, Sequences

CONSTANTS
  Threads,  \* the threads of the traced program
  Main,     \* the thread that connected with MI_NEW: the root MPProcess
  Addrs,    \* the addresses the C library's allocator hands out
  Sizes,    \* the sizes the program asks for
  NULL,     \* the null pointer
  SeqMod,   \* the width of an MIInfo's seqno: 2^32 in the code
  WireCap   \* parts a socket buffer holds before send() blocks

ASSUME WireAssumption ==
  /\ Main \in Threads
  /\ NULL \notin Addrs \cup Threads
  /\ NULL \notin Nat
  /\ Sizes \subseteq Nat
  /\ SeqMod \in Nat \ {0}
  /\ WireCap \in Nat \ {0}

VARIABLES
  wire,     \* wire[t]: the parts sent on t's socket and not yet read
  fd,       \* fd[t]: the library's end of t's socket (ThreadInfo.outfd)
  peer,     \* peer[t]: memprof's end of it (the accepted descriptor)
  reply,    \* reply[t]: the byte memprof wrote and t has not read, or NULL
  memprof   \* "up", or how memprof ended: "quit", "g_error", "SIGPIPE"

wireVars == <<wire, fd, peer, reply, memprof>>

Pointers == Addrs \cup {NULL}

\* MIOperation: the operations that are reports with a stack; MI_EXIT is one
\* without.  MI_CLONE opens a thread's socket (the "hello" part).
AllocOps == {"MI_MALLOC", "MI_REALLOC", "MI_FREE"}

\* struct _MIInfoAlloc; MI_EXIT and MI_CLONE use its common head only.
MIInfo ==
  [operation : AllocOps \cup {"MI_EXIT", "MI_CLONE"}, old_ptr : Pointers,
   new_ptr : Pointers, size : Nat, seqno : Nat]

\* A zeroed MIInfo with its operation and pointers filled in.
Info(op, old, new, size) ==
  [operation |-> op, old_ptr |-> old, new_ptr |-> new, size |-> size,
   seqno |-> 0]

\* The two writes of a report, and the record a new thread connects with.
Header(i) == [part |-> "info", info |-> i]
Frames(i) == [part |-> "frames", info |-> i]
Hello     == [part |-> "hello", info |-> Info("MI_CLONE", NULL, NULL, 0)]

Parts == [part : {"info", "frames", "hello"}, info : MIInfo]

\* send() fails at once (EBADF, EPIPE) when an end of t's socket is closed,
\* and blocks while the buffer is full.
Broken(t)  == fd[t] # "open" \/ peer[t] = "closed"
CanSend(t) == ~Broken(t) /\ Len(wire[t]) < WireCap

\* read() on t's socket sees end of file: the program closed its end and
\* everything it sent was read.
AtEOF(t) == fd[t] # "open" /\ wire[t] = <<>>

Sent(t, part) == wire' = [wire EXCEPT ![t] = Append(@, part)]
Took(t)       == wire' = [wire EXCEPT ![t] = Tail(@)]

WireTypeOK ==
  /\ wire \in [Threads -> Seq(Parts)]
  /\ fd \in [Threads -> {"none", "open", "closed"}]
  /\ peer \in [Threads -> {"none", "open", "closed"}]
  /\ reply \in [Threads -> {NULL, 0, 1}]
  /\ memprof \in {"up", "quit", "g_error", "SIGPIPE"}

\* The root process is connected before main() runs (construct()).
WireInit ==
  /\ wire = [t \in Threads |-> <<>>]
  /\ fd = [t \in Threads |-> IF t = Main THEN "open" ELSE "none"]
  /\ peer = [t \in Threads |-> IF t = Main THEN "open" ELSE "none"]
  /\ reply = [t \in Threads |-> NULL]
  /\ memprof = "up"

=============================================================================

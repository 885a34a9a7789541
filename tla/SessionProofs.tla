---------------------------- MODULE SessionProofs -----------------------------
(***************************************************************************)
(* Proofs about Session, for any number of processes, addresses and calls: *)
(* who is traced, by which MPProcess, and what that knows of the program.  *)
(*                                                                         *)
(* They are of programs that do not call vfork: its child writes its own   *)
(* descriptor over its parent's (new_process), which then no longer holds  *)
(* the connection that memprof knows it by.                                *)
(***************************************************************************)
EXTENDS Session, SequenceTheorems, TLAPS

NoVfork == "vfork" \notin Can

-----------------------------------------------------------------------------
(* The inductive invariant.                                                *)

ProcRecords(n) ==
  [at : Places, space : 0 .. n, parent : Pids \cup {NULL}, borrows : BOOLEAN]
ImageRecords(n) == [heap : SUBSET Addrs, seqno : Nat, tracing : BOOLEAN, outfd : 0 .. n]
ObjRecordsTo(n) ==
  [status : Statuses, pid : Pids, channel : 0 .. n, seqno : Nat,
   table : SUBSET Addrs, queue : SUBSET Reports, window : BOOLEAN]

\* The state, typed one piece at a time.
Typed(P, I, C, O, T) ==
  /\ P \in [Pids -> ProcRecords(Len(I))]
  /\ I \in Seq(ImageRecords(Len(C)))
  /\ C \in Seq(ConnRecords)
  /\ O \in Seq(ObjRecordsTo(Len(C)))
  /\ DOMAIN T \subseteq Pids /\ T \in [DOMAIN T -> DOMAIN O]

Exists(p) == proc[p].at # "none"

\* Each process has a memory of its own, and the ones to come have left no trace.
SpaceAt(p) ==
  /\ proc[p].at # "vfork" /\ ~proc[p].borrows
  /\ Exists(p) => proc[p].space \in DOMAIN image
  /\ ~Exists(p) => p \notin DOMAIN pid_table /\ \A c \in DOMAIN conn : p \notin conn[c].held

SpaceInv ==
  /\ obj = <<>> => image = <<>> /\ conn = <<>> /\ \A p \in Pids : ~Exists(p)
  /\ \A p \in Pids : SpaceAt(p)
  /\ \A p, q \in Pids :
       Exists(p) /\ Exists(q) /\ proc[p].space = proc[q].space => p = q

\* The server's table leads to objects of the pid, and no two objects read one
\* connection.
ObjAt(o) ==
  /\ Exists(obj[o].pid)
  /\ obj[o].status \in {"RUNNING", "EXITING"} => obj[o].channel # None
  /\ obj[o].channel # None =>
       /\ conn[obj[o].channel].peer # "pending"
       /\ \A u \in DOMAIN obj : obj[u].channel = obj[o].channel => u = o

ObjInv ==
  /\ \A p \in DOMAIN pid_table : obj[pid_table[p]].pid = p
  /\ \A o \in DOMAIN obj : ObjAt(o)

\* The reports that the program makes.
Sent == {r \in Reports : r.operation = "MI_EXIT" <=> r.ptr = NULL}

IsHello(h, p) ==
  /\ h \in Hellos /\ h.new_pid = p
  /\ \/ h.operation = "MI_NEW" /\ h.pid = NULL
     \/ h.operation = "MI_FORK" /\ h.pid = proc[p].parent /\ h.pid # NULL

\* A connection that memprof has not accepted yet was made by p, who is waiting for
\* the answer if it is still there.
PendingOf(c, p) ==
  /\ Exists(p) /\ conn[c].held \subseteq {p} /\ Len(conn[c].unread) = 1
  /\ IsHello(Head(conn[c].unread), p)
  /\ conn[c].held # {} =>
       /\ proc[p].at = "await" /\ Mem(p).outfd = c
       /\ Head(conn[c].unread).operation = "MI_NEW" => Mem(p).seqno = 0 /\ Mem(p).heap = {}
       /\ Head(conn[c].unread).operation = "MI_FORK" => p \notin DOMAIN pid_table

ConnAt(c) ==
  /\ conn[c].peer = "pending" => \E p \in Pids : PendingOf(c, p)
  /\ conn[c].peer = "open" => conn[c].unread \in Seq(Sent)

PendingInv == \A c \in DOMAIN conn : ConnAt(c)

\* A process that traces holds the connection that its memory names, and if memprof
\* has accepted that, the table leads to the object that reads it.
Accepted(p, c) ==
  /\ p \in DOMAIN pid_table /\ obj[pid_table[p]].channel = c
  /\ proc[p].at = "await" =>
       conn[c].answer = 1 /\ obj[pid_table[p]].status = "RUNNING" /\ conn[c].unread = <<>>

Connected(p) == proc[p].at \in {"await", "run", "exitwait"} /\ Tracing(p)

OwnerAt(p) ==
  /\ proc[p].at \in {"start", "forked", "await", "exitwait"} => Tracing(p)
  /\ proc[p].at = "start" => Mem(p).seqno = 0 /\ Mem(p).heap = {}
  /\ proc[p].at = "forked" => p \notin DOMAIN pid_table /\ proc[p].parent # NULL
  /\ Connected(p) =>
       LET c == Mem(p).outfd IN
       /\ c # None /\ p \in conn[c].held
       /\ conn[c].peer = "pending" => proc[p].at = "await" /\ conn[c].answer = NULL
       /\ conn[c].peer = "open" => Accepted(p, c)

OwnerInv == \A p \in Pids : OwnerAt(p)

\* A process that runs untraced, or is about to find out, is not said to be running.
Unheard(p) ==
  \/ proc[p].at = "run" /\ ~Tracing(p)
  \/ /\ proc[p].at \in {"await", "run"} /\ Tracing(p)
     /\ conn[Mem(p).outfd].peer = "closed"

QuietAt(p) ==
  memprof = "up" /\ p \in DOMAIN pid_table /\ Unheard(p)
    => obj[pid_table[p]].status # "RUNNING"

QuietInv == \A p \in Pids : QuietAt(p)

\* An object that waits for its program to connect is the one that the table has.
StartAt(o) ==
  obj[o].status = "STARTING" =>
    /\ obj[o].channel = None
    /\ ~FollowExec => /\ find_process(obj[o].pid) = o
                      /\ \A c \in DOMAIN conn :
                           conn[c].peer = "open" => obj[o].pid \notin conn[c].held

StartInv == \A o \in DOMAIN obj : StartAt(o)

\* a is in the table once the reports in s are applied to it.
After(table, s, a) ==
  IF \E i \in DOMAIN s : s[i].ptr = a
  THEN \E i \in DOMAIN s : /\ s[i].ptr = a /\ s[i].operation = "MI_MALLOC"
                           /\ \A j \in DOMAIN s : s[j].ptr = a => j <= i
  ELSE a \in table

\* The reports on their way, s, lead from what the object knows to the memory m.
Leads(object, s, m) ==
  /\ object.queue = {} /\ object.seqno + Len(s) = m.seqno
  /\ \A i \in DOMAIN s : s[i].seqno = object.seqno + i - 1
  /\ \A a \in Addrs : a \in m.heap <=> After(object.table, s, a)

StepAt(p) ==
  LET c == Mem(p).outfd IN
  proc[p].parent = NULL /\ proc[p].at \in {"await", "run"} /\ Tracing(p) /\ conn[c].peer = "open"
    => Leads(obj[pid_table[p]], conn[c].unread, Mem(p))

StepInv == \A p \in Pids : StepAt(p)

\* Nobody detaches: what is in the table or reads a connection has its window.
ShownInv ==
  /\ \A p \in DOMAIN pid_table : obj[pid_table[p]].window
  /\ \A o \in DOMAIN obj : obj[o].channel # None => obj[o].window

LinkInv == SpaceInv /\ ObjInv /\ PendingInv /\ OwnerInv
FullInv ==
  /\ Typed(proc, image, conn, obj, pid_table)
  /\ calls \in 0 .. MaxCalls /\ memprof \in {"up", "SIGPIPE", "SIGSEGV"}
  /\ LinkInv /\ QuietInv /\ StartInv /\ OnlyTheProgram /\ StepInv

-----------------------------------------------------------------------------
(* The steps, record by record.                                            *)

\* The type invariant, one part at a time.
LEMMA TypeParts ==
  SessionTypeOK <=> /\ Typed(proc, image, conn, obj, pid_table)
                    /\ calls \in 0 .. MaxCalls /\ memprof \in {"up", "SIGPIPE", "SIGSEGV"}
BY DEF SessionTypeOK, Typed, ProcRecords, ImageRecords, ObjRecords, ObjRecordsTo

\* Records typed for few memories, or connections, are so for more.
LEMMA TypesGrow ==
  ASSUME NEW i \in Nat, NEW j \in Nat, i <= j
  PROVE  /\ ProcRecords(i) \subseteq ProcRecords(j)
         /\ ImageRecords(i) \subseteq ImageRecords(j)
         /\ ObjRecordsTo(i) \subseteq ObjRecordsTo(j)
<1>1. 0 .. i \subseteq 0 .. j
  OBVIOUS
<1> QED
  BY <1>1 DEF ProcRecords, ImageRecords, ObjRecordsTo

\* What is known of a sequence, of its growing, and of its ends.
LEMMA Elements ==
  ASSUME NEW S, NEW s \in Seq(S)
  PROVE  /\ DOMAIN s = 1 .. Len(s) /\ Len(s) \in Nat
         /\ \A i \in 1 .. Len(s) : s[i] \in S
OBVIOUS

LEMMA SeqGrows ==
  ASSUME NEW S, NEW T, S \subseteq T, NEW s \in Seq(S)
  PROVE  s \in Seq(T)
OBVIOUS

LEMMA Appends ==
  ASSUME NEW S, NEW s \in Seq(S), NEW e \in S
  PROVE  /\ Append(s, e) \in Seq(S) /\ Len(Append(s, e)) = Len(s) + 1
         /\ \A i \in 1 .. Len(s) : Append(s, e)[i] = s[i]
         /\ Append(s, e)[Len(s) + 1] = e
OBVIOUS

\* A sequence with one element, or each, changed.
LEMMA Changes ==
  ASSUME NEW S, NEW s \in Seq(S), NEW i \in 1 .. Len(s), NEW e \in S
  PROVE  LET t == [s EXCEPT ![i] = e] IN
         /\ t \in Seq(S) /\ Len(t) = Len(s) /\ t[i] = e
         /\ \A j \in 1 .. Len(s) : j # i => t[j] = s[j]
OBVIOUS

\* A sequence with every element changed.
LEMMA Maps ==
  ASSUME NEW S, NEW s \in Seq(S), NEW t, t = [i \in DOMAIN s |-> t[i]],
         \A i \in 1 .. Len(s) : t[i] \in S
  PROVE  t \in Seq(S) /\ Len(t) = Len(s)
<1>1. DOMAIN s = 1 .. Len(s) /\ Len(s) \in Nat
  OBVIOUS
<1>2. t \in [1 .. Len(s) -> S]
  BY <1>1
<1> QED
  BY <1>1, <1>2

\* The connections and the objects, typed.
LEMMA Connections ==
  ASSUME Typed(proc, image, conn, obj, pid_table)
  PROVE  /\ DOMAIN conn = 1 .. Len(conn) /\ Len(conn) \in Nat
         /\ \A c \in DOMAIN conn : conn[c] \in ConnRecords
BY Elements DEF Typed

LEMMA Objects ==
  ASSUME Typed(proc, image, conn, obj, pid_table)
  PROVE  /\ DOMAIN obj = 1 .. Len(obj) /\ Len(obj) \in Nat
         /\ \A o \in DOMAIN obj :
              /\ obj[o] \in ObjRecordsTo(Len(conn))
              /\ obj[o].channel # None => obj[o].channel \in DOMAIN conn
<1>1. DOMAIN obj = 1 .. Len(obj) /\ Len(obj) \in Nat
      /\ \A o \in 1 .. Len(obj) : obj[o] \in ObjRecordsTo(Len(conn))
  BY Elements DEF Typed
<1>2. \A o \in DOMAIN obj : obj[o].channel # None => obj[o].channel \in 1 .. Len(conn)
  BY <1>1, Connections DEF ObjRecordsTo, None
<1> QED
  BY <1>1, <1>2, Connections

\* An entry of the server's table leads to an object (find_process).
LEMMA TableLeads ==
  ASSUME Typed(proc, image, conn, obj, pid_table), NEW p \in DOMAIN pid_table
  PROVE  p \in Pids /\ pid_table[p] \in DOMAIN obj /\ find_process(p) = pid_table[p]
BY DEF Typed, find_process, Has

\* A process that exists has a memory.
LEMMA HasMemory ==
  ASSUME Typed(proc, image, conn, obj, pid_table), SpaceInv, NEW p \in Pids, Exists(p)
  PROVE  /\ proc[p].space \in 1 .. Len(image)
         /\ Mem(p) \in ImageRecords(Len(conn))
<1>1. /\ DOMAIN image = 1 .. Len(image)
      /\ \A i \in 1 .. Len(image) : image[i] \in ImageRecords(Len(conn))
  BY Elements DEF Typed
<1>2. proc[p].space \in 1 .. Len(image)
  BY <1>1 DEF SpaceInv, SpaceAt
<1> QED
  BY <1>1, <1>2 DEF Mem

\* p's memory is written: no other process sees it.
MemoryIs(p, n, r) ==
  /\ image' \in Seq(ImageRecords(n)) /\ Len(image') = Len(image)
  /\ Mem(p)' = r
  /\ \A q \in Pids : q # p /\ Exists(q) => Mem(q)' = Mem(q)

LEMMA MemoryWritten ==
  ASSUME Typed(proc, image, conn, obj, pid_table), SpaceInv, NEW p \in Pids, Exists(p),
         NEW n \in Nat, Len(conn) <= n, NEW r \in ImageRecords(n),
         image' = [image EXCEPT ![proc[p].space] = r],
         \A q \in Pids : proc'[q].space = proc[q].space
  PROVE  MemoryIs(p, n, r)
<1>1. proc[p].space \in 1 .. Len(image)
  BY HasMemory
<1>2. Len(conn) \in Nat
  BY DEF Typed
<1>3. image \in Seq(ImageRecords(n))
  BY <1>2, TypesGrow, SeqGrows DEF Typed
<1>4. /\ image' \in Seq(ImageRecords(n)) /\ Len(image') = Len(image)
      /\ image'[proc[p].space] = r
      /\ \A j \in 1 .. Len(image) : j # proc[p].space => image'[j] = image[j]
  BY <1>1, <1>3, Changes
<1>5. \A q \in Pids : q # p /\ Exists(q) =>
        proc[q].space # proc[p].space /\ proc[q].space \in 1 .. Len(image)
  BY HasMemory DEF SpaceInv
<1> QED
  BY <1>4, <1>5 DEF Mem, MemoryIs

\* Nothing borrows a memory, so a process that leaves one wakes nobody.
LEMMA LeavesAlone ==
  ASSUME Typed(proc, image, conn, obj, pid_table), SpaceInv,
         NEW p \in Pids, NEW place, NEW space, Leaves(p, place, space)
  PROVE  /\ proc'[p] = [proc[p] EXCEPT !.at = place, !.space = space, !.borrows = FALSE]
         /\ \A q \in Pids : q # p => proc'[q] = proc[q]
<1>1. \A q \in Pids : ~WaitsFor(q, p)
  BY DEF SpaceInv, SpaceAt, WaitsFor
<1> QED
  BY <1>1 DEF Leaves

\* The connection of a process that traces is one.
LEMMA Outfd ==
  ASSUME Typed(proc, image, conn, obj, pid_table), SpaceInv, OwnerInv,
         NEW p \in Pids, Connected(p)
  PROVE  Mem(p).outfd \in DOMAIN conn
<1>1. Exists(p)
  BY DEF Connected, Exists
<1>2. Mem(p).outfd \in 0 .. Len(conn) /\ Mem(p).outfd # 0
  BY <1>1, HasMemory DEF ImageRecords, OwnerInv, OwnerAt, None
<1> QED
  BY <1>2, Connections

-----------------------------------------------------------------------------
(* What a step leaves alone.                                               *)

\* Neither the process q nor what memprof has of it is touched.
Kept(q) ==
  /\ proc'[q] = proc[q] /\ (Exists(q) => Mem(q)' = Mem(q))
  /\ q \in DOMAIN pid_table' <=> q \in DOMAIN pid_table
  /\ q \in DOMAIN pid_table =>
       pid_table'[q] = pid_table[q] /\ obj'[pid_table[q]] = obj[pid_table[q]]
  /\ Connected(q) =>
       LET c == Mem(q).outfd IN
       /\ conn'[c].peer = conn[c].peer /\ (q \in conn[c].held => q \in conn'[c].held)
       /\ conn[c].peer # "closed" =>
            conn'[c].answer = conn[c].answer /\ conn'[c].unread = conn[c].unread

\* What is true of a process stays so while a step leaves it alone.
LEMMA ProcessKept ==
  ASSUME NEW q \in Pids, OwnerAt(q), QuietAt(q), StepAt(q), Kept(q),
         memprof' = "up" => memprof = "up"
  PROVE  OwnerAt(q)' /\ QuietAt(q)' /\ StepAt(q)'
<1>1. proc'[q] = proc[q]
  BY DEF Kept
<1>2. CASE proc[q].at \in {"none", "vfork", "dead"}
  BY <1>1, <1>2 DEF OwnerAt, QuietAt, StepAt, Unheard, Connected
<1>3. CASE proc[q].at \notin {"none", "vfork", "dead"}
  <2>1. Mem(q)' = Mem(q) /\ Tracing(q)' = Tracing(q) /\ Connected(q)' = Connected(q)
    BY <1>1, <1>3 DEF Kept, Exists, Tracing, Connected
  <2>2. OwnerAt(q)'
    BY <1>1, <2>1 DEF Kept, OwnerAt, Accepted
  <2>3. QuietAt(q)'
    BY <1>1, <2>1 DEF Kept, QuietAt, Unheard, Connected
  <2>4. StepAt(q)'
    <3>1. SUFFICES ASSUME proc[q].parent = NULL, proc[q].at \in {"await", "run"}, Tracing(q),
                          conn'[Mem(q).outfd].peer = "open"
                   PROVE  Leads(obj[pid_table[q]], conn[Mem(q).outfd].unread, Mem(q))'
      BY <1>1, <2>1 DEF StepAt
    <3>2. Connected(q)
      BY <3>1 DEF Connected
    <3>3. conn[Mem(q).outfd].peer = "open" /\ q \in DOMAIN pid_table
      BY <3>1, <3>2 DEF Kept, OwnerAt, Accepted
    <3>4. Leads(obj[pid_table[q]], conn[Mem(q).outfd].unread, Mem(q))
      BY <3>1, <3>3 DEF StepAt
    <3>5. /\ (obj[pid_table[q]])' = obj[pid_table[q]]
          /\ (conn[Mem(q).outfd].unread)' = conn[Mem(q).outfd].unread
      BY <2>1, <3>2, <3>3 DEF Kept
    <3> QED
      BY <2>1, <3>4, <3>5 DEF Leads
  <2> QED
    BY <2>2, <2>3, <2>4
<1> QED
  BY <1>2, <1>3

\* memprof does nothing: its objects stay as good as they are.
LEMMA ObjectsKept ==
  ASSUME ObjInv, StartInv, OnlyTheProgram, UNCHANGED <<obj, pid_table, options>>,
         Typed(proc, image, conn, obj, pid_table),
         \A q \in Pids : Exists(q) => Exists(q)' /\ proc'[q].parent = proc[q].parent,
         \A c \in DOMAIN conn :
           c \in DOMAIN conn' /\ (conn'[c].peer = "pending" => conn[c].peer = "pending"),
         \A c \in DOMAIN conn' : conn'[c].peer = "open" =>
           /\ c \in DOMAIN conn /\ conn[c].peer = "open"
           /\ \A q \in conn'[c].held : Exists(q) => q \in conn[c].held
  PROVE  ObjInv' /\ StartInv' /\ OnlyTheProgram'
<1>1. \A o \in DOMAIN obj : obj[o].pid \in Pids
  BY Objects DEF ObjRecordsTo
<1>3. \A o \in DOMAIN obj : obj[o].channel # None => obj[o].channel \in DOMAIN conn
  BY Objects
<1>4. ObjInv'
  BY <1>1, <1>3 DEF ObjInv, ObjAt
<1>5. ASSUME NEW o \in DOMAIN obj PROVE StartAt(o)'
  <2>1. StartAt(o) /\ Exists(obj[o].pid) /\ obj[o].pid \in Pids
    BY <1>1 DEF StartInv, ObjInv, ObjAt
  <2>2. find_process(obj[o].pid)' = find_process(obj[o].pid) /\ FollowExec' = FollowExec
    BY DEF find_process, Has, FollowExec
  <2> QED
    BY <2>1, <2>2 DEF StartAt
<1>6. OnlyTheProgram'
  BY <1>1 DEF OnlyTheProgram, FollowFork, ObjInv, ObjAt
<1> QED
  BY <1>4, <1>5, <1>6 DEF StartInv

\* A connection that was not accepted still waits, and an open one carries reports.
LEMMA ConnectionKept ==
  ASSUME Typed(proc, image, conn, obj, pid_table), NEW c \in DOMAIN conn, ConnAt(c),
         conn'[c].peer = conn[c].peer,
         conn[c].peer = "pending" =>
           /\ conn'[c].unread = conn[c].unread /\ conn'[c].held \subseteq conn[c].held
           /\ \A r \in conn'[c].held :
                /\ proc'[r].at = "await" /\ Mem(r)' = Mem(r)
                /\ r \notin DOMAIN pid_table => r \notin DOMAIN pid_table',
         conn[c].peer = "open" => conn'[c].unread \in Seq(Sent),
         \A q \in Pids : Exists(q) => Exists(q)' /\ proc'[q].parent = proc[q].parent
  PROVE  ConnAt(c)'
<1>1. CASE conn[c].peer = "pending"
  <2>1. PICK p \in Pids : PendingOf(c, p)
    BY <1>1 DEF ConnAt
  <2>2. PendingOf(c, p)'
    <3>1. conn'[c].held # {} => conn'[c].held = {p} /\ conn[c].held # {}
      BY <1>1, <2>1 DEF PendingOf
    <3>2. Exists(p)' /\ conn'[c].held \subseteq {p} /\ Len(conn'[c].unread) = 1
          /\ IsHello(Head(conn[c].unread), p)'
      BY <1>1, <2>1 DEF PendingOf, IsHello
    <3> QED
      BY <1>1, <2>1, <3>1, <3>2 DEF PendingOf
  <2> QED
    BY <1>1, <2>2 DEF ConnAt
<1>2. CASE conn[c].peer # "pending"
  BY <1>2 DEF ConnAt
<1> QED
  BY <1>1, <1>2

\* A step of the program in which memprof has no part: what is left to show.
ConnectionStays(c) ==
  /\ c \in DOMAIN conn' /\ conn'[c].peer = conn[c].peer
  /\ \A q \in conn'[c].held : Exists(q) => q \in conn[c].held
  /\ conn[c].peer = "pending" =>
       /\ conn'[c].unread = conn[c].unread
       /\ \A q \in conn'[c].held : q \in conn[c].held /\ Kept(q)
  /\ conn[c].peer = "open" => conn'[c].unread \in Seq(Sent)

Told(q) == OwnerAt(q) /\ QuietAt(q) /\ StepAt(q)

\* The same, from what a step does to the connection.
LEMMA Waits ==
  ASSUME FullInv, NEW c \in DOMAIN conn, ConnectionStays(c),
         \A q \in Pids : Exists(q) => Exists(q)' /\ proc'[q].parent = proc[q].parent
  PROVE  ConnAt(c)'
<1>1. ConnAt(c) /\ ConnectionStays(c)
  BY DEF FullInv, LinkInv, PendingInv
<1>2. ASSUME conn[c].peer = "pending"
      PROVE  /\ conn'[c].unread = conn[c].unread /\ conn'[c].held \subseteq conn[c].held
             /\ \A r \in conn'[c].held :
                  /\ proc'[r].at = "await" /\ Mem(r)' = Mem(r)
                  /\ r \notin DOMAIN pid_table => r \notin DOMAIN pid_table'
  <2>1. PICK p \in Pids : PendingOf(c, p)
    BY <1>1, <1>2 DEF ConnAt
  <2>2. ASSUME NEW r \in conn'[c].held PROVE proc[r].at = "await" /\ Kept(r)
    BY <1>1, <1>2, <2>1 DEF ConnectionStays, PendingOf
  <2> QED
    BY <1>1, <1>2, <2>2 DEF ConnectionStays, Kept, Exists
<1>3. conn'[c].peer = conn[c].peer
      /\ (conn[c].peer = "open" => conn'[c].unread \in Seq(Sent))
  BY <1>1 DEF ConnectionStays
<1> QED
  BY <1>1, <1>2, <1>3, ConnectionKept DEF FullInv

\* Of a step of the program: memprof's side of the invariant is kept.
LEMMA ProgramSteps ==
  ASSUME FullInv, UNCHANGED <<objVars, memprof, options>>,
         Typed(proc, image, conn, obj, pid_table)', calls' \in 0 .. MaxCalls, SpaceInv',
         \A q \in Pids : Exists(q) => Exists(q)' /\ proc'[q].parent = proc[q].parent,
         DOMAIN conn' = DOMAIN conn, \A c \in DOMAIN conn : ConnectionStays(c),
         \A q \in Pids : Kept(q) \/ Told(q)'
  PROVE  FullInv'
<1>1. /\ Typed(proc, image, conn, obj, pid_table)
      /\ SpaceInv /\ ObjInv /\ PendingInv /\ OwnerInv
      /\ QuietInv /\ StartInv /\ OnlyTheProgram /\ StepInv
      /\ UNCHANGED <<obj, pid_table, memprof, options>>
  BY DEF FullInv, LinkInv, objVars
<1>2. ObjInv' /\ StartInv' /\ OnlyTheProgram'
  <2>1. \A c \in DOMAIN conn : c \in DOMAIN conn' /\ conn'[c].peer = conn[c].peer
    BY DEF ConnectionStays
  <2>2. \A c \in DOMAIN conn' : conn'[c].peer = "open" =>
          /\ c \in DOMAIN conn /\ conn[c].peer = "open"
          /\ \A q \in conn'[c].held : Exists(q) => q \in conn[c].held
    BY DEF ConnectionStays
  <2> QED
    BY <1>1, <2>1, <2>2, ObjectsKept
<1>3. PendingInv'
  <2>1. \A c \in DOMAIN conn : ConnAt(c)'
    BY Waits
  <2> QED
    BY <2>1 DEF PendingInv
<1>4. ASSUME NEW q \in Pids PROVE Told(q)'
  <2>1. CASE Kept(q)
    BY <1>1, <2>1, ProcessKept DEF OwnerInv, QuietInv, StepInv, Told
  <2> QED
    BY <2>1
<1> QED
  BY <1>1, <1>2, <1>3, <1>4 DEF FullInv, LinkInv, OwnerInv, QuietInv, StepInv, Told

\* Only a process that waits in memprof_init holds a connection not yet accepted.
LEMMA PendingHeld ==
  ASSUME PendingInv, NEW c \in DOMAIN conn, conn[c].peer = "pending", NEW p \in conn[c].held
  PROVE  p \in Pids /\ proc[p].at = "await" /\ Mem(p).outfd = c
BY DEF PendingInv, ConnAt, PendingOf

-----------------------------------------------------------------------------
(* The program's steps.                                                    *)

\* memprof_init and the child of a fork connect and say who they are (new_process).
LEMMA NewProcess ==
  ASSUME FullInv, NEW p \in Pids, new_process(p), UNCHANGED options
  PROVE  FullInv'
<1>0. /\ Typed(proc, image, conn, obj, pid_table)
      /\ SpaceInv /\ ObjInv /\ PendingInv /\ OwnerInv
      /\ QuietInv /\ StartInv /\ OnlyTheProgram /\ StepInv
  BY DEF FullInv, LinkInv
<1>2. proc \in [Pids -> ProcRecords(Len(image))] /\ Len(conn) \in Nat
  BY <1>0, Connections DEF Typed
<1> DEFINE first == IF proc[p].at = "start"
                    THEN [operation |-> "MI_NEW", pid |-> NULL, new_pid |-> p]
                    ELSE [operation |-> "MI_FORK", pid |-> proc[p].parent, new_pid |-> p]
           Made(hello) == [held |-> {p}, peer |-> "pending", unread |-> <<hello>>,
                          answer |-> NULL]
<1>1. PICK n, hello :
        /\ n = Len(conn) + 1 /\ hello = first
        /\ proc[p].at \in {"start", "forked"} /\ Exists(p)
        /\ conn' = Append(conn, Made(hello))
        /\ proc' = [proc EXCEPT ![p].at = "await"]
        /\ image' = [image EXCEPT ![proc[p].space].outfd = n]
        /\ UNCHANGED <<calls, obj, pid_table, memprof>>
  BY DEF new_process, objVars, Exists
<1> DEFINE made == Made(hello)
<1>3. OwnerAt(p) /\ Tracing(p)
  BY <1>0, <1>1 DEF OwnerInv, OwnerAt
<1>4. /\ hello \in Hellos /\ IsHello(hello, p)
      /\ hello.operation = "MI_NEW" => proc[p].at = "start"
      /\ hello.operation = "MI_FORK" => proc[p].at = "forked"
  <2>1. proc[p].parent \in Pids \cup {NULL}
    BY <1>2 DEF ProcRecords
  <2> QED
    BY <1>1, <1>3, <2>1 DEF Hellos, IsHello, OwnerAt
<1>5. /\ conn' \in Seq(ConnRecords) /\ Len(conn') = n
      /\ \A c \in DOMAIN conn : c \in DOMAIN conn' /\ conn'[c] = conn[c] /\ c # n
      /\ conn'[n] = made /\ n \in DOMAIN conn' /\ DOMAIN conn' = DOMAIN conn \cup {n}
  <2>1. <<hello>> \in Seq(Hellos \cup Reports)
    BY <1>4
  <2>2. made \in ConnRecords
    BY <2>1 DEF ConnRecords
  <2> HIDE DEF made
  <2>3. /\ conn' \in Seq(ConnRecords) /\ Len(conn') = n
        /\ \A c \in 1 .. Len(conn) : conn'[c] = conn[c]
        /\ conn'[n] = made
    BY <1>0, <1>1, <2>2, Appends DEF Typed, made
  <2> QED
    BY <1>0, <1>1, <1>2, <2>3, Connections, Elements
<1>6. /\ proc'[p] = [proc[p] EXCEPT !.at = "await"] /\ proc'[p].parent = proc[p].parent
      /\ proc'[p].at = "await" /\ \A q \in Pids : q # p => proc'[q] = proc[q]
      /\ \A q \in Pids : proc'[q].space = proc[q].space
      /\ proc' \in [Pids -> ProcRecords(Len(image))]
  BY <1>1, <1>2 DEF ProcRecords, Places
<1>7. /\ image' \in Seq(ImageRecords(n)) /\ Len(image') = Len(image)
      /\ Mem(p)' = [Mem(p) EXCEPT !.outfd = n]
      /\ Mem(p)'.outfd = n /\ Mem(p)'.tracing = Mem(p).tracing
      /\ Mem(p)'.seqno = Mem(p).seqno /\ Mem(p)'.heap = Mem(p).heap
      /\ \A q \in Pids : q # p /\ Exists(q) => Mem(q)' = Mem(q)
  <2> DEFINE r == [Mem(p) EXCEPT !.outfd = n]
  <2>1. Mem(p) \in ImageRecords(Len(conn))
    BY <1>0, <1>1, HasMemory
  <2>2. n \in Nat /\ Len(conn) <= n
    BY <1>1, <1>2
  <2>3. /\ r \in ImageRecords(n) /\ r.outfd = n /\ r.tracing = Mem(p).tracing
        /\ r.seqno = Mem(p).seqno /\ r.heap = Mem(p).heap
    BY <2>1, <2>2 DEF ImageRecords
  <2>4. image' = [image EXCEPT ![proc[p].space] = r]
    BY <1>1 DEF Mem
  <2> HIDE DEF r
  <2>5. MemoryIs(p, n, r)
    BY <1>0, <1>1, <1>6, <2>2, <2>3, <2>4, MemoryWritten
  <2> QED
    BY <2>3, <2>5 DEF r, MemoryIs
<1>8. \A q \in Pids : Exists(q)' <=> Exists(q)
  BY <1>1, <1>6 DEF Exists
<1>9. Typed(proc, image, conn, obj, pid_table)'
  <2>1. n \in Nat /\ Len(conn) <= n
    BY <1>1, <1>2
  <2>2. ObjRecordsTo(Len(conn)) \subseteq ObjRecordsTo(n)
    BY <1>2, <2>1, TypesGrow
  <2>3. obj' \in Seq(ObjRecordsTo(Len(conn')))
    BY <1>0, <1>1, <1>5, <2>2, SeqGrows DEF Typed
  <2> QED
    BY <1>0, <1>1, <1>5, <1>6, <1>7, <2>3 DEF Typed
<1>10. SpaceInv'
  <2>1. obj # <<>>
    BY <1>0, <1>1 DEF SpaceInv
  <2>2. \A q \in Pids : SpaceAt(q)'
    BY <1>0, <1>1, <1>5, <1>6, <1>7, <1>8, Elements DEF SpaceInv, SpaceAt, Typed
  <2> QED
    BY <1>0, <1>1, <1>6, <1>8, <2>1, <2>2 DEF SpaceInv
<1>11. ObjInv' /\ StartInv' /\ OnlyTheProgram'
  <2>1. \A c \in DOMAIN conn' : conn'[c].peer = "open" =>
           /\ c \in DOMAIN conn /\ conn[c].peer = "open"
           /\ \A q \in conn'[c].held : Exists(q) => q \in conn[c].held
    BY <1>5
  <2> QED
    BY <1>0, <1>1, <1>5, <1>6, <1>8, <2>1, ObjectsKept
<1>12. ASSUME NEW q \in Pids, q # p PROVE Kept(q)
  <2>1. Connected(q) => Mem(q).outfd \in DOMAIN conn
    BY <1>0, Outfd
  <2> QED
    BY <1>1, <1>5, <1>6, <1>7, <1>12, <2>1 DEF Kept
<1>13. PendingInv'
  <2>1. ASSUME NEW c \in DOMAIN conn PROVE ConnAt(c)'
    <3>1. ConnAt(c) /\ conn'[c] = conn[c]
      BY <1>0, <1>5 DEF PendingInv
    <3>2. ASSUME conn[c].peer = "pending", NEW r \in conn'[c].held
          PROVE  proc'[r].at = "await" /\ Mem(r)' = Mem(r)
      <4>1. r \in Pids /\ proc[r].at = "await"
        BY <3>1, <3>2 DEF ConnAt, PendingOf
      <4>2. r # p
        BY <1>1, <4>1
      <4> QED
        BY <1>6, <1>7, <4>1, <4>2 DEF Exists
    <3> QED
      BY <1>0, <1>1, <1>6, <1>8, <3>1, <3>2, ConnectionKept DEF ConnAt
  <2>2. ConnAt(n)'
    <3>1. IsHello(hello, p)'
      BY <1>4, <1>6 DEF IsHello
    <3>2. hello.operation = "MI_NEW" => Mem(p)'.seqno = 0 /\ Mem(p)'.heap = {}
      BY <1>3, <1>4, <1>7 DEF OwnerAt
    <3>3. hello.operation = "MI_FORK" => p \notin DOMAIN pid_table
      BY <1>3, <1>4 DEF OwnerAt
    <3>4. PendingOf(n, p)'
      BY <1>1, <1>5, <1>6, <1>7, <1>8, <3>1, <3>2, <3>3 DEF PendingOf
    <3> QED
      BY <1>5, <3>4 DEF ConnAt
  <2> QED
    BY <1>5, <2>1, <2>2 DEF PendingInv
<1>14. OwnerAt(p)' /\ QuietAt(p)' /\ StepAt(p)'
  <2>1. OwnerAt(p)'
    <3>1. n # None /\ Tracing(p)'
      BY <1>1, <1>2, <1>3, <1>7 DEF None, Tracing
    <3> QED
      BY <1>5, <1>6, <1>7, <3>1 DEF OwnerAt
  <2>2. QuietAt(p)' /\ StepAt(p)'
    BY <1>3, <1>5, <1>6, <1>7 DEF QuietAt, Unheard, StepAt, Tracing
  <2> QED
    BY <2>1, <2>2
<1>15. OwnerInv' /\ QuietInv' /\ StepInv'
  <2>1. \A q \in Pids : OwnerAt(q)' /\ QuietAt(q)' /\ StepAt(q)'
    BY <1>0, <1>1, <1>12, <1>14, ProcessKept DEF OwnerInv, QuietInv, StepInv
  <2> QED
    BY <2>1 DEF OwnerInv, QuietInv, StepInv
<1> QED
  BY <1>1, <1>9, <1>10, <1>11, <1>13, <1>15 DEF FullInv, LinkInv

\* A process that ends, or starts another program, closes its descriptors.
LEMMA Closing ==
  ASSUME Typed(proc, image, conn, obj, pid_table), NEW p \in Pids, conn' = Closed(p)
  PROVE  /\ conn' \in Seq(ConnRecords) /\ Len(conn') = Len(conn) /\ DOMAIN conn' = DOMAIN conn
         /\ \A c \in DOMAIN conn :
              /\ conn'[c].held = conn[c].held \ {p} /\ conn'[c].peer = conn[c].peer
              /\ conn'[c].unread = conn[c].unread /\ conn'[c].answer = conn[c].answer
<1>1. DOMAIN conn = 1 .. Len(conn) /\ \A c \in DOMAIN conn : conn[c] \in ConnRecords
  BY Connections
<1>2. \A c \in DOMAIN conn : conn'[c] = [conn[c] EXCEPT !.held = @ \ {p}]
  BY DEF Closed
<1>3. ASSUME NEW c \in DOMAIN conn
      PROVE  /\ conn'[c] \in ConnRecords
             /\ conn'[c].held = conn[c].held \ {p} /\ conn'[c].peer = conn[c].peer
             /\ conn'[c].unread = conn[c].unread /\ conn'[c].answer = conn[c].answer
  <2>1. conn[c] \in ConnRecords /\ conn'[c] = [conn[c] EXCEPT !.held = @ \ {p}]
    BY <1>1, <1>2
  <2>2. conn[c].held \ {p} \in SUBSET Pids
    BY <2>1 DEF ConnRecords
  <2> QED
    BY <2>1, <2>2 DEF ConnRecords
<1>4. conn' = [c \in DOMAIN conn |-> conn'[c]]
  BY DEF Closed
<1>5. conn \in Seq(ConnRecords)
  BY DEF Typed
<1>6. conn' \in Seq(ConnRecords) /\ Len(conn') = Len(conn)
  BY <1>1, <1>3, <1>4, <1>5, Maps
<1> QED
  BY <1>1, <1>3, <1>6, Elements

\* A process ends, by itself or by a signal.
LEMMA Dead ==
  ASSUME FullInv, NEW p \in Pids, Live(p), Gone(p),
         UNCHANGED <<objVars, memprof, options>>, calls' \in 0 .. MaxCalls,
         \/ UNCHANGED image
         \/ image' = [image EXCEPT ![proc[p].space].tracing = FALSE]
  PROVE  FullInv'
<1>0. /\ Typed(proc, image, conn, obj, pid_table)
      /\ SpaceInv /\ ObjInv /\ PendingInv /\ OwnerInv
      /\ UNCHANGED <<obj, pid_table, memprof, options>>
      /\ Exists(p)
  BY DEF FullInv, LinkInv, objVars, Live, Exists
<1>1. proc \in [Pids -> ProcRecords(Len(image))]
  BY <1>0 DEF Typed
<1>2. /\ proc'[p] = [proc[p] EXCEPT !.at = "dead", !.borrows = FALSE]
      /\ proc' \in [Pids -> ProcRecords(Len(image))]
      /\ \A q \in Pids : q # p => proc'[q] = proc[q]
  <2>1. /\ proc'[p] = [proc[p] EXCEPT !.at = "dead", !.space = proc[p].space, !.borrows = FALSE]
        /\ \A q \in Pids : q # p => proc'[q] = proc[q]
    BY <1>0, LeavesAlone DEF Gone
  <2>2. proc' = [q \in Pids |-> proc'[q]]
    BY DEF Gone, Leaves
  <2>3. proc'[p] = [proc[p] EXCEPT !.at = "dead", !.borrows = FALSE]
        /\ proc'[p] \in ProcRecords(Len(image))
    BY <1>1, <2>1 DEF ProcRecords, Places
  <2> QED
    BY <1>1, <2>1, <2>2, <2>3
<1>3. /\ proc'[p].at = "dead" /\ ~proc'[p].borrows
      /\ proc'[p].space = proc[p].space /\ proc'[p].parent = proc[p].parent
  BY <1>1, <1>2 DEF ProcRecords
<1>4. /\ image' \in Seq(ImageRecords(Len(conn))) /\ Len(image') = Len(image)
      /\ \A q \in Pids : q # p /\ Exists(q) => Mem(q)' = Mem(q)
  <2>1. CASE UNCHANGED image
    BY <1>0, <1>2, <2>1 DEF Typed, Mem
  <2>2. CASE image' = [image EXCEPT ![proc[p].space].tracing = FALSE]
    <3> DEFINE r == [Mem(p) EXCEPT !.tracing = FALSE]
    <3>0. Mem(p) \in ImageRecords(Len(conn)) /\ Len(conn) \in Nat
      BY <1>0, HasMemory, Connections
    <3>1a. Len(conn) <= Len(conn)
      BY <3>0
    <3>1. r \in ImageRecords(Len(conn))
      BY <3>0 DEF ImageRecords
    <3>2. image' = [image EXCEPT ![proc[p].space] = r]
      BY <2>2 DEF Mem
    <3> HIDE DEF r
    <3>3. \A q \in Pids : proc'[q].space = proc[q].space
      BY <1>2, <1>3
    <3>4. MemoryIs(p, Len(conn), r)
      BY <1>0, <3>0, <3>1, <3>1a, <3>2, <3>3, MemoryWritten
    <3> QED
      BY <3>4 DEF MemoryIs
  <2> QED
    BY <2>1, <2>2
<1>5. /\ conn' \in Seq(ConnRecords) /\ Len(conn') = Len(conn) /\ DOMAIN conn' = DOMAIN conn
      /\ \A c \in DOMAIN conn :
           /\ conn'[c].held = conn[c].held \ {p} /\ conn'[c].peer = conn[c].peer
           /\ conn'[c].unread = conn[c].unread /\ conn'[c].answer = conn[c].answer
  BY <1>0, Closing DEF Gone
<1>6. \A q \in Pids : (Exists(q)' <=> Exists(q)) /\ proc'[q].parent = proc[q].parent
  BY <1>0, <1>2, <1>3 DEF Exists
<1>7. Typed(proc, image, conn, obj, pid_table)'
  BY <1>0, <1>2, <1>4, <1>5 DEF Typed
<1>8. SpaceInv'
  <2>1. obj # <<>>
    BY <1>0 DEF SpaceInv
  <2>2. DOMAIN image' = DOMAIN image
    BY <1>0, <1>4, Elements DEF Typed
  <2>3. ASSUME NEW q \in Pids PROVE SpaceAt(q)'
    <3>1. SpaceAt(q)
      BY <1>0 DEF SpaceInv
    <3>2. proc'[q].space = proc[q].space /\ proc'[q].at # "vfork" /\ ~proc'[q].borrows
      BY <1>2, <1>3, <3>1 DEF SpaceAt
    <3>3. ~Exists(q) => \A c \in DOMAIN conn' : q \notin conn'[c].held
      BY <1>5, <3>1 DEF SpaceAt
    <3> QED
      BY <1>0, <1>6, <2>2, <3>1, <3>2, <3>3 DEF SpaceAt
  <2> QED
    BY <1>0, <1>2, <1>3, <1>6, <2>1, <2>3 DEF SpaceInv
<1>9. ASSUME NEW q \in Pids, q # p PROVE Kept(q)
  <2>1. Connected(q) => Mem(q).outfd \in DOMAIN conn
    BY <1>0, Outfd
  <2> QED
    BY <1>0, <1>2, <1>4, <1>5, <1>9, <2>1 DEF Kept
<1>10. Told(p)'
  BY <1>3 DEF Told, OwnerAt, QuietAt, StepAt, Unheard, Connected
<1>11. ASSUME NEW c \in DOMAIN conn PROVE ConnectionStays(c)
  <2>1. conn[c].peer = "pending" => \A q \in conn[c].held : q \in Pids
    BY <1>0, PendingHeld
  <2>2. conn[c].peer = "open" => conn[c].unread \in Seq(Sent)
    BY <1>0 DEF PendingInv, ConnAt
  <2> QED
    BY <1>5, <1>9, <2>1, <2>2 DEF ConnectionStays
<1> QED
  BY <1>5, <1>6, <1>7, <1>8, <1>9, <1>10, <1>11, ProgramSteps

\* The calls that end in a process's death.
LEMMA Deaths ==
  ASSUME FullInv, UNCHANGED options, NEW p \in Pids,
         ConnectError(p) \/ exit_wait(p) \/ Die(p)
  PROVE  FullInv'
<1>1. /\ Live(p) /\ Gone(p) /\ UNCHANGED <<objVars, memprof>> /\ UNCHANGED calls
      /\ UNCHANGED image \/ image' = [image EXCEPT ![proc[p].space].tracing = FALSE]
  BY DEF ConnectError, exit_wait, Die, Live
<1>2. calls' \in 0 .. MaxCalls
  BY <1>1 DEF FullInv
<1> QED
  BY <1>1, <1>2, Dead

\* The user kills it (process_kill).
LEMMA Killed ==
  ASSUME FullInv, UNCHANGED options, NEW o \in DOMAIN obj, process_kill(o)
  PROVE  FullInv'
<1>1. obj[o].pid \in Pids
  BY Objects DEF FullInv, ObjRecordsTo
<1>2. Live(obj[o].pid) /\ Gone(obj[o].pid) /\ UNCHANGED <<objVars, memprof, image, calls>>
  BY DEF process_kill
<1>3. calls' \in 0 .. MaxCalls
  BY <1>2 DEF FullInv
<1> QED
  BY <1>1, <1>2, <1>3, Dead

\* Two processes do not trace through one connection that is open.
LEMMA Apart ==
  ASSUME LinkInv, NEW p \in Pids, NEW q \in Pids, Connected(p), Connected(q),
         Mem(p).outfd = Mem(q).outfd, conn[Mem(p).outfd].peer # "closed",
         Typed(proc, image, conn, obj, pid_table)
  PROVE  p = q
<1> DEFINE c == Mem(p).outfd
<1>1. c \in DOMAIN conn
  BY Outfd DEF LinkInv
<1>2. p \in conn[c].held /\ q \in conn[c].held
  BY DEF LinkInv, OwnerInv, OwnerAt
<1>3. CASE conn[c].peer = "pending"
  BY <1>1, <1>2, <1>3 DEF LinkInv, PendingInv, ConnAt, PendingOf
<1>4. CASE conn[c].peer = "open"
  <2>1. Accepted(p, c) /\ Accepted(q, c)
    BY <1>4 DEF LinkInv, OwnerInv, OwnerAt
  <2>2. pid_table[p] \in DOMAIN obj /\ pid_table[q] \in DOMAIN obj
    BY <2>1, TableLeads DEF Accepted
  <2>3. pid_table[p] = pid_table[q]
    <3>1. c # None
      BY DEF LinkInv, OwnerInv, OwnerAt
    <3> QED
      BY <2>1, <2>2, <3>1 DEF Accepted, LinkInv, ObjInv, ObjAt
  <2> QED
    BY <2>1, <2>3 DEF Accepted, LinkInv, ObjInv
<1>5. conn[c].peer \in {"pending", "open", "closed"}
  BY <1>1, Connections DEF ConnRecords
<1> QED
  BY <1>3, <1>4, <1>5

\* One connection changes.
LEMMA OneChanges ==
  ASSUME Typed(proc, image, conn, obj, pid_table), NEW c \in DOMAIN conn,
         NEW r \in ConnRecords, conn' = [conn EXCEPT ![c] = r]
  PROVE  /\ conn' \in Seq(ConnRecords) /\ Len(conn') = Len(conn) /\ DOMAIN conn' = DOMAIN conn
         /\ conn'[c] = r /\ \A d \in DOMAIN conn : d # c => conn'[d] = conn[d]
<1>1. DOMAIN conn = 1 .. Len(conn) /\ conn \in Seq(ConnRecords)
  BY Connections DEF Typed
<1>2. /\ conn' \in Seq(ConnRecords) /\ Len(conn') = Len(conn)
      /\ conn'[c] = r /\ \A d \in 1 .. Len(conn) : d # c => conn'[d] = conn[d]
  BY <1>1, Changes
<1> QED
  BY <1>1, <1>2, Elements

\* p writes its memory and its end of the connection that it traces through.
LEMMA OwnStep ==
  ASSUME FullInv, NEW p \in Pids, NEW place \in {"run", "exitwait"},
         proc[p].at \in {"await", "run"}, proc' = [proc EXCEPT ![p].at = place],
         NEW r \in ImageRecords(Len(conn)), image' = [image EXCEPT ![proc[p].space] = r],
         UNCHANGED <<objVars, memprof, options>>, calls' \in 0 .. MaxCalls,
         NEW d \in ConnRecords,
         \/ UNCHANGED conn /\ proc[p].at = "run"
         \/ /\ Connected(p) /\ conn[Mem(p).outfd].peer # "pending"
            /\ conn' = [conn EXCEPT ![Mem(p).outfd] = d]
            /\ d.peer = conn[Mem(p).outfd].peer
            /\ \/ d.held = conn[Mem(p).outfd].held
               \/ d.peer = "closed" /\ d.held = conn[Mem(p).outfd].held \ {p}
            /\ d.peer = "open" => d.unread \in Seq(Sent)
  PROVE  /\ Mem(p)' = r /\ proc'[p].at = place /\ proc'[p].parent = proc[p].parent
         /\ Told(p)' => FullInv'
<1>0. /\ Typed(proc, image, conn, obj, pid_table)
      /\ SpaceInv /\ ObjInv /\ PendingInv /\ OwnerInv /\ LinkInv
      /\ UNCHANGED <<obj, pid_table, memprof, options>>
      /\ Exists(p)
  BY DEF FullInv, LinkInv, objVars, Live, Exists
<1>1. proc \in [Pids -> ProcRecords(Len(image))]
  BY <1>0 DEF Typed
<1>2. /\ proc'[p].at = place /\ proc'[p].parent = proc[p].parent
      /\ \A q \in Pids : q # p => proc'[q] = proc[q]
      /\ \A q \in Pids : proc'[q].space = proc[q].space /\ proc'[q].parent = proc[q].parent
      /\ \A q \in Pids : proc'[q].borrows = proc[q].borrows
      /\ proc' \in [Pids -> ProcRecords(Len(image))]
  BY <1>1 DEF ProcRecords, Places
<1>3. MemoryIs(p, Len(conn), r)
  <2>1. Len(conn) \in Nat /\ Len(conn) <= Len(conn)
    BY <1>0, Connections
  <2> QED
    BY <1>0, <1>2, <2>1, MemoryWritten
<1>4. /\ conn' \in Seq(ConnRecords) /\ Len(conn') = Len(conn) /\ DOMAIN conn' = DOMAIN conn
      /\ \A c \in DOMAIN conn : conn'[c] # conn[c] =>
           /\ Connected(p) /\ c = Mem(p).outfd /\ conn'[c] = d
           /\ conn[c].peer # "pending" /\ d.peer = conn[c].peer
           /\ \/ d.held = conn[c].held
              \/ d.peer = "closed" /\ d.held = conn[c].held \ {p}
           /\ d.peer = "open" => d.unread \in Seq(Sent)
  <2>1. CASE UNCHANGED conn
    BY <1>0, <2>1 DEF Typed
  <2>2. CASE ~UNCHANGED conn
    <3>1. Mem(p).outfd \in DOMAIN conn
      BY <1>0, <2>2, Outfd
    <3>2. /\ conn' \in Seq(ConnRecords) /\ Len(conn') = Len(conn) /\ DOMAIN conn' = DOMAIN conn
          /\ conn'[Mem(p).outfd] = d
          /\ \A c \in DOMAIN conn : c # Mem(p).outfd => conn'[c] = conn[c]
      BY <1>0, <2>2, <3>1, OneChanges
    <3> QED
      BY <2>2, <3>1, <3>2
  <2> QED
    BY <2>1, <2>2
<1>5. Typed(proc, image, conn, obj, pid_table)'
  BY <1>0, <1>2, <1>3, <1>4 DEF Typed, MemoryIs
<1>6. \A q \in Pids : (Exists(q)' <=> Exists(q)) /\ proc'[q].parent = proc[q].parent
  BY <1>0, <1>2 DEF Exists
<1>7. SpaceInv'
  <2>1. obj # <<>>
    BY <1>0 DEF SpaceInv
  <2>2. DOMAIN image' = DOMAIN image
    BY <1>0, <1>3, Elements DEF Typed, MemoryIs
  <2>3. ASSUME NEW q \in Pids PROVE SpaceAt(q)'
    <3>1. SpaceAt(q)
      BY <1>0 DEF SpaceInv
    <3>2. proc'[q].at # "vfork"
      BY <1>2, <3>1 DEF SpaceAt
    <3>3. ~Exists(q) => \A c \in DOMAIN conn' : q \notin conn'[c].held
      BY <1>4, <3>1 DEF SpaceAt
    <3> QED
      BY <1>0, <1>2, <1>6, <2>2, <3>1, <3>2, <3>3 DEF SpaceAt
  <2> QED
    BY <1>0, <1>2, <1>6, <2>1, <2>3 DEF SpaceInv
<1>8. ASSUME NEW q \in Pids, q # p PROVE Kept(q)
  <2>1. Connected(q) => Mem(q).outfd \in DOMAIN conn
    BY <1>0, Outfd
  <2>2. ASSUME Connected(q), NEW c, c = Mem(q).outfd, conn'[c] # conn[c]
        PROVE  conn[c].peer = "closed" /\ conn'[c].peer = conn[c].peer
               /\ (q \in conn[c].held => q \in conn'[c].held)
    <3>1. Connected(p) /\ c = Mem(p).outfd
      BY <1>4, <2>1, <2>2
    <3>2. conn[c].peer = "closed"
      BY <1>0, <1>8, <2>2, <3>1, Apart
    <3> QED
      BY <1>4, <1>8, <2>1, <2>2, <3>2
  <2> QED
    BY <1>0, <1>2, <1>3, <1>8, <2>1, <2>2 DEF Kept, MemoryIs
<1>9. ASSUME NEW c \in DOMAIN conn PROVE ConnectionStays(c)
  <2>1. ASSUME conn[c].peer = "pending", NEW q \in conn[c].held PROVE q \in Pids /\ Kept(q)
    <3>1. q \in Pids /\ proc[q].at = "await" /\ Mem(q).outfd = c
      BY <1>0, <2>1, PendingHeld
    <3> QED
      BY <1>8, <2>1, <3>1
  <2>2. conn[c].peer = "open" => conn[c].unread \in Seq(Sent)
    BY <1>0 DEF PendingInv, ConnAt
  <2> QED
    BY <1>4, <2>1, <2>2 DEF ConnectionStays
<1>10. Told(p)' => FullInv'
  BY <1>4, <1>5, <1>6, <1>7, <1>8, <1>9, ProgramSteps
<1> QED
  BY <1>2, <1>3, <1>10 DEF MemoryIs

\* The answer of memprof, or end of file, in memprof_init (new_process).
LEMMA Answered ==
  ASSUME FullInv, UNCHANGED options, NEW p \in Pids, Response(p)
  PROVE  FullInv'
<1>0. /\ Typed(proc, image, conn, obj, pid_table)
      /\ SpaceInv /\ OwnerInv /\ QuietInv /\ StepInv
      /\ UNCHANGED <<obj, pid_table, memprof, options>>
      /\ proc[p].at = "await" /\ Exists(p) /\ calls' \in 0 .. MaxCalls
      /\ proc' = [proc EXCEPT ![p].at = "run"]
  BY DEF FullInv, LinkInv, objVars, Response, Exists
<1>1. /\ Told(p) /\ Tracing(p) /\ Connected(p)
  BY <1>0 DEF OwnerInv, OwnerAt, QuietInv, StepInv, Told, Connected
<1>2. PICK c \in DOMAIN conn : c = Mem(p).outfd
  BY <1>0, <1>1, Outfd
<1>3. conn[c] \in ConnRecords /\ Mem(p) \in ImageRecords(Len(conn))
  BY <1>0, HasMemory, Connections
<1>4. /\ c # None /\ p \in conn[c].held
      /\ conn[c].peer = "pending" => conn[c].answer = NULL
      /\ conn[c].peer = "open" => Accepted(p, c)
      /\ conn[c].answer # NULL \/ conn[c].peer = "closed"
  BY <1>1, <1>2 DEF Told, OwnerAt, Response
<1>5. conn[c].peer # "pending"
  BY <1>4
<1>6. conn[c].peer = "open" => conn[c].unread \in Seq(Sent)
  BY DEF FullInv, LinkInv, PendingInv, ConnAt
<1>7. CASE conn[c].answer = 1
  <2> DEFINE d == [conn[c] EXCEPT !.answer = NULL]
  <2>1. /\ d \in ConnRecords /\ d.peer = conn[c].peer /\ d.held = conn[c].held
        /\ d.unread = conn[c].unread
    BY <1>3 DEF ConnRecords
  <2>2. conn' = [conn EXCEPT ![c] = d] /\ UNCHANGED image
    BY <1>2, <1>7 DEF Response
  <2>3. image' = [image EXCEPT ![proc[p].space] = Mem(p)]
    BY <1>0, <2>2, HasMemory, Elements DEF Mem, Typed
  <2> HIDE DEF d
  <2>4. /\ Mem(p)' = Mem(p) /\ proc'[p].at = "run" /\ proc'[p].parent = proc[p].parent
        /\ Told(p)' => FullInv'
    BY <1>0, <1>1, <1>2, <1>3, <1>5, <1>6, <2>1, <2>2, <2>3, OwnStep DEF objVars
  <2>5. conn'[c] = d
    BY <1>0, <2>1, <2>2, OneChanges
  <2>6. OwnerAt(p)'
    BY <1>0, <1>1, <1>2, <1>4, <1>5, <2>1, <2>4, <2>5 DEF OwnerAt, Accepted, Tracing
  <2>7. QuietAt(p)'
    BY <1>0, <1>1, <1>2, <2>1, <2>4, <2>5 DEF Told, QuietAt, Unheard, Tracing
  <2>8. StepAt(p)'
    BY <1>0, <1>1, <1>2, <2>1, <2>4, <2>5 DEF Told, StepAt, Leads, Tracing
  <2> QED
    BY <2>4, <2>6, <2>7, <2>8 DEF Told
<1>8. CASE conn[c].answer # 1
  <2> DEFINE d == [conn[c] EXCEPT !.answer = NULL, !.held = @ \ {p}]
             r == [Mem(p) EXCEPT !.tracing = FALSE]
  <2>0. conn[c].peer = "closed"
    BY <1>0, <1>3, <1>4, <1>5, <1>8 DEF Accepted, ConnRecords
  <2>1. d \in ConnRecords /\ d.peer = conn[c].peer /\ d.held = conn[c].held \ {p}
    <3>1. conn[c].held \ {p} \in SUBSET Pids
      BY <1>3 DEF ConnRecords
    <3> QED
      BY <1>3, <3>1 DEF ConnRecords
  <2>2. r \in ImageRecords(Len(conn)) /\ ~r.tracing
    BY <1>3 DEF ImageRecords
  <2>3. conn' = [conn EXCEPT ![c] = d] /\ image' = [image EXCEPT ![proc[p].space] = r]
    BY <1>2, <1>8 DEF Response, Mem
  <2> HIDE DEF d, r
  <2>4. /\ Mem(p)' = r /\ proc'[p].at = "run" /\ proc'[p].parent = proc[p].parent
        /\ Told(p)' => FullInv'
    BY <1>0, <1>1, <1>2, <1>5, <1>6, <2>0, <2>1, <2>2, <2>3, OwnStep DEF objVars
  <2>5. OwnerAt(p)' /\ StepAt(p)'
    BY <2>2, <2>4 DEF OwnerAt, StepAt, Connected, Tracing
  <2>6. QuietAt(p)'
    BY <1>0, <1>1, <1>2, <2>0, <2>4 DEF Told, QuietAt, Unheard
  <2> QED
    BY <2>4, <2>5, <2>6 DEF Told
<1> QED
  BY <1>7, <1>8

\* One more report is on its way.
LEMMA LeadsOn ==
  ASSUME NEW n \in Nat, NEW o \in ObjRecordsTo(n), NEW s \in Seq(Sent),
         NEW m \in ImageRecords(n), NEW m2, NEW r \in Sent,
         Leads(o, s, m), r.seqno = m.seqno, m2.seqno = m.seqno + 1,
         \A b \in Addrs : b \in m2.heap <=>
           IF b = r.ptr THEN r.operation = "MI_MALLOC" ELSE b \in m.heap
  PROVE  Leads(o, Append(s, r), m2)
<1> DEFINE t == Append(s, r)
<1>1. /\ t \in Seq(Sent) /\ Len(t) = Len(s) + 1 /\ t[Len(s) + 1] = r
      /\ \A i \in 1 .. Len(s) : t[i] = s[i]
  BY Appends
<1>2. /\ DOMAIN t = 1 .. Len(s) + 1 /\ DOMAIN s = 1 .. Len(s) /\ Len(s) \in Nat
      /\ DOMAIN t = DOMAIN s \cup {Len(s) + 1}
  BY <1>1, Elements
<1> HIDE DEF t
<1>3. o.seqno \in Nat /\ m.seqno \in Nat
  BY DEF ObjRecordsTo, ImageRecords
<1>4. o.queue = {} /\ o.seqno + Len(t) = m2.seqno
  BY <1>1, <1>2, <1>3 DEF Leads
<1>5. ASSUME NEW i \in DOMAIN t PROVE t[i].seqno = o.seqno + i - 1
  <2>1. CASE i \in DOMAIN s
    BY <1>1, <1>2, <2>1 DEF Leads
  <2>2. CASE i = Len(s) + 1
    BY <1>1, <1>2, <1>3, <2>2 DEF Leads
  <2> QED
    BY <1>2, <2>1, <2>2
<1>6. ASSUME NEW b \in Addrs PROVE b \in m2.heap <=> After(o.table, t, b)
  <2>1. CASE b = r.ptr
    <3>1. Len(s) + 1 \in DOMAIN t /\ \A j \in DOMAIN t : j <= Len(s) + 1
      BY <1>2
    <3>2. After(o.table, t, b) <=>
            \E i \in DOMAIN t : /\ t[i].ptr = b /\ t[i].operation = "MI_MALLOC"
                                /\ \A j \in DOMAIN t : t[j].ptr = b => j <= i
      BY <1>1, <2>1, <3>1 DEF After
    <3>3. \A i \in DOMAIN t : (\A j \in DOMAIN t : t[j].ptr = b => j <= i) <=> i = Len(s) + 1
      BY <1>1, <1>2, <2>1, <3>1
    <3> QED
      BY <1>1, <2>1, <3>1, <3>2, <3>3
  <2>2. CASE b # r.ptr
    <3>1. \A i \in DOMAIN t : t[i].ptr = b => i \in DOMAIN s
      BY <1>1, <1>2, <2>2
    <3>2. \A i \in DOMAIN s : i \in DOMAIN t /\ t[i] = s[i]
      BY <1>1, <1>2
    <3>3. After(o.table, t, b) <=> After(o.table, s, b)
      BY <3>1, <3>2 DEF After
    <3> QED
      BY <2>2, <3>3 DEF Leads
  <2> QED
    BY <2>1, <2>2
<1> QED
  BY <1>4, <1>5, <1>6 DEF Leads, t

\* malloc, free and the report of it (mi_write_stack).
LEMMA Reported ==
  ASSUME FullInv, UNCHANGED options, NEW p \in Pids, Runs(p),
         NEW op \in {"MI_MALLOC", "MI_FREE"}, NEW a \in Addrs, NEW heap \in SUBSET Addrs,
         \A b \in Addrs : b \in heap <=> IF b = a THEN op = "MI_MALLOC" ELSE b \in Mem(p).heap,
         Report(p, op, a, heap)
  PROVE  FullInv'
<1>0. /\ Typed(proc, image, conn, obj, pid_table)
      /\ SpaceInv /\ OwnerInv /\ QuietInv /\ StepInv /\ PendingInv
      /\ UNCHANGED <<obj, pid_table, memprof, options>>
      /\ UNCHANGED <<objVars, memprof, options>>
      /\ proc[p].at = "run" /\ Exists(p) /\ calls' \in 0 .. MaxCalls
  <2>1. calls' \in 0 .. MaxCalls
    BY SessionAssumption DEF Runs, Report, FullInv
  <2> QED
    BY <2>1 DEF FullInv, LinkInv, objVars, Report, Exists, Runs
<1>1. proc' = [proc EXCEPT ![p].at = "run"] /\ UNCHANGED proc
  <2>1. proc \in [Pids -> ProcRecords(Len(image))]
    BY <1>0 DEF Typed
  <2>2. proc[p] = [proc[p] EXCEPT !.at = "run"]
    BY <1>0, <2>1 DEF ProcRecords
  <2> QED
    BY <2>1, <2>2 DEF Report
<1>2. Told(p) /\ Mem(p) \in ImageRecords(Len(conn))
  BY <1>0, HasMemory DEF OwnerInv, QuietInv, StepInv, Told
<1>3. CASE ~Tracing(p)
  <2> DEFINE r == [Mem(p) EXCEPT !.heap = heap]
  <2>1. r \in ImageRecords(Len(conn)) /\ ~r.tracing
    BY <1>2, <1>3 DEF ImageRecords, Tracing
  <2>2. image' = [image EXCEPT ![proc[p].space] = r] /\ UNCHANGED conn
    BY <1>3 DEF Report, Mem
  <2> HIDE DEF r
  <2>3. ConnRecords # {}
    <3>1. [held |-> {}, peer |-> "open", unread |-> <<>>, answer |-> NULL] \in ConnRecords
      BY DEF ConnRecords
    <3> QED
      BY <3>1
  <2>4. /\ Mem(p)' = r /\ proc'[p].at = "run"
        /\ Told(p)' => FullInv'
    BY <1>0, <1>1, <2>1, <2>2, <2>3, OwnStep
  <2>5. Told(p)'
    BY <1>0, <1>2, <1>3, <2>1, <2>4
       DEF Told, OwnerAt, QuietAt, StepAt, Unheard, Connected, Tracing
  <2> QED
    BY <2>4, <2>5
<1>4. ASSUME Tracing(p)
      PROVE  /\ Connected(p) /\ Mem(p).outfd \in DOMAIN conn /\ Mem(p).outfd # None
             /\ p \in conn[Mem(p).outfd].held
             /\ conn[Mem(p).outfd].peer \in {"open", "closed"}
             /\ conn[Mem(p).outfd].peer = "open" => Accepted(p, Mem(p).outfd)
             /\ CanWrite(p) <=> conn[Mem(p).outfd].peer = "open"
             /\ conn[Mem(p).outfd] \in ConnRecords
  <2>1. Connected(p)
    BY <1>0, <1>4 DEF Connected
  <2>2. Mem(p).outfd \in DOMAIN conn
    BY <1>0, <2>1, Outfd
  <2>3. conn[Mem(p).outfd] \in ConnRecords
    BY <1>0, <2>2, Connections
  <2>4. conn[Mem(p).outfd].peer \in {"pending", "open", "closed"}
    BY <2>3 DEF ConnRecords
  <2> QED
    BY <1>0, <1>2, <2>1, <2>2, <2>3, <2>4 DEF Told, OwnerAt, CanWrite
<1>5. CASE Tracing(p) /\ CanWrite(p)
  <2>1. PICK c \in DOMAIN conn : c = Mem(p).outfd
    BY <1>4, <1>5
  <2> DEFINE sent == [operation |-> op, ptr |-> a, seqno |-> Mem(p).seqno]
             r == [Mem(p) EXCEPT !.heap = heap, !.seqno = @ + 1]
             d == [conn[c] EXCEPT !.unread = Append(@, sent)]
  <2>2. /\ c # None /\ p \in conn[c].held /\ conn[c].peer = "open" /\ Accepted(p, c)
        /\ Connected(p) /\ conn[c] \in ConnRecords
    BY <1>4, <1>5, <2>1
  <2>3. sent \in Sent /\ sent \in Hellos \cup Reports /\ sent.seqno = Mem(p).seqno
        /\ sent.ptr = a /\ sent.operation = op
    BY <1>2, SessionAssumption DEF Sent, Reports, ImageRecords
  <2>4. r \in ImageRecords(Len(conn)) /\ r.tracing /\ r.heap = heap /\ r.outfd = c
        /\ r.seqno = Mem(p).seqno + 1
    <3>1. Mem(p).seqno + 1 \in Nat
      BY <1>2 DEF ImageRecords
    <3> QED
      BY <1>2, <1>5, <2>1, <3>1 DEF ImageRecords, Tracing
  <2>5. conn' = [conn EXCEPT ![c] = d] /\ image' = [image EXCEPT ![proc[p].space] = r]
    BY <1>5, <2>1 DEF Report, Written, Mem
  <2>6. conn[c].unread \in Seq(Sent)
    BY <1>0, <2>2 DEF PendingInv, ConnAt
  <2> HIDE DEF sent, r
  <2>7. /\ d \in ConnRecords /\ d.peer = conn[c].peer /\ d.held = conn[c].held
        /\ d.unread = Append(conn[c].unread, sent) /\ d.unread \in Seq(Sent)
        /\ d.answer = conn[c].answer
    <3>1. Append(conn[c].unread, sent) \in Seq(Sent)
      BY <2>3, <2>6
    <3>2. Append(conn[c].unread, sent) \in Seq(Hellos \cup Reports)
      BY <2>2, <2>3 DEF ConnRecords
    <3> QED
      BY <2>2, <3>1, <3>2 DEF ConnRecords
  <2> HIDE DEF d
  <2>8. /\ Mem(p)' = r /\ proc'[p].at = "run" /\ proc'[p].parent = proc[p].parent
        /\ Told(p)' => FullInv'
    BY <1>0, <1>1, <2>1, <2>2, <2>4, <2>5, <2>7, OwnStep
  <2>9. conn'[c] = d
    BY <1>0, <2>5, <2>7, OneChanges
  <2>10. OwnerAt(p)'
    BY <1>0, <1>1, <2>2, <2>4, <2>7, <2>8, <2>9 DEF OwnerAt, Accepted, Tracing
  <2>11. QuietAt(p)'
    BY <1>0, <1>1, <2>2, <2>4, <2>7, <2>8, <2>9 DEF QuietAt, Unheard, Tracing
  <2>12. StepAt(p)'
    <3>1. SUFFICES ASSUME proc[p].parent = NULL PROVE Leads(obj[pid_table[p]], d.unread, r)
      BY <1>0, <2>4, <2>8, <2>9 DEF StepAt, Leads
    <3>2. Leads(obj[pid_table[p]], conn[c].unread, Mem(p))
      BY <1>0, <1>2, <1>5, <2>1, <2>2, <3>1 DEF Told, StepAt
    <3>3. obj[pid_table[p]] \in ObjRecordsTo(Len(conn)) /\ Len(conn) \in Nat
      BY <1>0, <2>2, TableLeads, Objects, Connections DEF Accepted
    <3>4. \A b \in Addrs : b \in r.heap <=>
            IF b = sent.ptr THEN sent.operation = "MI_MALLOC" ELSE b \in Mem(p).heap
      BY <2>3, <2>4
    <3> QED
      BY <1>2, <2>3, <2>4, <2>6, <2>7, <3>2, <3>3, <3>4, LeadsOn
  <2> QED
    BY <2>8, <2>10, <2>11, <2>12 DEF Told
<1>6. CASE Tracing(p) /\ ~CanWrite(p)
  <2>1. PICK c \in DOMAIN conn : c = Mem(p).outfd
    BY <1>4, <1>6
  <2> DEFINE r == [Mem(p) EXCEPT !.heap = heap, !.seqno = @ + 1, !.tracing = FALSE]
             d == [conn[c] EXCEPT !.held = @ \ {p}]
  <2>2. /\ c # None /\ p \in conn[c].held /\ conn[c].peer = "closed"
        /\ Connected(p) /\ conn[c] \in ConnRecords
    BY <1>4, <1>6, <2>1
  <2>3. r \in ImageRecords(Len(conn)) /\ ~r.tracing
    <3>1. Mem(p).seqno + 1 \in Nat
      BY <1>2 DEF ImageRecords
    <3> QED
      BY <1>2, <3>1 DEF ImageRecords
  <2>4. conn' = [conn EXCEPT ![c] = d] /\ image' = [image EXCEPT ![proc[p].space] = r]
    BY <1>6, <2>1, <2>2 DEF Report, Closes, Mem
  <2>5. d \in ConnRecords /\ d.peer = conn[c].peer /\ d.held = conn[c].held \ {p}
    <3>1. conn[c].held \ {p} \in SUBSET Pids
      BY <2>2 DEF ConnRecords
    <3> QED
      BY <2>2, <3>1 DEF ConnRecords
  <2> HIDE DEF r, d
  <2>6. /\ Mem(p)' = r /\ proc'[p].at = "run"
        /\ Told(p)' => FullInv'
    BY <1>0, <1>1, <2>1, <2>2, <2>3, <2>4, <2>5, OwnStep
  <2>7. OwnerAt(p)' /\ StepAt(p)'
    BY <2>3, <2>6 DEF OwnerAt, StepAt, Connected, Tracing
  <2>8. QuietAt(p)'
    BY <1>0, <1>2, <1>6, <2>1, <2>2 DEF Told, QuietAt, Unheard
  <2> QED
    BY <2>6, <2>7, <2>8 DEF Told
<1> QED
  BY <1>3, <1>5, <1>6

\* malloc and free.
LEMMA Allocates ==
  ASSUME FullInv, UNCHANGED options, NEW p \in Pids, do_malloc(p) \/ do_free(p)
  PROVE  FullInv'
<1>1. Runs(p) /\ Exists(p)
  BY DEF do_malloc, do_free, Runs, Exists
<1>2. Mem(p).heap \in SUBSET Addrs
  BY <1>1, HasMemory DEF FullInv, LinkInv, ImageRecords
<1>3. CASE do_malloc(p)
  <2>1. PICK a \in Addrs \ Mem(p).heap : Report(p, "MI_MALLOC", a, Mem(p).heap \cup {a})
    BY <1>3 DEF do_malloc
  <2>2. PICK heap \in SUBSET Addrs : heap = Mem(p).heap \cup {a}
    BY <1>2
  <2>3. \A b \in Addrs : b \in heap <=>
          IF b = a THEN "MI_MALLOC" = "MI_MALLOC" ELSE b \in Mem(p).heap
    BY <2>2
  <2> QED
    BY <1>1, <2>1, <2>2, <2>3, Reported
<1>4. CASE do_free(p)
  <2>1. PICK a \in Mem(p).heap : Report(p, "MI_FREE", a, Mem(p).heap \ {a})
    BY <1>4 DEF do_free
  <2>2. PICK heap \in SUBSET Addrs : heap = Mem(p).heap \ {a}
    BY <1>2
  <2>3. \A b \in Addrs : b \in heap <=>
          IF b = a THEN "MI_FREE" = "MI_MALLOC" ELSE b \in Mem(p).heap
    BY <2>2
  <2> QED
    BY <1>1, <1>2, <2>1, <2>2, <2>3, Reported
<1> QED
  BY <1>3, <1>4

\* exit() (atexit_trap).
LEMMA Exits ==
  ASSUME FullInv, UNCHANGED options, NEW p \in Pids, atexit_trap(p)
  PROVE  FullInv'
<1>0. /\ Typed(proc, image, conn, obj, pid_table)
      /\ SpaceInv /\ OwnerInv /\ QuietInv /\ StepInv /\ PendingInv
      /\ UNCHANGED <<objVars, memprof, options>> /\ UNCHANGED <<obj, pid_table>>
      /\ proc[p].at = "run" /\ Exists(p) /\ calls' \in 0 .. MaxCalls
  <2>1. calls' \in 0 .. MaxCalls
    BY SessionAssumption DEF Runs, atexit_trap, FullInv
  <2> QED
    BY <2>1 DEF FullInv, LinkInv, objVars, atexit_trap, Exists, Runs
<1>1. CASE ~(Tracing(p) /\ CanWrite(p))
  <2>1. Gone(p) /\ UNCHANGED image
    BY <1>1 DEF atexit_trap
  <2>2. Live(p)
    BY <1>0 DEF Live
  <2> QED
    BY <1>0, <2>1, <2>2, Dead
<1>2. CASE Tracing(p) /\ CanWrite(p)
  <2>1. Told(p) /\ Mem(p) \in ImageRecords(Len(conn)) /\ Connected(p)
    BY <1>0, <1>2, HasMemory DEF OwnerInv, QuietInv, StepInv, Told, Connected
  <2>2. PICK c \in DOMAIN conn : c = Mem(p).outfd
    BY <1>0, <2>1, Outfd
  <2>3. conn[c] \in ConnRecords
    BY <1>0, Connections
  <2>4. /\ c # None /\ p \in conn[c].held /\ conn[c].peer = "open" /\ Accepted(p, c)
    <3>1. conn[c].peer \in {"pending", "open", "closed"}
      BY <2>3 DEF ConnRecords
    <3> QED
      BY <1>0, <1>2, <2>1, <2>2, <3>1 DEF Told, OwnerAt, CanWrite
  <2> DEFINE sent == [operation |-> "MI_EXIT", ptr |-> NULL, seqno |-> Mem(p).seqno]
             r == [Mem(p) EXCEPT !.seqno = @ + 1]
             d == [conn[c] EXCEPT !.unread = Append(@, sent)]
  <2>5. sent \in Sent /\ sent \in Hellos \cup Reports
    BY <2>1 DEF Sent, Reports, ImageRecords
  <2>6. r \in ImageRecords(Len(conn)) /\ r.tracing /\ r.outfd = c
    <3>1. Mem(p).seqno + 1 \in Nat
      BY <2>1 DEF ImageRecords
    <3> QED
      BY <1>2, <2>1, <2>2, <3>1 DEF ImageRecords, Tracing
  <2>7. conn' = [conn EXCEPT ![c] = d] /\ image' = [image EXCEPT ![proc[p].space] = r]
        /\ proc' = [proc EXCEPT ![p].at = "exitwait"]
    BY <1>2, <2>2 DEF atexit_trap, Written, Mem
  <2>8. conn[c].unread \in Seq(Sent)
    BY <1>0, <2>4 DEF PendingInv, ConnAt
  <2> HIDE DEF sent, r
  <2>9. /\ d \in ConnRecords /\ d.peer = conn[c].peer /\ d.held = conn[c].held
        /\ d.unread \in Seq(Sent)
    <3>1. Append(conn[c].unread, sent) \in Seq(Sent)
      BY <2>5, <2>8
    <3>2. Append(conn[c].unread, sent) \in Seq(Hellos \cup Reports)
      BY <2>3, <2>5 DEF ConnRecords
    <3> QED
      BY <2>3, <3>1, <3>2 DEF ConnRecords
  <2> HIDE DEF d
  <2>10. /\ Mem(p)' = r /\ proc'[p].at = "exitwait" /\ proc'[p].parent = proc[p].parent
         /\ Told(p)' => FullInv'
    BY <1>0, <2>1, <2>2, <2>4, <2>6, <2>7, <2>9, OwnStep
  <2>11. conn'[c] = d
    BY <1>0, <2>7, <2>9, OneChanges
  <2>12. Told(p)'
    BY <1>0, <2>4, <2>6, <2>9, <2>10, <2>11
       DEF Told, OwnerAt, QuietAt, StepAt, Unheard, Accepted, Tracing
  <2> QED
    BY <2>10, <2>12
<1> QED
  BY <1>1, <1>2

\* A memory is made, and no process uses it yet.
MemoryMade(r) ==
  /\ image' \in Seq(ImageRecords(Len(conn))) /\ Len(image') = Len(image) + 1
  /\ image'[Len(image) + 1] = r /\ \A i \in DOMAIN image : image'[i] = image[i]
  /\ DOMAIN image' = DOMAIN image \cup {Len(image) + 1} /\ Len(image) + 1 \notin DOMAIN image
  /\ ProcRecords(Len(image)) \subseteq ProcRecords(Len(image'))
  /\ Len(image) + 1 \in 0 .. Len(image')

\* A program that starts, and the copy of one that forks, have a memory of their own.
LEMMA MakesMemory ==
  ASSUME Typed(proc, image, conn, obj, pid_table), NEW r \in ImageRecords(Len(conn)),
         image' = Append(image, r)
  PROVE  MemoryMade(r)
<1>1. /\ image \in Seq(ImageRecords(Len(conn)))
      /\ Len(image) \in Nat /\ DOMAIN image = 1 .. Len(image)
  BY Elements DEF Typed
<1>2. /\ image' \in Seq(ImageRecords(Len(conn))) /\ Len(image') = Len(image) + 1
      /\ \A i \in 1 .. Len(image) : image'[i] = image[i]
      /\ image'[Len(image) + 1] = r
  BY <1>1, Appends
<1>3. DOMAIN image' = 1 .. Len(image) + 1
  BY <1>2, Elements
<1>4. Len(image) + 1 \in Nat /\ Len(image) <= Len(image) + 1
  BY <1>1
<1>5. ProcRecords(Len(image)) \subseteq ProcRecords(Len(image) + 1)
  BY <1>1, <1>4, TypesGrow
<1> QED
  BY <1>1, <1>2, <1>3, <1>4, <1>5 DEF MemoryMade

\* execve: the library starts anew in the same process.
LEMMA Execs ==
  ASSUME FullInv, UNCHANGED options, NEW p \in Pids, execve(p)
  PROVE  FullInv'
<1>0. /\ Typed(proc, image, conn, obj, pid_table)
      /\ SpaceInv /\ OwnerInv /\ QuietInv /\ StepInv /\ PendingInv
      /\ UNCHANGED <<objVars, memprof, options>> /\ UNCHANGED <<obj, pid_table, memprof>>
      /\ proc[p].at = "run" /\ Exists(p) /\ calls' \in 0 .. MaxCalls
  <2>1. calls' \in 0 .. MaxCalls
    BY SessionAssumption DEF Runs, execve, FullInv
  <2> QED
    BY <2>1 DEF FullInv, LinkInv, objVars, execve, Exists, Runs
<1> DEFINE r == [Fresh EXCEPT !.tracing = Tracing(p)]
<1>1. Told(p) /\ Mem(p) \in ImageRecords(Len(conn)) /\ Len(conn) \in Nat
  BY <1>0, HasMemory, Connections DEF OwnerInv, QuietInv, StepInv, Told
<1>2. /\ r \in ImageRecords(Len(conn)) /\ r.seqno = 0 /\ r.heap = {} /\ r.tracing = Tracing(p)
  BY <1>1 DEF Fresh, ImageRecords, None, Tracing
<1>3. image' = Append(image, r)
  BY DEF execve
<1> HIDE DEF r
<1>4. MemoryMade(r)
  BY <1>0, <1>2, <1>3, MakesMemory
<1>5. PICK place, n : place = (IF Tracing(p) THEN "start" ELSE "run") /\ n = Len(image) + 1
                      /\ Leaves(p, place, n)
  BY DEF execve
<1>6. proc \in [Pids -> ProcRecords(Len(image))]
  BY <1>0 DEF Typed
<1>7. /\ proc' \in [Pids -> ProcRecords(Len(image'))]
      /\ proc'[p].at = place /\ proc'[p].space = n /\ ~proc'[p].borrows
      /\ proc'[p].parent = proc[p].parent
      /\ \A q \in Pids : q # p => proc'[q] = proc[q]
  <2>1. /\ proc'[p] = [proc[p] EXCEPT !.at = place, !.space = n, !.borrows = FALSE]
        /\ \A q \in Pids : q # p => proc'[q] = proc[q]
    <3>1. Leaves(p, place, n)
      BY <1>5
    <3> QED
      BY <1>0, <3>1, LeavesAlone, Zenon
  <2>2. proc' = [q \in Pids |-> proc'[q]]
    BY <1>5 DEF Leaves
  <2>3. \A q \in Pids : proc[q] \in ProcRecords(Len(image'))
    BY <1>4, <1>6 DEF MemoryMade
  <2>4. place \in Places /\ n \in 0 .. Len(image')
    BY <1>4, <1>5 DEF Places, MemoryMade
  <2>5. /\ proc'[p] \in ProcRecords(Len(image'))
        /\ proc'[p].at = place /\ proc'[p].space = n /\ ~proc'[p].borrows
        /\ proc'[p].parent = proc[p].parent
    BY <2>1, <2>3, <2>4 DEF ProcRecords
  <2> QED
    BY <2>1, <2>2, <2>3, <2>5
<1>8. /\ conn' \in Seq(ConnRecords) /\ Len(conn') = Len(conn) /\ DOMAIN conn' = DOMAIN conn
      /\ \A c \in DOMAIN conn :
           /\ conn'[c].held = conn[c].held \ {p} /\ conn'[c].peer = conn[c].peer
           /\ conn'[c].unread = conn[c].unread /\ conn'[c].answer = conn[c].answer
  BY <1>0, Closing DEF execve
<1>9. /\ Mem(p)' = r /\ \A q \in Pids : q # p /\ Exists(q) => Mem(q)' = Mem(q)
  <2>1. \A q \in Pids : Exists(q) => proc[q].space \in DOMAIN image
    BY <1>0 DEF SpaceInv, SpaceAt
  <2> QED
    BY <1>4, <1>5, <1>7, <2>1 DEF Mem, MemoryMade
<1>10. \A q \in Pids : (Exists(q)' <=> Exists(q)) /\ proc'[q].parent = proc[q].parent
  BY <1>0, <1>5, <1>7 DEF Exists
<1>11. Typed(proc, image, conn, obj, pid_table)'
  BY <1>0, <1>4, <1>7, <1>8 DEF Typed, MemoryMade
<1>12. SpaceInv'
  <2>1. obj # <<>>
    BY <1>0 DEF SpaceInv
  <2>2. ASSUME NEW q \in Pids PROVE SpaceAt(q)'
    <3>1. SpaceAt(q)
      BY <1>0 DEF SpaceInv
    <3>2. proc'[q].at # "vfork" /\ ~proc'[q].borrows
      BY <1>5, <1>7, <3>1 DEF SpaceAt
    <3>3. ~Exists(q) => \A c \in DOMAIN conn' : q \notin conn'[c].held
      BY <1>8, <3>1 DEF SpaceAt
    <3>4. Exists(q) => proc'[q].space \in DOMAIN image'
      BY <1>4, <1>5, <1>7, <3>1 DEF SpaceAt, MemoryMade
    <3> QED
      BY <1>0, <1>10, <3>1, <3>2, <3>3, <3>4 DEF SpaceAt
  <2>3. \A q \in Pids : q # p /\ Exists(q) => proc'[q].space # n
    BY <1>0, <1>4, <1>5, <1>7 DEF SpaceInv, SpaceAt, MemoryMade
  <2> QED
    BY <1>0, <1>7, <1>10, <2>1, <2>2, <2>3 DEF SpaceInv
<1>13. ASSUME NEW q \in Pids, q # p PROVE Kept(q)
  <2>1. Connected(q) => Mem(q).outfd \in DOMAIN conn
    BY <1>0, Outfd
  <2> QED
    BY <1>0, <1>7, <1>8, <1>9, <1>13, <2>1 DEF Kept
<1>14. Told(p)'
  <2>1. CASE Tracing(p)
    BY <1>2, <1>5, <1>7, <1>9, <2>1
       DEF Told, OwnerAt, QuietAt, StepAt, Unheard, Connected, Tracing
  <2>2. CASE ~Tracing(p)
    <3>1. OwnerAt(p)' /\ StepAt(p)'
      BY <1>2, <1>5, <1>7, <1>9, <2>2 DEF OwnerAt, StepAt, Connected, Tracing
    <3>2. QuietAt(p)'
      BY <1>0, <1>1, <2>2 DEF Told, QuietAt, Unheard
    <3> QED
      BY <3>1, <3>2 DEF Told
  <2> QED
    BY <2>1, <2>2
<1>15. ASSUME NEW c \in DOMAIN conn PROVE ConnectionStays(c)
  <2>1. conn[c].peer = "pending" => \A q \in conn[c].held : q \in Pids
    BY <1>0, PendingHeld
  <2>2. conn[c].peer = "open" => conn[c].unread \in Seq(Sent)
    BY <1>0 DEF PendingInv, ConnAt
  <2> QED
    BY <1>8, <1>13, <2>1, <2>2 DEF ConnectionStays
<1> QED
  BY <1>0, <1>8, <1>10, <1>11, <1>12, <1>13, <1>14, <1>15, ProgramSteps

\* fork: the child has copies of everything.
LEMMA Forks ==
  ASSUME FullInv, UNCHANGED options, NEW p \in Pids, fork(p)
  PROVE  FullInv'
<1>0. /\ Typed(proc, image, conn, obj, pid_table)
      /\ SpaceInv /\ OwnerInv /\ QuietInv /\ StepInv /\ PendingInv
      /\ UNCHANGED <<objVars, memprof, options>> /\ UNCHANGED <<obj, pid_table, memprof>>
      /\ proc[p].at = "run" /\ Exists(p) /\ calls' \in 0 .. MaxCalls
  <2>1. calls' \in 0 .. MaxCalls
    BY SessionAssumption DEF Runs, fork, FullInv
  <2> QED
    BY <2>1 DEF FullInv, LinkInv, objVars, fork, Exists, Runs
<1>1. Mem(p) \in ImageRecords(Len(conn)) /\ Len(conn) \in Nat
  BY <1>0, HasMemory, Connections
<1>2. image' = Append(image, Mem(p))
  BY DEF fork
<1>3. PICK r : r = Mem(p)
  OBVIOUS
<1>4. MemoryMade(r)
  BY <1>0, <1>1, <1>2, <1>3, MakesMemory
<1>5a. PICK place, n : place = (IF Tracing(p) THEN "forked" ELSE "run") /\ n = Len(image) + 1
  OBVIOUS
<1>5. PICK child \in Pids :
        /\ place = (IF Tracing(p) THEN "forked" ELSE "run") /\ n = Len(image) + 1
        /\ proc[child].at = "none"
        /\ proc' = [proc EXCEPT ![child] =
                      [at |-> place, space |-> n, parent |-> p, borrows |-> FALSE]]
        /\ conn' = [c \in DOMAIN conn |->
                      IF p \in conn[c].held
                      THEN [conn[c] EXCEPT !.held = @ \cup {child}] ELSE conn[c]]
  BY <1>5a DEF fork
<1>6. proc \in [Pids -> ProcRecords(Len(image))]
  BY <1>0 DEF Typed
<1>7. /\ proc' \in [Pids -> ProcRecords(Len(image'))]
      /\ proc'[child].at = place /\ proc'[child].space = n /\ ~proc'[child].borrows
      /\ proc'[child].parent = p /\ child # p
      /\ \A q \in Pids : q # child => proc'[q] = proc[q]
  <2>1. \A q \in Pids : proc[q] \in ProcRecords(Len(image'))
    BY <1>4, <1>6 DEF MemoryMade
  <2>2. place \in Places /\ n \in 0 .. Len(image')
    BY <1>4, <1>5 DEF Places, MemoryMade
  <2>3. [at |-> place, space |-> n, parent |-> p, borrows |-> FALSE] \in ProcRecords(Len(image'))
    BY <2>2 DEF ProcRecords
  <2> QED
    BY <1>0, <1>5, <1>6, <2>1, <2>3
<1>8. /\ conn' \in Seq(ConnRecords) /\ Len(conn') = Len(conn) /\ DOMAIN conn' = DOMAIN conn
      /\ \A c \in DOMAIN conn :
           /\ conn[c].held \subseteq conn'[c].held
           /\ conn'[c].held \subseteq conn[c].held \cup {child}
           /\ p \notin conn[c].held => conn'[c].held = conn[c].held
           /\ conn'[c].peer = conn[c].peer
           /\ conn'[c].unread = conn[c].unread /\ conn'[c].answer = conn[c].answer
  <2>1. DOMAIN conn = 1 .. Len(conn) /\ conn \in Seq(ConnRecords)
    BY <1>0, Connections DEF Typed
  <2>2. ASSUME NEW c \in DOMAIN conn
        PROVE  /\ conn'[c] \in ConnRecords
               /\ conn[c].held \subseteq conn'[c].held
               /\ conn'[c].held \subseteq conn[c].held \cup {child}
               /\ p \notin conn[c].held => conn'[c].held = conn[c].held
               /\ conn'[c].peer = conn[c].peer
               /\ conn'[c].unread = conn[c].unread /\ conn'[c].answer = conn[c].answer
    <3>1. conn[c] \in ConnRecords
      BY <1>0, Connections
    <3>2. CASE p \notin conn[c].held
      BY <1>5, <3>1, <3>2
    <3>3. CASE p \in conn[c].held
      <4>1. conn'[c] = [conn[c] EXCEPT !.held = @ \cup {child}]
        BY <1>5, <3>3
      <4>2. conn[c].held \cup {child} \in SUBSET Pids
        BY <3>1 DEF ConnRecords
      <4> QED
        BY <3>1, <3>3, <4>1, <4>2 DEF ConnRecords
    <3> QED
      BY <3>2, <3>3
  <2>3. conn' = [c \in DOMAIN conn |-> conn'[c]]
    BY <1>5
  <2>4. conn' \in Seq(ConnRecords) /\ Len(conn') = Len(conn)
    BY <2>1, <2>2, <2>3, Maps
  <2> QED
    BY <2>2, <2>3, <2>4
<1>9. Mem(child)' = r /\ \A q \in Pids : q # child /\ Exists(q) => Mem(q)' = Mem(q)
  <2>1. \A q \in Pids : Exists(q) => proc[q].space \in DOMAIN image
    BY <1>0 DEF SpaceInv, SpaceAt
  <2> QED
    BY <1>4, <1>5, <1>7, <2>1 DEF Mem, MemoryMade
<1>10. Exists(child)' /\ \A q \in Pids : q # child => (Exists(q)' <=> Exists(q))
  BY <1>0, <1>5, <1>7 DEF Exists
<1>11. Typed(proc, image, conn, obj, pid_table)'
  BY <1>0, <1>4, <1>7, <1>8 DEF Typed, MemoryMade
<1>12. SpaceInv'
  <2>1. obj # <<>>
    BY <1>0 DEF SpaceInv
  <2>2. ASSUME NEW q \in Pids PROVE SpaceAt(q)'
    <3>1. SpaceAt(q)
      BY <1>0 DEF SpaceInv
    <3>2. proc'[q].at # "vfork" /\ ~proc'[q].borrows
      BY <1>5, <1>7, <3>1 DEF SpaceAt
    <3>3. q # child /\ ~Exists(q) => \A c \in DOMAIN conn' : q \notin conn'[c].held
      BY <1>8, <3>1 DEF SpaceAt
    <3>4. Exists(q)' => proc'[q].space \in DOMAIN image'
      BY <1>4, <1>5, <1>7, <1>10, <3>1 DEF SpaceAt, MemoryMade
    <3> QED
      BY <1>0, <1>10, <3>1, <3>2, <3>3, <3>4 DEF SpaceAt
  <2>3. \A q \in Pids : q # child /\ Exists(q) => proc'[q].space # n
    BY <1>0, <1>4, <1>5, <1>7 DEF SpaceInv, SpaceAt, MemoryMade
  <2> QED
    BY <1>0, <1>7, <1>10, <2>1, <2>2, <2>3 DEF SpaceInv
<1>13. ASSUME NEW q \in Pids, q # child PROVE Kept(q)
  <2>1. Connected(q) => Mem(q).outfd \in DOMAIN conn
    BY <1>0, Outfd
  <2> QED
    BY <1>0, <1>7, <1>8, <1>9, <1>13, <2>1 DEF Kept
<1>14. Told(child)'
  <2>1. child \notin DOMAIN pid_table
    BY <1>0, <1>5 DEF SpaceInv, SpaceAt, Exists
  <2>2. r.tracing = Tracing(p) /\ Tracing(child)' = r.tracing /\ p # NULL
    BY <1>3, <1>9, SessionAssumption DEF Tracing
  <2>3. CASE Tracing(p)
    BY <1>0, <1>5, <1>7, <2>1, <2>2, <2>3
       DEF Told, OwnerAt, QuietAt, StepAt, Unheard, Connected
  <2>4. CASE ~Tracing(p)
    BY <1>0, <1>5, <1>7, <2>1, <2>2, <2>4
       DEF Told, OwnerAt, QuietAt, StepAt, Unheard, Connected
  <2> QED
    BY <2>3, <2>4
<1>15. ASSUME NEW c \in DOMAIN conn PROVE ConnectionStays(c)
  <2>1. ASSUME conn[c].peer = "pending"
        PROVE  conn'[c].held = conn[c].held /\ \A q \in conn[c].held : q \in Pids /\ q # child
    BY <1>0, <1>5, <1>8, <2>1, PendingHeld
  <2>2. conn[c].peer = "open" => conn[c].unread \in Seq(Sent)
    BY <1>0 DEF PendingInv, ConnAt
  <2>3. ~Exists(child)
    BY <1>5 DEF Exists
  <2> QED
    BY <1>8, <1>13, <2>1, <2>2, <2>3 DEF ConnectionStays
<1>16. \A q \in Pids : Exists(q) => Exists(q)' /\ proc'[q].parent = proc[q].parent
  BY <1>5, <1>7, <1>10 DEF Exists
<1> QED
  BY <1>0, <1>8, <1>11, <1>12, <1>13, <1>14, <1>15, <1>16, ProgramSteps

-----------------------------------------------------------------------------
(* memprof's steps.                                                        *)

\* A step of memprof, in which the program has no part: what is left to show.
LEMMA MemprofSteps ==
  ASSUME FullInv, UNCHANGED <<clientVars, options>>,
         memprof' \in {"up", "SIGPIPE", "SIGSEGV"}, memprof' = "up" => memprof = "up",
         Typed(proc, image, conn, obj, pid_table)', obj' = <<>> => obj = <<>>,
         \A q \in DOMAIN pid_table' : Exists(q),
         DOMAIN conn' = DOMAIN conn,
         \A c \in DOMAIN conn : conn'[c].held = conn[c].held,
         \A c \in DOMAIN conn : ConnectionStays(c) \/ ConnAt(c)',
         ObjInv', StartInv', OnlyTheProgram',
         \A q \in Pids : Kept(q) \/ Told(q)'
  PROVE  FullInv'
<1>1. /\ Typed(proc, image, conn, obj, pid_table)
      /\ SpaceInv /\ OwnerInv /\ QuietInv /\ StepInv
      /\ calls \in 0 .. MaxCalls /\ UNCHANGED <<proc, image, calls>>
  BY DEF FullInv, LinkInv, clientVars
<1>2. SpaceInv'
  <2>1. obj' = <<>> => conn' = <<>>
    <3>1. ASSUME conn = <<>> PROVE conn' = <<>>
      BY <3>1, Elements DEF Typed
    <3> QED
      BY <1>1, <3>1 DEF SpaceInv
  <2>2. ASSUME NEW q \in Pids PROVE SpaceAt(q)'
    BY <1>1 DEF SpaceInv, SpaceAt, Exists
  <2> QED
    BY <1>1, <2>1, <2>2 DEF SpaceInv, Exists
<1>3. PendingInv'
  <2>1. \A c \in DOMAIN conn : ConnAt(c)'
    BY <1>1, Waits DEF Exists
  <2> QED
    BY <2>1 DEF PendingInv
<1>4. ASSUME NEW q \in Pids PROVE Told(q)'
  BY <1>1, ProcessKept DEF OwnerInv, QuietInv, StepInv, Told
<1> QED
  BY <1>1, <1>2, <1>3, <1>4 DEF FullInv, LinkInv, OwnerInv, QuietInv, StepInv, Told

\* memprof dies: nobody is answered any more.
LEMMA Ended ==
  ASSUME FullInv, UNCHANGED options, AnswerNobody \/ DetachUnconnected
  PROVE  FullInv'
<1>1. /\ memprof' \in {"SIGPIPE", "SIGSEGV"} /\ UNCHANGED <<clientVars, objVars>>
      /\ conn' = [c \in DOMAIN conn |-> [conn[c] EXCEPT !.peer = "closed"]]
  BY DEF AnswerNobody, DetachUnconnected, Ends
<1>2. /\ UNCHANGED <<proc, image, calls, obj, pid_table, options>> /\ memprof' # "up"
      /\ Typed(proc, image, conn, obj, pid_table) /\ SpaceInv /\ ObjInv /\ OwnerInv
      /\ StartInv /\ OnlyTheProgram
  BY <1>1 DEF FullInv, LinkInv, clientVars, objVars
<1>3. ASSUME NEW c \in DOMAIN conn
      PROVE  /\ conn'[c] \in ConnRecords /\ conn'[c].peer = "closed"
             /\ conn'[c].held = conn[c].held
  <2>1. conn[c] \in ConnRecords /\ conn'[c] = [conn[c] EXCEPT !.peer = "closed"]
    BY <1>1, <1>2, Connections
  <2> QED
    BY <2>1 DEF ConnRecords
<1>4. conn' \in Seq(ConnRecords) /\ Len(conn') = Len(conn) /\ DOMAIN conn' = DOMAIN conn
  <2>1. conn' = [c \in DOMAIN conn |-> conn'[c]] /\ conn \in Seq(ConnRecords)
    BY <1>1, <1>2 DEF Typed
  <2>2. conn' \in Seq(ConnRecords) /\ Len(conn') = Len(conn)
    BY <1>2, <1>3, <2>1, Connections, Maps
  <2> QED
    BY <2>1, <2>2
<1>5. Typed(proc, image, conn, obj, pid_table)'
  BY <1>2, <1>4 DEF Typed
<1>6. ObjInv' /\ StartInv' /\ OnlyTheProgram'
  BY <1>2, <1>3, <1>4, ObjectsKept DEF Exists
<1>7. \A c \in DOMAIN conn : ConnAt(c)'
  BY <1>3 DEF ConnAt
<1>8. ASSUME NEW q \in Pids PROVE Told(q)'
  <2>1. OwnerAt(q) /\ (Connected(q) => Mem(q).outfd \in DOMAIN conn)
    BY <1>2, Outfd DEF OwnerInv
  <2>2. Mem(q)' = Mem(q) /\ Tracing(q)' = Tracing(q) /\ Connected(q)' = Connected(q)
    BY <1>2 DEF Mem, Tracing, Connected
  <2>3. OwnerAt(q)'
    BY <1>2, <1>3, <2>1, <2>2 DEF OwnerAt
  <2>4. StepAt(q)'
    BY <1>2, <1>3, <2>1, <2>2 DEF StepAt, Connected
  <2>5. QuietAt(q)'
    BY <1>2 DEF QuietAt
  <2> QED
    BY <2>3, <2>4, <2>5 DEF Told
<1>9. \A q \in DOMAIN pid_table' : Exists(q)
  BY <1>2, TableLeads DEF SpaceInv, SpaceAt
<1> QED
  BY <1>1, <1>2, <1>3, <1>4, <1>5, <1>6, <1>7, <1>8, <1>9, MemprofSteps

\* Of memprof's objects, o alone changes, and of the connections its channel.
ObjectTurns(o, p, x, c, d) ==
  /\ UNCHANGED <<clientVars, memprof, options>>
  /\ p = obj[o].pid /\ x \in ObjRecordsTo(Len(conn)) /\ obj' = [obj EXCEPT ![o] = x]
  /\ x.pid = p /\ x.channel \in {None, obj[o].channel} /\ x.status # "STARTING"
  /\ x.status \in {"RUNNING", "EXITING"} => x.channel # None
  /\ c = obj[o].channel /\ c # None /\ d \in ConnRecords /\ conn' = [conn EXCEPT ![c] = d]
  /\ d.held = conn[c].held /\ d.peer \in {conn[c].peer, "closed"}
  /\ d.peer = "open" => d.unread \in Seq(Sent)
  /\ \/ UNCHANGED pid_table
     \/ find_process(p) = o /\ pid_table' = Delete(pid_table, p)

ObjectTurned(o, p, x, c, d) ==
  /\ p \in Pids /\ obj'[o] = x /\ conn'[c] = d
  /\ \A q \in Pids : Mem(q)' = Mem(q)
  /\ Told(p)' => FullInv'

\* What is left to show is about the process that o is for.
LEMMA OneObject ==
  ASSUME FullInv, NEW o \in DOMAIN obj, NEW p, NEW x, NEW c, NEW d,
         ObjectTurns(o, p, x, c, d)
  PROVE  ObjectTurned(o, p, x, c, d)
<1>0. /\ Typed(proc, image, conn, obj, pid_table) /\ SpaceInv /\ ObjInv /\ OwnerInv /\ LinkInv
      /\ StartInv /\ OnlyTheProgram /\ PendingInv
      /\ UNCHANGED <<proc, image, calls, memprof, options>>
      /\ memprof' \in {"up", "SIGPIPE", "SIGSEGV"} /\ UNCHANGED clientVars
  BY DEF FullInv, LinkInv, clientVars, ObjectTurns
<1>a. /\ p = obj[o].pid /\ x \in ObjRecordsTo(Len(conn)) /\ obj' = [obj EXCEPT ![o] = x]
      /\ x.pid = p /\ x.channel \in {None, obj[o].channel} /\ x.status # "STARTING"
      /\ x.status \in {"RUNNING", "EXITING"} => x.channel # None
      /\ c = obj[o].channel /\ c # None /\ d \in ConnRecords /\ conn' = [conn EXCEPT ![c] = d]
      /\ d.held = conn[c].held /\ d.peer \in {conn[c].peer, "closed"}
      /\ d.peer = "open" => d.unread \in Seq(Sent)
      /\ \/ UNCHANGED pid_table
         \/ find_process(p) = o /\ pid_table' = Delete(pid_table, p)
  BY DEF ObjectTurns
<1>1. /\ p \in Pids /\ c \in DOMAIN conn /\ DOMAIN obj = 1 .. Len(obj)
      /\ \A u \in DOMAIN obj : obj[u] \in ObjRecordsTo(Len(conn))
      /\ \A u \in DOMAIN obj : obj[u].channel # None => obj[u].channel \in DOMAIN conn
  BY <1>a, <1>0, Objects DEF ObjRecordsTo
<1>2. /\ obj' \in Seq(ObjRecordsTo(Len(conn))) /\ DOMAIN obj' = DOMAIN obj /\ obj' # <<>>
      /\ obj'[o] = x /\ \A u \in DOMAIN obj : u # o => obj'[u] = obj[u]
  <2>1. obj \in Seq(ObjRecordsTo(Len(conn)))
    BY <1>0 DEF Typed
  <2>2. /\ obj' \in Seq(ObjRecordsTo(Len(conn))) /\ Len(obj') = Len(obj) /\ obj'[o] = x
        /\ \A u \in 1 .. Len(obj) : u # o => obj'[u] = obj[u]
    BY <1>a, <1>1, <2>1, Changes
  <2>3. DOMAIN obj' = 1 .. Len(obj')
    BY <2>2, Elements
  <2> QED
    BY <1>1, <2>2, <2>3
<1>3. /\ conn' \in Seq(ConnRecords) /\ Len(conn') = Len(conn) /\ DOMAIN conn' = DOMAIN conn
      /\ conn'[c] = d /\ \A e \in DOMAIN conn : e # c => conn'[e] = conn[e]
  BY <1>a, <1>0, <1>1, OneChanges
<1>4. /\ DOMAIN pid_table' \subseteq DOMAIN pid_table
      /\ \A q \in DOMAIN pid_table' : pid_table'[q] = pid_table[q]
      /\ \A q \in DOMAIN pid_table : q \notin DOMAIN pid_table' => q = p /\ pid_table[q] = o
      /\ DOMAIN pid_table' \subseteq Pids /\ pid_table' \in [DOMAIN pid_table' -> DOMAIN obj]
  <2>1. DOMAIN pid_table \subseteq Pids /\ pid_table \in [DOMAIN pid_table -> DOMAIN obj]
    BY <1>0 DEF Typed
  <2>2. CASE UNCHANGED pid_table
    BY <2>1, <2>2
  <2>3. CASE find_process(p) = o /\ pid_table' = Delete(pid_table, p)
    <3>1. o # None
      BY <1>1 DEF None
    <3>2. p \in DOMAIN pid_table /\ pid_table[p] = o
      BY <2>3, <3>1 DEF find_process, Has
    <3> QED
      BY <2>1, <2>3, <3>2 DEF Delete
  <2> QED
    BY <1>a, <2>2, <2>3
<1>5. Typed(proc, image, conn, obj, pid_table)'
  BY <1>0, <1>2, <1>3, <1>4 DEF Typed
<1>6. ObjAt(o) /\ conn[c].peer # "pending"
      /\ \A u \in DOMAIN obj : obj[u].channel = c => u = o
  BY <1>a, <1>0 DEF ObjInv, ObjAt
<1>7. ObjInv'
  <2>1. \A q \in DOMAIN pid_table' : obj'[pid_table'[q]].pid = q
    <3>1. \A q \in DOMAIN pid_table : obj[pid_table[q]].pid = q /\ pid_table[q] \in DOMAIN obj
      BY <1>0, TableLeads DEF ObjInv
    <3> QED
      BY <1>a, <1>2, <1>4, <3>1
  <2>2. ASSUME NEW u \in DOMAIN obj PROVE ObjAt(u)'
    <3>1. ObjAt(u)
      BY <1>0 DEF ObjInv
    <3>2. /\ Exists(obj[u].pid)'
          /\ obj'[u].status \in {"RUNNING", "EXITING"} => obj'[u].channel # None
      <4>1. obj'[u].pid = obj[u].pid
        BY <1>a, <1>2
      <4> QED
        BY <1>a, <1>0, <1>2, <3>1, <4>1 DEF ObjAt, Exists
    <3>3. \A v \in DOMAIN obj : obj'[v].channel # None => obj'[v].channel = obj[v].channel
      BY <1>a, <1>2
    <3>4. \A e \in DOMAIN conn : conn'[e].peer = "pending" => conn[e].peer = "pending"
      BY <1>a, <1>3, <1>6
    <3> QED
      BY <1>1, <1>2, <3>1, <3>2, <3>3, <3>4 DEF ObjAt
  <2> QED
    BY <1>2, <2>1, <2>2 DEF ObjInv
<1>8. StartInv'
  <2>1. ASSUME NEW u \in DOMAIN obj, obj'[u].status = "STARTING" PROVE StartAt(u)'
    <3>1. u # o /\ obj'[u] = obj[u] /\ StartAt(u)
      BY <1>a, <1>0, <1>2, <2>1 DEF StartInv
    <3>2. FollowExec' = FollowExec
      BY <1>0 DEF FollowExec
    <3>3. find_process(obj[u].pid) = u => find_process(obj[u].pid)' = u
      <4>1. u # None
        BY <1>1 DEF None
      <4> QED
        BY <1>2, <1>4, <3>1, <4>1 DEF find_process, Has
    <3>4. \A e \in DOMAIN conn : conn'[e].peer = "open" => conn[e].peer = "open"
                                                        /\ conn'[e].held = conn[e].held
      BY <1>a, <1>3
    <3> QED
      BY <1>3, <2>1, <3>1, <3>2, <3>3, <3>4 DEF StartAt
  <2> QED
    BY <1>2, <2>1 DEF StartInv, StartAt
<1>9. OnlyTheProgram'
  BY <1>a, <1>0, <1>2 DEF OnlyTheProgram, FollowFork
<1>10. \A q \in Pids : Mem(q)' = Mem(q)
  BY <1>0 DEF Mem
<1>11. ASSUME NEW q \in Pids, q # p PROVE Kept(q)
  <2>1. Connected(q) => Mem(q).outfd \in DOMAIN conn
    BY <1>0, Outfd
  <2>2. q \in DOMAIN pid_table => pid_table[q] \in DOMAIN obj /\ pid_table[q] # o
    BY <1>a, <1>0, <1>11, TableLeads DEF ObjInv
  <2>3. ASSUME Connected(q), Mem(q).outfd = c PROVE conn[c].peer = "closed"
    <3>1. conn[c].peer \in {"pending", "open", "closed"}
      BY <1>0, <1>1, Connections DEF ConnRecords
    <3>2. conn[c].peer = "open" => Accepted(q, c)
      BY <1>0, <2>3 DEF OwnerInv, OwnerAt
    <3> QED
      BY <1>6, <2>2, <3>1, <3>2 DEF Accepted
  <2> QED
    BY <1>a, <1>0, <1>2, <1>3, <1>4, <1>10, <1>11, <2>1, <2>2, <2>3 DEF Kept
<1>12. ASSUME NEW e \in DOMAIN conn PROVE ConnectionStays(e) \/ ConnAt(e)'
  <2>1. CASE e = c
    BY <1>a, <1>3, <1>6, <2>1 DEF ConnAt
  <2>2. CASE e # c
    <3>1. conn'[e] = conn[e]
      BY <1>3, <2>2
    <3>2. ConnAt(e)
      BY <1>0 DEF PendingInv
    <3>3. CASE conn[e].peer = "pending"
      <4>1. PICK r \in Pids : PendingOf(e, r)
        BY <3>2, <3>3 DEF ConnAt
      <4>2. PendingOf(e, r)'
        BY <1>0, <1>4, <1>10, <3>1, <4>1 DEF PendingOf, IsHello, Exists
      <4> QED
        BY <3>1, <3>3, <4>2 DEF ConnAt
    <3>4. CASE conn[e].peer # "pending"
      BY <3>1, <3>2, <3>4 DEF ConnAt
    <3> QED
      BY <3>3, <3>4
  <2> QED
    BY <2>1, <2>2
<1>13. /\ \A e \in DOMAIN conn : conn'[e].held = conn[e].held
       /\ \A q \in DOMAIN pid_table' : Exists(q)
  BY <1>a, <1>0, <1>3, <1>4 DEF SpaceInv, SpaceAt
<1>14. Told(p)' => FullInv'
  BY <1>0, <1>2, <1>3, <1>5, <1>7, <1>8, <1>9, <1>11, <1>12, <1>13, MemprofSteps
<1> QED
  BY <1>1, <1>2, <1>3, <1>10, <1>14 DEF ObjectTurned

\* What is left of a queue.
LEMMA Tails ==
  ASSUME NEW S, NEW s \in Seq(S), s # <<>>
  PROVE  /\ Tail(s) \in Seq(S) /\ Len(s) \in Nat /\ Len(s) > 0 /\ Len(Tail(s)) = Len(s) - 1
         /\ Head(s) = s[1] /\ s[1] \in S
         /\ \A i \in 1 .. Len(s) - 1 : Tail(s)[i] = s[i + 1]
OBVIOUS

\* What process_command makes of a report.
LEMMA Handles ==
  ASSUME NEW n, NEW o \in DOMAIN obj, obj[o] \in ObjRecordsTo(n), NEW r \in Sent
  PROVE  LET x == process_command(o, r) IN
         /\ x \in ObjRecordsTo(n) /\ x.status = obj[o].status /\ x.pid = obj[o].pid
         /\ x.channel = obj[o].channel /\ x.window = obj[o].window
         /\ r.seqno = obj[o].seqno =>
              /\ x.seqno = obj[o].seqno + 1 /\ x.queue = obj[o].queue
              /\ \A a \in Addrs : a \in x.table <=>
                   IF a = r.ptr THEN r.operation = "MI_MALLOC" ELSE a \in obj[o].table
<1> DEFINE table == CASE r.operation = "MI_MALLOC" -> obj[o].table \cup {r.ptr}
                      [] r.operation = "MI_FREE" -> obj[o].table \ {r.ptr}
                      [] OTHER -> obj[o].table
<1>1. /\ r.operation \in {"MI_MALLOC", "MI_FREE", "MI_EXIT"}
      /\ r.operation # "MI_EXIT" => r.ptr \in Addrs
      /\ r.operation = "MI_EXIT" => r.ptr \notin Addrs
  BY SessionAssumption DEF Sent, Reports
<1>2. table \in SUBSET Addrs
      /\ \A a \in Addrs : a \in table <=>
           IF a = r.ptr THEN r.operation = "MI_MALLOC" ELSE a \in obj[o].table
  <2>1. obj[o].table \in SUBSET Addrs
    BY DEF ObjRecordsTo
  <2> QED
    BY <1>1, <2>1
<1>3. CASE r.seqno = obj[o].seqno
  <2>1. process_command(o, r) = [obj[o] EXCEPT !.seqno = @ + 1, !.table = table]
    BY <1>3 DEF process_command
  <2>2. obj[o].seqno + 1 \in Nat
    BY DEF ObjRecordsTo
  <2> HIDE DEF table
  <2> QED
    BY <1>2, <2>1, <2>2 DEF ObjRecordsTo
<1>4. CASE r.seqno # obj[o].seqno
  <2>1. process_command(o, r) = [obj[o] EXCEPT !.queue = @ \cup {r}]
    BY <1>4 DEF process_command
  <2>2. obj[o].queue \cup {r} \in SUBSET Reports
    BY DEF ObjRecordsTo, Sent
  <2> QED
    BY <1>4, <2>1, <2>2 DEF ObjRecordsTo
<1> QED
  BY <1>3, <1>4

\* One report less is on its way.
LEMMA LeadsBack ==
  ASSUME NEW n, NEW o \in ObjRecordsTo(n), NEW s \in Seq(Sent), s # <<>>, NEW m,
         Leads(o, s, m), NEW x, x.queue = o.queue, x.seqno = o.seqno + 1,
         \A a \in Addrs : a \in x.table <=>
           IF a = s[1].ptr THEN s[1].operation = "MI_MALLOC" ELSE a \in o.table
  PROVE  Leads(x, Tail(s), m)
<1> DEFINE t == Tail(s)
<1>1. /\ t \in Seq(Sent) /\ Len(s) \in Nat /\ Len(s) > 0 /\ Len(t) = Len(s) - 1
      /\ \A i \in 1 .. Len(s) - 1 : t[i] = s[i + 1]
      /\ DOMAIN s = 1 .. Len(s)
  BY Tails, Elements
<1>2. DOMAIN t = 1 .. Len(s) - 1 /\ Len(t) \in Nat
  BY <1>1, Elements
<1> HIDE DEF t
<1>3. o.seqno \in Nat
  BY DEF ObjRecordsTo
<1>4. /\ \A i \in DOMAIN t : i + 1 \in DOMAIN s /\ t[i] = s[i + 1]
      /\ \A i \in DOMAIN s : i # 1 => i - 1 \in DOMAIN t /\ t[i - 1] = s[i]
      /\ 1 \in DOMAIN s
  BY <1>1, <1>2
<1>5. x.queue = {} /\ x.seqno + Len(t) = m.seqno
  BY <1>1, <1>3 DEF Leads
<1>6. ASSUME NEW i \in DOMAIN t PROVE t[i].seqno = x.seqno + i - 1
  <2>1. s[i + 1].seqno = o.seqno + (i + 1) - 1 /\ i \in Nat
    BY <1>2, <1>4 DEF Leads
  <2> QED
    BY <1>3, <1>4, <2>1
<1>7. ASSUME NEW a \in Addrs PROVE After(x.table, t, a) <=> After(o.table, s, a)
  <2>1. CASE \E i \in DOMAIN t : t[i].ptr = a
    <3>1. PICK k \in DOMAIN t : t[k].ptr = a
      BY <2>1
    <3>2. \E i \in DOMAIN s : s[i].ptr = a
      BY <1>4, <3>1
    <3>3. ASSUME NEW i \in DOMAIN t, t[i].ptr = a, t[i].operation = "MI_MALLOC",
                 \A j \in DOMAIN t : t[j].ptr = a => j <= i
          PROVE  /\ i + 1 \in DOMAIN s /\ s[i + 1].ptr = a /\ s[i + 1].operation = "MI_MALLOC"
                 /\ \A j \in DOMAIN s : s[j].ptr = a => j <= i + 1
      <4>1. i + 1 \in DOMAIN s /\ s[i + 1].ptr = a /\ s[i + 1].operation = "MI_MALLOC"
        BY <1>4, <3>3
      <4>2. ASSUME NEW j \in DOMAIN s, s[j].ptr = a PROVE j <= i + 1
        <5>1. j \in Int /\ i \in Int /\ i >= 1
          BY <1>1, <1>2
        <5>2. j # 1 => j - 1 <= i
          BY <1>4, <3>3, <4>2
        <5> QED
          BY <5>1, <5>2
      <4> QED
        BY <4>1, <4>2
    <3>4. ASSUME NEW i \in DOMAIN s, s[i].ptr = a, s[i].operation = "MI_MALLOC",
                 \A j \in DOMAIN s : s[j].ptr = a => j <= i
          PROVE  /\ i - 1 \in DOMAIN t /\ t[i - 1].ptr = a /\ t[i - 1].operation = "MI_MALLOC"
                 /\ \A j \in DOMAIN t : t[j].ptr = a => j <= i - 1
      <4>1. i \in Int /\ k \in Int /\ k >= 1
        BY <1>1, <1>2
      <4>2. k + 1 <= i
        BY <1>4, <3>1, <3>4
      <4>3. i - 1 \in DOMAIN t /\ t[i - 1].ptr = a /\ t[i - 1].operation = "MI_MALLOC"
        BY <1>4, <3>4, <4>1, <4>2
      <4>4. ASSUME NEW j \in DOMAIN t, t[j].ptr = a PROVE j <= i - 1
        <5>1. j + 1 <= i /\ j \in Int
          BY <1>2, <1>4, <3>4, <4>4
        <5> QED
          BY <4>1, <5>1
      <4> QED
        BY <4>3, <4>4
    <3> QED
      BY <2>1, <3>2, <3>3, <3>4 DEF After
  <2>2. CASE ~ \E i \in DOMAIN t : t[i].ptr = a
    <3>1. \A i \in DOMAIN s : s[i].ptr = a => i = 1
      BY <1>4, <2>2
    <3>2. After(x.table, t, a) <=> a \in x.table
      BY <2>2 DEF After
    <3>3. CASE s[1].ptr = a
      <4>1. After(o.table, s, a) <=> s[1].operation = "MI_MALLOC"
        <5>1. \A j \in DOMAIN s : s[j].ptr = a => j <= 1
          BY <3>1
        <5> QED
          BY <1>4, <3>1, <3>3, <5>1 DEF After
      <4> QED
        BY <3>2, <3>3, <4>1
    <3>4. CASE s[1].ptr # a
      <4>1. After(o.table, s, a) <=> a \in o.table
        BY <3>1, <3>4 DEF After
      <4> QED
        BY <3>2, <3>4, <4>1
    <3> QED
      BY <3>3, <3>4
  <2> QED
    BY <2>1, <2>2
<1> QED
  BY <1>5, <1>6, <1>7 DEF Leads, t

\* memprof reads one report (input_func).
LEMMA Inputs ==
  ASSUME FullInv, UNCHANGED options, NEW o \in DOMAIN obj, input_func(o)
  PROVE  FullInv'
<1>0. /\ Typed(proc, image, conn, obj, pid_table) /\ SpaceInv /\ ObjInv /\ OwnerInv
      /\ StartInv /\ PendingInv /\ QuietInv /\ StepInv
      /\ UNCHANGED <<clientVars, memprof, options>>
      /\ UNCHANGED <<proc, image, pid_table, memprof>>
  BY DEF FullInv, LinkInv, clientVars, input_func
<1>1. PICK p, c : p = obj[o].pid /\ c = obj[o].channel
  OBVIOUS
<1>2. /\ c # None /\ conn[c].peer = "open" /\ conn[c].unread # <<>>
  BY <1>1 DEF input_func
<1>3. /\ obj[o] \in ObjRecordsTo(Len(conn)) /\ p \in Pids
      /\ c \in DOMAIN conn /\ conn[c] \in ConnRecords
  BY <1>0, <1>1, <1>2, Objects, Connections DEF ObjRecordsTo
<1>4. conn[c].unread \in Seq(Sent)
  BY <1>0, <1>2, <1>3 DEF PendingInv, ConnAt
<1>5. PICK r \in Sent : r = Head(conn[c].unread) /\ r = conn[c].unread[1]
  BY <1>2, <1>4, Tails
<1>6. ObjAt(o) /\ StartAt(o)
  BY <1>0 DEF ObjInv, StartInv
<1> DEFINE new == process_command(o, r)
           x == IF r.operation = "MI_EXIT" THEN [new EXCEPT !.status = "EXITING"] ELSE new
           d == [conn[c] EXCEPT !.unread = Tail(@)]
<1>7. /\ new \in ObjRecordsTo(Len(conn)) /\ new.status = obj[o].status /\ new.pid = p
      /\ new.channel = c
      /\ r.seqno = obj[o].seqno =>
           /\ new.seqno = obj[o].seqno + 1 /\ new.queue = obj[o].queue
           /\ \A a \in Addrs : a \in new.table <=>
                IF a = r.ptr THEN r.operation = "MI_MALLOC" ELSE a \in obj[o].table
  BY <1>1, <1>3, Handles
<1> HIDE DEF new
<1>8. /\ x \in ObjRecordsTo(Len(conn)) /\ x.pid = p /\ x.channel = c
      /\ x.status = "EXITING" \/ x.status = obj[o].status
      /\ r.seqno = obj[o].seqno =>
           /\ x.seqno = obj[o].seqno + 1 /\ x.queue = obj[o].queue
           /\ \A a \in Addrs : a \in x.table <=>
                IF a = r.ptr THEN r.operation = "MI_MALLOC" ELSE a \in obj[o].table
  BY <1>7 DEF ObjRecordsTo, Statuses
<1>9. obj' = [obj EXCEPT ![o] = x] /\ conn' = [conn EXCEPT ![c] = d]
  BY <1>1, <1>5 DEF input_func, new
<1> HIDE DEF x
<1>10. Tail(conn[c].unread) \in Seq(Sent)
  BY <1>2, <1>4, Tails
<1>11. /\ d \in ConnRecords /\ d.held = conn[c].held /\ d.peer = conn[c].peer
       /\ d.unread = Tail(conn[c].unread) /\ d.answer = conn[c].answer
  <2>1. Tail(conn[c].unread) \in Seq(Hellos \cup Reports)
    BY <1>2, <1>3, Tails DEF ConnRecords
  <2> QED
    BY <1>3, <2>1 DEF ConnRecords
<1> HIDE DEF d
<1>12. x.status # "STARTING"
  BY <1>1, <1>2, <1>6, <1>8 DEF StartAt
<1>13. /\ obj'[o] = x /\ conn'[c] = d /\ \A q \in Pids : Mem(q)' = Mem(q)
       /\ Told(p)' => FullInv'
  <2>1. ObjectTurns(o, p, x, c, d)
    BY <1>0, <1>1, <1>2, <1>8, <1>9, <1>10, <1>11, <1>12 DEF ObjectTurns
  <2>2. ObjectTurned(o, p, x, c, d)
    BY <2>1, OneObject
  <2> QED
    BY <2>2 DEF ObjectTurned
<1>14. /\ Mem(p)' = Mem(p) /\ Tracing(p)' = Tracing(p) /\ Connected(p)' = Connected(p)
       /\ Told(p)
  BY <1>0, <1>3, <1>13 DEF Tracing, Connected, OwnerInv, QuietInv, StepInv, Told
<1>15. /\ \A e \in DOMAIN conn : e # c => conn'[e] = conn[e]
       /\ \A u \in DOMAIN obj : u # o => obj'[u] = obj[u]
  BY <1>9
<1>16. Connected(p) => Mem(p).outfd \in DOMAIN conn
  BY <1>0, <1>3, Outfd
<1>17. p \in DOMAIN pid_table => pid_table[p] \in DOMAIN obj
  BY <1>0, TableLeads
<1>18. ASSUME Connected(p), conn[Mem(p).outfd].peer = "open", Mem(p).outfd # c
       PROVE  pid_table[p] # o
  BY <1>1, <1>14, <1>18 DEF Told, OwnerAt, Accepted
<1>19. ASSUME Connected(p), Mem(p).outfd = c
       PROVE  Accepted(p, c) /\ proc[p].at # "await" /\ pid_table[p] = o
  <2>1. Accepted(p, c) /\ proc[p].at # "await"
    BY <1>2, <1>14, <1>19 DEF Told, OwnerAt, Accepted
  <2> QED
    BY <1>1, <1>2, <1>6, <1>17, <2>1 DEF Accepted, ObjAt
<1>20. OwnerAt(p)'
  <2>1. Connected(p) => conn'[Mem(p).outfd].held = conn[Mem(p).outfd].held
                        /\ conn'[Mem(p).outfd].peer = conn[Mem(p).outfd].peer
                        /\ conn'[Mem(p).outfd].answer = conn[Mem(p).outfd].answer
    BY <1>11, <1>13, <1>15, <1>16
  <2>2. ASSUME Connected(p), conn'[Mem(p).outfd].peer = "open"
        PROVE  Accepted(p, Mem(p).outfd)'
    <3>1. CASE Mem(p).outfd = c
      BY <1>0, <1>8, <1>13, <1>14, <1>19, <2>2, <3>1 DEF Accepted
    <3>2. CASE Mem(p).outfd # c
      BY <1>0, <1>14, <1>15, <1>16, <1>17, <1>18, <2>1, <2>2, <3>2 DEF Told, OwnerAt, Accepted
    <3> QED
      BY <3>1, <3>2
  <2> QED
    BY <1>0, <1>14, <2>1, <2>2 DEF Told, OwnerAt
<1>21. QuietAt(p)'
  <2>1. Unheard(p)' <=> Unheard(p)
    BY <1>0, <1>11, <1>13, <1>14, <1>15, <1>16 DEF Unheard, Connected
  <2>2. p \in DOMAIN pid_table /\ obj'[pid_table[p]].status = "RUNNING"
          => obj[pid_table[p]].status = "RUNNING"
    BY <1>8, <1>13, <1>15, <1>17
  <2> QED
    BY <1>0, <1>14, <2>1, <2>2 DEF Told, QuietAt
<1>22. StepAt(p)'
  <2>1. SUFFICES ASSUME proc[p].parent = NULL, proc[p].at \in {"await", "run"}, Tracing(p),
                        conn'[Mem(p).outfd].peer = "open"
                 PROVE  Leads(obj'[pid_table[p]], conn'[Mem(p).outfd].unread, Mem(p))
    BY <1>0, <1>14 DEF StepAt, Leads
  <2>2. Connected(p)
    BY <2>1 DEF Connected
  <2>3. conn[Mem(p).outfd].peer = "open"
    BY <1>2, <1>15, <1>16, <2>1, <2>2
  <2>4. Leads(obj[pid_table[p]], conn[Mem(p).outfd].unread, Mem(p)) /\ Accepted(p, Mem(p).outfd)
    BY <1>14, <2>1, <2>2, <2>3 DEF Told, StepAt, OwnerAt
  <2>5. CASE Mem(p).outfd # c
    <3>1. pid_table[p] # o /\ pid_table[p] \in DOMAIN obj
      BY <1>17, <1>18, <2>2, <2>3, <2>4, <2>5 DEF Accepted
    <3> QED
      BY <1>15, <1>16, <2>2, <2>4, <2>5, <3>1
  <2>6. CASE Mem(p).outfd = c
    <3>1. pid_table[p] = o /\ Leads(obj[o], conn[c].unread, Mem(p))
      BY <1>19, <2>2, <2>4, <2>6
    <3>2. r.seqno = obj[o].seqno
      <4>1. 1 \in DOMAIN conn[c].unread
        BY <1>2, <1>4, Tails, Elements
      <4>2. obj[o].seqno \in Nat
        BY <1>3 DEF ObjRecordsTo
      <4> QED
        BY <1>5, <3>1, <4>1, <4>2 DEF Leads
    <3>3. Leads(x, Tail(conn[c].unread), Mem(p))
      BY <1>2, <1>3, <1>4, <1>5, <1>8, <3>1, <3>2, LeadsBack
    <3> QED
      BY <1>11, <1>13, <2>6, <3>1, <3>3
  <2> QED
    BY <2>5, <2>6
<1> QED
  BY <1>13, <1>20, <1>21, <1>22 DEF Told

\* The process of an object, and the connection that the object reads.
ItsOwner(o, p, c) ==
  /\ Told(p) /\ ObjAt(o) /\ StartAt(o) /\ obj[o].status # "STARTING"
  /\ p \in Pids /\ p = obj[o].pid /\ c = obj[o].channel
  /\ obj[o] \in ObjRecordsTo(Len(conn)) /\ c \in DOMAIN conn /\ conn[c] \in ConnRecords
  /\ conn[c].peer = "open" => conn[c].unread \in Seq(Sent)
  /\ Connected(p) => Mem(p).outfd \in DOMAIN conn
  /\ p \in DOMAIN pid_table => pid_table[p] \in DOMAIN obj
  /\ Connected(p) /\ Mem(p).outfd = c /\ conn[c].peer = "open"
       => Accepted(p, c) /\ pid_table[p] = o

\* The process that an object is for, when the object reads a connection.
LEMMA ItsProcess ==
  ASSUME FullInv, NEW o \in DOMAIN obj, obj[o].channel # None
  PROVE  ItsOwner(o, obj[o].pid, obj[o].channel)
<1> DEFINE p == obj[o].pid
<1>0. /\ Typed(proc, image, conn, obj, pid_table) /\ SpaceInv /\ ObjInv /\ OwnerInv
      /\ StartInv /\ PendingInv /\ QuietInv /\ StepInv
      /\ p \in Pids
  BY Objects DEF FullInv, LinkInv, ObjRecordsTo
<1>1. /\ Told(p) /\ ObjAt(o) /\ StartAt(o) /\ obj[o].status # "STARTING"
  BY <1>0 DEF ObjInv, StartInv, StartAt, OwnerInv, QuietInv, StepInv, Told
<1>2. /\ obj[o] \in ObjRecordsTo(Len(conn)) /\ obj[o].channel \in DOMAIN conn
      /\ conn[obj[o].channel] \in ConnRecords
  BY <1>0, Objects, Connections
<1>3. conn[obj[o].channel].peer = "open" => conn[obj[o].channel].unread \in Seq(Sent)
  BY <1>0, <1>2 DEF PendingInv, ConnAt
<1>4. Connected(p) => Mem(p).outfd \in DOMAIN conn
  BY <1>0, Outfd
<1>5. p \in DOMAIN pid_table => pid_table[p] \in DOMAIN obj
  BY <1>0, TableLeads
<1>6. ASSUME Connected(p), Mem(p).outfd = obj[o].channel, conn[Mem(p).outfd].peer = "open"
      PROVE  Accepted(p, Mem(p).outfd) /\ pid_table[p] = o
  <2>1. Accepted(p, Mem(p).outfd)
    BY <1>1, <1>6 DEF Told, OwnerAt
  <2> QED
    BY <1>1, <1>5, <1>6, <2>1 DEF Accepted, ObjAt
<1> QED
  BY <1>0, <1>1, <1>2, <1>3, <1>4, <1>5, <1>6 DEF ItsOwner

\* memprof finds that the program's end is closed (input_func).
LEMMA EndsOfFile ==
  ASSUME FullInv, UNCHANGED options, NEW o \in DOMAIN obj, InputEOF(o)
  PROVE  FullInv'
<1>1. PICK p, c : p = obj[o].pid /\ c = obj[o].channel
  OBVIOUS
<1>2. /\ c # None
      /\ conn[c].peer = "closed" \/ (conn[c].held = {} /\ conn[c].unread = <<>>)
      /\ UNCHANGED <<clientVars, memprof, options>> /\ UNCHANGED <<proc, image, conn, memprof>>
      /\ \/ UNCHANGED pid_table /\ find_process(p) # o
         \/ find_process(p) = o /\ pid_table' = Delete(pid_table, p)
  BY <1>1 DEF InputEOF, mp_server_remove_process, clientVars
<1>3. obj[o] \in ObjRecordsTo(Len(conn)) /\ p \in Pids
  BY <1>1, Objects DEF FullInv, ObjRecordsTo
<1>4. /\ Told(p) /\ c \in DOMAIN conn /\ conn[c] \in ConnRecords
      /\ conn[c].peer = "open" => conn[c].unread \in Seq(Sent)
      /\ Connected(p) => Mem(p).outfd \in DOMAIN conn
  <2>1. ItsOwner(o, p, c)
    BY <1>1, <1>2, ItsProcess
  <2> QED
    BY <2>1 DEF ItsOwner
<1>5. ASSUME Connected(p), conn[Mem(p).outfd].peer = "open"
      PROVE  Accepted(p, Mem(p).outfd) /\ Mem(p).outfd # c /\ pid_table[p] # o
             /\ pid_table[p] \in DOMAIN obj
  <2>1. Accepted(p, Mem(p).outfd) /\ p \in conn[Mem(p).outfd].held
    BY <1>4, <1>5 DEF Told, OwnerAt
  <2>2. Mem(p).outfd # c
    BY <1>2, <1>5, <2>1
  <2>3. pid_table[p] \in DOMAIN obj
    BY <2>1, TableLeads DEF FullInv, Accepted
  <2> QED
    BY <1>1, <2>1, <2>2, <2>3 DEF Accepted
<1> DEFINE x == [obj[o] EXCEPT !.channel = None, !.status = "DEFUNCT", !.window = FALSE]
<1>6. x \in ObjRecordsTo(Len(conn)) /\ x.pid = p /\ x.channel = None /\ x.status = "DEFUNCT"
  <2>1. None \in 0 .. Len(conn)
    BY Connections DEF FullInv, None
  <2> QED
    BY <1>1, <1>3, <2>1 DEF ObjRecordsTo, Statuses
<1>7. obj' = [obj EXCEPT ![o] = x]
  BY DEF InputEOF
<1> HIDE DEF x
<1>8. conn' = [conn EXCEPT ![c] = conn[c]]
  <2>1. conn = [e \in DOMAIN conn |-> conn[e]]
    BY Connections DEF FullInv, Typed
  <2> QED
    BY <1>2, <1>4, <2>1
<1>9. ObjectTurned(o, p, x, c, conn[c])
  <2>1. ObjectTurns(o, p, x, c, conn[c])
    BY <1>1, <1>2, <1>4, <1>6, <1>7, <1>8 DEF ObjectTurns
  <2> QED
    BY <2>1, OneObject
<1>10. /\ obj'[o] = x /\ \A u \in DOMAIN obj : u # o => obj'[u] = obj[u]
       /\ Mem(p)' = Mem(p) /\ Tracing(p)' = Tracing(p) /\ Connected(p)' = Connected(p)
  BY <1>2, <1>3, <1>7, <1>9 DEF ObjectTurned, Tracing, Connected
<1>11. p \in DOMAIN pid_table' => /\ p \in DOMAIN pid_table /\ pid_table'[p] = pid_table[p]
                                  /\ pid_table[p] # o /\ pid_table[p] \in DOMAIN obj
  BY <1>2, TableLeads DEF FullInv, Delete, find_process, Has
<1>12. ASSUME Connected(p), conn[Mem(p).outfd].peer = "open"
       PROVE  p \in DOMAIN pid_table' /\ pid_table'[p] = pid_table[p]
  <2>1. find_process(p) = pid_table[p] /\ pid_table[p] # o /\ p \in DOMAIN pid_table
    BY <1>5, <1>12, TableLeads DEF FullInv, Accepted
  <2> QED
    BY <1>2, <2>1
<1>13. OwnerAt(p)'
  <2>1. p \in DOMAIN pid_table' => p \in DOMAIN pid_table
    BY <1>11
  <2>2. ASSUME Connected(p), conn[Mem(p).outfd].peer = "open"
        PROVE  Accepted(p, Mem(p).outfd)'
    <3>1. Accepted(p, Mem(p).outfd) /\ obj'[pid_table'[p]] = obj[pid_table[p]]
      BY <1>5, <1>10, <1>12, <2>2
    <3> QED
      BY <1>2, <1>10, <1>12, <2>2, <3>1 DEF Accepted
  <2> QED
    BY <1>2, <1>4, <1>10, <2>1, <2>2 DEF Told, OwnerAt
<1>14. QuietAt(p)'
  <2>1. Unheard(p)' <=> Unheard(p)
    BY <1>2, <1>10 DEF Unheard
  <2> QED
    BY <1>2, <1>4, <1>10, <1>11, <2>1 DEF Told, QuietAt
<1>15. StepAt(p)'
  <2>1. SUFFICES ASSUME proc[p].parent = NULL, proc[p].at \in {"await", "run"}, Tracing(p),
                        conn[Mem(p).outfd].peer = "open"
                 PROVE  Leads(obj'[pid_table'[p]], conn[Mem(p).outfd].unread, Mem(p))
    BY <1>2, <1>10 DEF StepAt, Leads
  <2>2. Connected(p)
    BY <2>1 DEF Connected
  <2>3. obj'[pid_table'[p]] = obj[pid_table[p]]
    BY <1>5, <1>10, <1>12, <2>1, <2>2
  <2> QED
    BY <1>4, <2>1, <2>3 DEF Told, StepAt
<1> QED
  BY <1>9, <1>13, <1>14, <1>15 DEF ObjectTurned, Told

\* The user lets the process go (process_detach).
LEMMA Detaches ==
  ASSUME FullInv, UNCHANGED options, NEW o \in DOMAIN obj, process_detach(o)
  PROVE  FullInv'
<1>1. PICK p, c : p = obj[o].pid /\ c = obj[o].channel
  OBVIOUS
<1>2. /\ UNCHANGED <<clientVars, memprof, options>>
      /\ UNCHANGED <<proc, image, pid_table, memprof>>
      /\ obj[o].status \in {"EXITING", "RUNNING"}
  BY DEF process_detach, clientVars
<1>3. c # None
  BY <1>1, <1>2 DEF FullInv, LinkInv, ObjInv, ObjAt
<1>4. ItsOwner(o, p, c) /\ conn[c].peer # "pending"
  <2>1. ItsOwner(o, p, c)
    BY <1>1, <1>3, ItsProcess
  <2> QED
    BY <1>3, <2>1 DEF ItsOwner, ObjAt
<1>5. /\ Told(p) /\ p \in Pids /\ c \in DOMAIN conn /\ conn[c] \in ConnRecords
      /\ obj[o] \in ObjRecordsTo(Len(conn)) /\ obj[o].pid = p /\ obj[o].channel = c
      /\ Connected(p) => Mem(p).outfd \in DOMAIN conn
      /\ p \in DOMAIN pid_table => pid_table[p] \in DOMAIN obj
      /\ Connected(p) /\ Mem(p).outfd = c /\ conn[c].peer = "open"
           => Accepted(p, c) /\ pid_table[p] = o
      /\ conn[c].peer = "open" => conn[c].unread \in Seq(Sent)
  BY <1>4 DEF ItsOwner
<1>6. CASE obj[o].status = "EXITING"
  <2> DEFINE d == [conn[c] EXCEPT !.answer = 0]
  <2>1. conn' = [conn EXCEPT ![c] = d] /\ UNCHANGED obj
    BY <1>1, <1>6 DEF process_detach
  <2>2. /\ d \in ConnRecords /\ d.held = conn[c].held /\ d.peer = conn[c].peer
        /\ d.unread = conn[c].unread
    BY <1>5 DEF ConnRecords
  <2> HIDE DEF d
  <2>3. obj' = [obj EXCEPT ![o] = obj[o]]
    <3>1. obj = [u \in DOMAIN obj |-> obj[u]]
      BY DEF FullInv, Typed
    <3> QED
      BY <2>1, <3>1
  <2>4. ObjectTurned(o, p, obj[o], c, d)
    <3>1. ObjectTurns(o, p, obj[o], c, d)
      BY <1>2, <1>3, <1>5, <1>6, <2>1, <2>2, <2>3 DEF ObjectTurns
    <3> QED
      BY <3>1, OneObject
  <2>5. /\ conn'[c] = d /\ \A e \in DOMAIN conn : e # c => conn'[e] = conn[e]
        /\ Mem(p)' = Mem(p) /\ Tracing(p)' = Tracing(p) /\ Connected(p)' = Connected(p)
    BY <1>2, <1>5, <2>1, <2>4 DEF ObjectTurned, Tracing, Connected
  <2>6. ASSUME Connected(p), Mem(p).outfd = c, conn[c].peer = "open"
        PROVE  proc[p].at # "await"
    BY <1>5, <1>6, <2>6 DEF Accepted
  <2>7. OwnerAt(p)'
    <3>1. ASSUME Connected(p), conn'[Mem(p).outfd].peer = "open"
          PROVE  Accepted(p, Mem(p).outfd)'
      <4>1. Accepted(p, Mem(p).outfd)
        BY <1>4, <1>5, <2>2, <2>5, <3>1 DEF Told, OwnerAt
      <4>2. CASE Mem(p).outfd = c
        BY <1>2, <2>1, <2>2, <2>5, <2>6, <3>1, <4>1, <4>2 DEF Accepted
      <4>3. CASE Mem(p).outfd # c
        BY <1>2, <1>5, <2>1, <2>5, <3>1, <4>1, <4>3 DEF Accepted
      <4> QED
        BY <4>2, <4>3
    <3>2. Connected(p) =>
            /\ conn'[Mem(p).outfd].held = conn[Mem(p).outfd].held
            /\ conn'[Mem(p).outfd].peer = "pending" =>
                 conn[Mem(p).outfd].peer = "pending"
                 /\ conn'[Mem(p).outfd].answer = conn[Mem(p).outfd].answer
      BY <1>4, <1>5, <2>2, <2>5
    <3> QED
      BY <1>2, <1>5, <2>5, <3>1, <3>2 DEF Told, OwnerAt
  <2>8. ASSUME Connected(p)
        PROVE  /\ conn'[Mem(p).outfd].peer = conn[Mem(p).outfd].peer
               /\ conn'[Mem(p).outfd].unread = conn[Mem(p).outfd].unread
    BY <1>5, <2>2, <2>5, <2>8
  <2>9. QuietAt(p)'
    BY <1>2, <1>5, <2>1, <2>5, <2>8 DEF Told, QuietAt, Unheard, Connected
  <2>10. StepAt(p)'
    <3>1. SUFFICES ASSUME proc[p].parent = NULL, proc[p].at \in {"await", "run"}, Tracing(p),
                          conn'[Mem(p).outfd].peer = "open"
                   PROVE  Leads(obj[pid_table[p]], conn'[Mem(p).outfd].unread, Mem(p))
      BY <1>2, <2>1, <2>5 DEF StepAt, Leads
    <3>2. Connected(p)
      BY <3>1 DEF Connected
    <3> QED
      BY <1>5, <2>8, <3>1, <3>2 DEF Told, StepAt
  <2> QED
    BY <2>4, <2>7, <2>9, <2>10 DEF ObjectTurned, Told
<1>7. CASE obj[o].status = "RUNNING"
  <2> DEFINE d == [conn[c] EXCEPT !.peer = "closed", !.unread = <<>>]
             x == [obj[o] EXCEPT !.status = "DETACHED", !.window = FALSE]
  <2>1. conn' = [conn EXCEPT ![c] = d] /\ obj' = [obj EXCEPT ![o] = x]
    BY <1>1, <1>7 DEF process_detach
  <2>2. d \in ConnRecords /\ d.held = conn[c].held /\ d.peer = "closed"
    <3>1. <<>> \in Seq(Hellos \cup Reports)
      OBVIOUS
    <3> QED
      BY <1>5, <3>1 DEF ConnRecords
  <2>3. x \in ObjRecordsTo(Len(conn)) /\ x.pid = p /\ x.channel = c /\ x.status = "DETACHED"
    BY <1>5 DEF ObjRecordsTo, Statuses
  <2> HIDE DEF d, x
  <2>4. ObjectTurned(o, p, x, c, d)
    <3>1. ObjectTurns(o, p, x, c, d)
      BY <1>2, <1>3, <1>5, <2>1, <2>2, <2>3 DEF ObjectTurns
    <3> QED
      BY <3>1, OneObject
  <2>5. /\ conn'[c] = d /\ \A e \in DOMAIN conn : e # c => conn'[e] = conn[e]
        /\ obj'[o] = x /\ \A u \in DOMAIN obj : u # o => obj'[u] = obj[u]
        /\ Mem(p)' = Mem(p) /\ Tracing(p)' = Tracing(p) /\ Connected(p)' = Connected(p)
    BY <1>2, <1>5, <2>1, <2>4 DEF ObjectTurned, Tracing, Connected
  <2>6. ASSUME Connected(p), conn'[Mem(p).outfd].peer # "closed"
        PROVE  /\ Mem(p).outfd # c /\ Mem(p).outfd \in DOMAIN conn
               /\ conn'[Mem(p).outfd] = conn[Mem(p).outfd]
    BY <1>5, <2>2, <2>5, <2>6
  <2>7. ASSUME Connected(p), conn'[Mem(p).outfd].peer = "open"
        PROVE  /\ Accepted(p, Mem(p).outfd) /\ obj'[pid_table[p]] = obj[pid_table[p]]
               /\ conn'[Mem(p).outfd] = conn[Mem(p).outfd]
    <3>1. Mem(p).outfd # c /\ conn'[Mem(p).outfd] = conn[Mem(p).outfd]
      BY <2>6, <2>7
    <3>2. Accepted(p, Mem(p).outfd)
      BY <1>5, <2>7, <3>1 DEF Told, OwnerAt
    <3>3. pid_table[p] # o /\ pid_table[p] \in DOMAIN obj
      BY <1>5, <3>1, <3>2 DEF Accepted
    <3> QED
      BY <2>5, <3>1, <3>2, <3>3
  <2>8. Connected(p) => conn'[Mem(p).outfd].held = conn[Mem(p).outfd].held
    BY <1>5, <2>2, <2>5
  <2>9. OwnerAt(p)'
    <3>1. ASSUME Connected(p), conn'[Mem(p).outfd].peer = "open"
          PROVE  Accepted(p, Mem(p).outfd)'
      BY <1>2, <2>5, <2>7, <3>1 DEF Accepted
    <3> QED
      BY <1>2, <1>5, <2>5, <2>6, <2>8, <3>1 DEF Told, OwnerAt
  <2>10. QuietAt(p)'
    <3>1. SUFFICES ASSUME memprof = "up", p \in DOMAIN pid_table, Unheard(p)',
                          obj'[pid_table[p]].status = "RUNNING"
                   PROVE  FALSE
      BY <1>2 DEF QuietAt
    <3>2. pid_table[p] # o /\ obj[pid_table[p]].status = "RUNNING"
      BY <1>5, <2>3, <2>5, <3>1
    <3>3. ~Unheard(p)
      BY <1>5, <3>1, <3>2 DEF Told, QuietAt
    <3>4. /\ Connected(p) /\ conn'[Mem(p).outfd].peer = "closed"
          /\ conn[Mem(p).outfd].peer # "closed"
      BY <1>2, <2>5, <3>1, <3>3 DEF Unheard, Connected
    <3>5. Mem(p).outfd = c
      BY <1>5, <2>5, <3>4
    <3>6. conn[c].peer = "open"
      BY <1>4, <1>5, <3>4, <3>5 DEF ConnRecords
    <3> QED
      BY <1>5, <3>2, <3>4, <3>5, <3>6
  <2>11. StepAt(p)'
    <3>1. SUFFICES ASSUME proc[p].parent = NULL, proc[p].at \in {"await", "run"}, Tracing(p),
                          conn'[Mem(p).outfd].peer = "open"
                   PROVE  Leads(obj'[pid_table[p]], conn'[Mem(p).outfd].unread, Mem(p))
      BY <1>2, <2>5 DEF StepAt, Leads
    <3>2. Connected(p)
      BY <3>1 DEF Connected
    <3> QED
      BY <1>5, <2>7, <3>1, <3>2 DEF Told, StepAt
  <2> QED
    BY <2>4, <2>9, <2>10, <2>11 DEF ObjectTurned, Told
<1> QED
  BY <1>2, <1>6, <1>7

\* A connection has nothing but its first record when control_func reads that.
LEMMA TailOfOne ==
  ASSUME NEW S, NEW s \in Seq(S), Len(s) = 1
  PROVE  Tail(s) = <<>>
<1>1. Len(s) = 1 /\ Tail(s) \in Seq(S) /\ Len(Tail(s)) = Len(s) - 1
  BY Tails
<1>2. Len(Tail(s)) = 0
  BY <1>1
<1> QED
  BY <1>1, <1>2, EmptySeq

\* control_func serves the connection c, which p has made and waits on.
Serves(c, p, d) ==
  /\ UNCHANGED <<clientVars, memprof, options>>
  /\ c \in DOMAIN conn /\ conn[c].peer = "pending" /\ conn[c].held # {}
  /\ p \in Pids /\ PendingOf(c, p)
  /\ d \in ConnRecords /\ d.held = conn[c].held /\ d.peer \in {"open", "closed"}
  /\ d.unread = <<>> /\ conn' = [conn EXCEPT ![c] = d]

\* What other processes have is left to them.
Untouched(p) ==
  /\ Typed(proc, image, conn, obj, pid_table)' /\ obj' # <<>>
  /\ ObjInv' /\ StartInv' /\ OnlyTheProgram'
  /\ DOMAIN pid_table' \subseteq DOMAIN pid_table \cup {p}
  /\ \A q \in DOMAIN pid_table : q # p =>
       /\ q \in DOMAIN pid_table' /\ pid_table'[q] = pid_table[q]
       /\ obj'[pid_table[q]] = obj[pid_table[q]]

Served(c, p, d) ==
  /\ conn[c].held = {p} /\ proc[p].at = "await" /\ Mem(p).outfd = c /\ Tracing(p) /\ c # None
  /\ conn' \in Seq(ConnRecords) /\ Len(conn') = Len(conn) /\ DOMAIN conn' = DOMAIN conn
  /\ conn'[c] = d /\ \A e \in DOMAIN conn : e # c => conn'[e] = conn[e]
  /\ Mem(p)' = Mem(p)
  /\ \A o \in DOMAIN obj : obj[o].channel # c
  /\ Untouched(p) /\ Told(p)' => FullInv'

\* control_func disturbs no process but the one it answers.
LEMMA Serving ==
  ASSUME FullInv, NEW c, NEW p, NEW d, Serves(c, p, d)
  PROVE  Served(c, p, d)
<1>0. /\ Typed(proc, image, conn, obj, pid_table) /\ SpaceInv /\ ObjInv /\ OwnerInv /\ LinkInv
      /\ PendingInv /\ UNCHANGED <<proc, image, memprof, options>> /\ UNCHANGED clientVars
      /\ memprof' \in {"up", "SIGPIPE", "SIGSEGV"}
  BY DEF FullInv, LinkInv, clientVars, Serves
<1>1. /\ c \in DOMAIN conn /\ conn[c].peer = "pending" /\ p \in Pids /\ Exists(p)
      /\ d \in ConnRecords /\ conn' = [conn EXCEPT ![c] = d]
      /\ d.held = conn[c].held /\ d.peer \in {"open", "closed"} /\ d.unread = <<>>
      /\ conn[c].held = {p} /\ proc[p].at = "await" /\ Mem(p).outfd = c
  BY DEF Serves, PendingOf
<1>2. Tracing(p) /\ Connected(p) /\ c # None
  BY <1>0, <1>1, Connections DEF OwnerInv, OwnerAt, Connected, None
<1>3. /\ conn' \in Seq(ConnRecords) /\ Len(conn') = Len(conn) /\ DOMAIN conn' = DOMAIN conn
      /\ conn'[c] = d /\ \A e \in DOMAIN conn : e # c => conn'[e] = conn[e]
  BY <1>0, <1>1, OneChanges
<1>4. \A o \in DOMAIN obj : obj[o].channel # c
  BY <1>0, <1>1, <1>2 DEF ObjInv, ObjAt
<1>5. \A q \in Pids : Mem(q)' = Mem(q)
  BY <1>0 DEF Mem
<1>6. ASSUME Untouched(p), Told(p)' PROVE FullInv'
  <2>1. ASSUME NEW q \in Pids, q # p PROVE Kept(q)
    <3>1. Connected(q) => Mem(q).outfd \in DOMAIN conn /\ Mem(q).outfd # c
      BY <1>0, <1>1, <1>2, <2>1, Outfd, Apart
    <3>2. q \in DOMAIN pid_table' <=> q \in DOMAIN pid_table
      BY <1>6, <2>1 DEF Untouched
    <3> QED
      BY <1>0, <1>3, <1>5, <1>6, <2>1, <3>1, <3>2 DEF Kept, Untouched
  <2>2. ASSUME NEW e \in DOMAIN conn PROVE ConnectionStays(e) \/ ConnAt(e)'
    <3>1. CASE e = c
      <4>1. <<>> \in Seq(Sent)
        OBVIOUS
      <4> QED
        BY <1>1, <1>3, <3>1, <4>1 DEF ConnAt
    <3>2. CASE e # c
      <4>1. conn[e].peer = "pending" => \A q \in conn[e].held : q \in Pids /\ q # p
        BY <1>0, <1>1, <3>2, PendingHeld
      <4>2. conn[e].peer = "open" => conn[e].unread \in Seq(Sent)
        BY <1>0 DEF PendingInv, ConnAt
      <4> QED
        BY <1>3, <2>1, <3>2, <4>1, <4>2 DEF ConnectionStays
    <3> QED
      BY <3>1, <3>2
  <2>3. \A q \in DOMAIN pid_table' : Exists(q)
    <3>1. \A q \in DOMAIN pid_table : q \in Pids /\ Exists(q)
      BY <1>0, TableLeads DEF SpaceInv, SpaceAt
    <3> QED
      BY <1>1, <1>6, <3>1 DEF Untouched
  <2>4. \A e \in DOMAIN conn : conn'[e].held = conn[e].held
    BY <1>1, <1>3
  <2>5. /\ Typed(proc, image, conn, obj, pid_table)' /\ obj' # <<>>
        /\ ObjInv' /\ StartInv' /\ OnlyTheProgram'
    BY <1>6 DEF Untouched
  <2> QED
    BY <1>0, <1>3, <1>6, <2>1, <2>2, <2>3, <2>4, <2>5, MemprofSteps
<1> QED
  BY <1>1, <1>2, <1>3, <1>4, <1>5, <1>6 DEF Served

\* control_func refuses: the process is not to be traced.
LEMMA Refused ==
  ASSUME FullInv, UNCHANGED options, NEW c \in DOMAIN conn, control_func(c),
         Refuses(Head(conn[c].unread)), Refusal(c), UNCHANGED objVars
  PROVE  FullInv'
<1>1. /\ Typed(proc, image, conn, obj, pid_table) /\ SpaceInv /\ ObjInv /\ OwnerInv
      /\ PendingInv /\ StartInv /\ OnlyTheProgram
      /\ UNCHANGED <<proc, image, obj, pid_table, memprof, options>>
      /\ UNCHANGED <<clientVars, memprof, options>>
      /\ conn[c].peer = "pending" /\ conn[c].held # {}
  BY DEF FullInv, LinkInv, clientVars, objVars, control_func
<1>2. PICK p \in Pids : PendingOf(c, p)
  BY <1>1 DEF PendingInv, ConnAt
<1>3. conn[c] \in ConnRecords
  BY <1>1, Connections
<1>4. Tail(conn[c].unread) = <<>> /\ <<>> \in Seq(Hellos \cup Reports)
  BY <1>2, <1>3, TailOfOne DEF PendingOf, ConnRecords
<1> DEFINE d == [conn[c] EXCEPT !.peer = "closed", !.answer = 0, !.unread = Tail(@)]
<1>5. d \in ConnRecords /\ d.held = conn[c].held /\ d.peer = "closed" /\ d.unread = <<>>
  BY <1>3, <1>4 DEF ConnRecords
<1>6. conn' = [conn EXCEPT ![c] = d]
  BY DEF Refusal
<1> HIDE DEF d
<1>7. Served(c, p, d)
  <2>1. Serves(c, p, d)
    BY <1>1, <1>2, <1>5, <1>6 DEF Serves
  <2> QED
    BY <2>1, Serving
<1>8. Untouched(p)
  <2>1. ObjInv' /\ StartInv' /\ OnlyTheProgram'
    <3>1. /\ \A q \in Pids : Exists(q) => Exists(q)' /\ proc'[q].parent = proc[q].parent
          /\ \A e \in DOMAIN conn :
               e \in DOMAIN conn' /\ (conn'[e].peer = "pending" => conn[e].peer = "pending")
          /\ \A e \in DOMAIN conn' : conn'[e].peer = "open" =>
               /\ e \in DOMAIN conn /\ conn[e].peer = "open"
               /\ \A q \in conn'[e].held : Exists(q) => q \in conn[e].held
      BY <1>1, <1>5, <1>7 DEF Served, Exists
    <3> QED
      BY <1>1, <3>1, ObjectsKept
  <2>2. Typed(proc, image, conn, obj, pid_table)'
    BY <1>1, <1>7 DEF Served, Typed
  <2>3. obj # <<>>
    BY <1>1, <1>2 DEF SpaceInv, PendingOf
  <2> QED
    BY <1>1, <2>1, <2>2, <2>3 DEF Untouched
<1>9. p \notin DOMAIN pid_table
  <2>1. Refuses(Head(conn[c].unread)) /\ IsHello(Head(conn[c].unread), p)
        /\ (Head(conn[c].unread).operation = "MI_FORK" => p \notin DOMAIN pid_table)
    BY <1>1, <1>2 DEF PendingOf
  <2>2. p \in DOMAIN pid_table => find_process(p) # None
    BY <1>1, TableLeads, Objects DEF None
  <2> QED
    BY <2>1, <2>2 DEF Refuses, IsHello
<1>10. Told(p)'
  <2>1. Tracing(p)' /\ Mem(p)' = Mem(p) /\ conn'[c] = d /\ Mem(p).outfd = c /\ c # None
        /\ conn[c].held = {p} /\ proc[p].at = "await"
    BY <1>7 DEF Served, Tracing
  <2> QED
    BY <1>1, <1>5, <1>9, <2>1 DEF Told, OwnerAt, QuietAt, StepAt
<1> QED
  BY <1>7, <1>8, <1>10 DEF Served

\* The object u, which is x from now on, is the one that reads c, for p.
Adopts(c, p, u, x) ==
  /\ obj' \in Seq(ObjRecordsTo(Len(conn))) /\ DOMAIN obj' = DOMAIN obj \cup {u}
  /\ u \in DOMAIN obj => obj[u].pid = p
  /\ obj'[u] = x /\ \A v \in DOMAIN obj : v # u => obj'[v] = obj[v]
  /\ DOMAIN pid_table' = DOMAIN pid_table \cup {p} /\ pid_table'[p] = u
  /\ pid_table' = [q \in DOMAIN pid_table' |-> pid_table'[q]]
  /\ \A q \in DOMAIN pid_table : q # p => pid_table'[q] = pid_table[q]
  /\ x.pid = p /\ x.status = "RUNNING" /\ x.channel = c
  /\ FollowFork \/ proc[p].parent = NULL
  /\ FollowExec \/ p \notin DOMAIN pid_table \/ pid_table[p] = u
  /\ proc[p].parent = NULL => Leads(x, <<>>, Mem(p))

\* control_func accepts: whichever the object, what is true of p follows.
LEMMA Adopted ==
  ASSUME FullInv, NEW c, NEW p, NEW d, Serves(c, p, d), d.peer = "open", d.answer = 1,
         NEW u, NEW x, Adopts(c, p, u, x)
  PROVE  FullInv'
<1>0. /\ Typed(proc, image, conn, obj, pid_table) /\ SpaceInv /\ ObjInv /\ OwnerInv
      /\ PendingInv /\ StartInv /\ OnlyTheProgram
      /\ UNCHANGED <<proc, image, memprof, options>>
  BY DEF FullInv, LinkInv, clientVars, Serves
<1>1. Served(c, p, d)
  BY Serving
<1>2. /\ conn[c].held = {p} /\ proc[p].at = "await" /\ Mem(p).outfd = c /\ c # None
      /\ conn' \in Seq(ConnRecords) /\ Len(conn') = Len(conn) /\ DOMAIN conn' = DOMAIN conn
      /\ conn'[c] = d /\ \A e \in DOMAIN conn : e # c => conn'[e] = conn[e]
      /\ Mem(p)' = Mem(p) /\ Tracing(p)' /\ \A o \in DOMAIN obj : obj[o].channel # c
      /\ Untouched(p) /\ Told(p)' => FullInv'
  BY <1>1 DEF Served, Tracing
<1>3. /\ c \in DOMAIN conn /\ p \in Pids /\ Exists(p) /\ d.held = {p} /\ d.unread = <<>>
      /\ conn[c].peer = "pending"
  BY <1>2 DEF Serves, PendingOf
<1>4. /\ DOMAIN obj' = DOMAIN obj \cup {u} /\ obj'[u] = x
      /\ \A v \in DOMAIN obj : v # u => obj'[v] = obj[v]
      /\ DOMAIN pid_table' = DOMAIN pid_table \cup {p} /\ pid_table'[p] = u
      /\ pid_table' = [q \in DOMAIN pid_table' |-> pid_table'[q]]
      /\ \A q \in DOMAIN pid_table : q # p => pid_table'[q] = pid_table[q]
      /\ x.pid = p /\ x.status = "RUNNING" /\ x.channel = c
      /\ FollowFork \/ proc[p].parent = NULL
      /\ FollowExec \/ p \notin DOMAIN pid_table \/ pid_table[p] = u
      /\ proc[p].parent = NULL => Leads(x, <<>>, Mem(p))
      /\ obj' \in Seq(ObjRecordsTo(Len(conn))) /\ (u \in DOMAIN obj => obj[u].pid = p)
  BY DEF Adopts
<1>5. ASSUME NEW q \in DOMAIN pid_table, q # p
      PROVE  /\ pid_table[q] \in DOMAIN obj /\ pid_table[q] # u /\ obj[pid_table[q]].pid = q
             /\ obj'[pid_table[q]] = obj[pid_table[q]]
  <2>1. pid_table[q] \in DOMAIN obj /\ obj[pid_table[q]].pid = q
    BY <1>0, TableLeads DEF ObjInv
  <2> QED
    BY <1>4, <1>5, <2>1
<1>6. Typed(proc, image, conn, obj, pid_table)'
  <2>1. /\ DOMAIN pid_table \subseteq Pids /\ pid_table \in [DOMAIN pid_table -> DOMAIN obj]
        /\ proc \in [Pids -> ProcRecords(Len(image))] /\ image \in Seq(ImageRecords(Len(conn)))
    BY <1>0 DEF Typed
  <2>2. DOMAIN pid_table' \subseteq Pids
    BY <1>3, <1>4, <2>1
  <2>3. \A q \in DOMAIN pid_table' : pid_table'[q] \in DOMAIN obj'
    BY <1>4, <2>1
  <2> QED
    BY <1>0, <1>2, <1>4, <2>1, <2>2, <2>3 DEF Typed
<1>7. ObjInv'
  <2>1. \A q \in DOMAIN pid_table' : obj'[pid_table'[q]].pid = q
    BY <1>4, <1>5
  <2>2. ASSUME NEW v \in DOMAIN obj' PROVE ObjAt(v)'
    <3>1. CASE v = u
      BY <1>0, <1>2, <1>3, <1>4, <3>1 DEF ObjAt, Exists
    <3>2. CASE v # u
      <4>1. v \in DOMAIN obj /\ obj'[v] = obj[v] /\ ObjAt(v)
        BY <1>0, <1>4, <3>2 DEF ObjInv
      <4>2. obj[v].channel # None => obj[v].channel \in DOMAIN conn /\ obj[v].channel # c
        BY <1>0, <1>2, <4>1, Objects
      <4> QED
        BY <1>0, <1>2, <1>4, <4>1, <4>2 DEF ObjAt, Exists
    <3> QED
      BY <3>1, <3>2
  <2> QED
    BY <2>1, <2>2 DEF ObjInv
<1>8. StartInv'
  <2>1. ASSUME NEW v \in DOMAIN obj', obj'[v].status = "STARTING" PROVE StartAt(v)'
    <3>1. v # u /\ v \in DOMAIN obj /\ obj'[v] = obj[v] /\ StartAt(v)
      BY <1>0, <1>4, <2>1 DEF StartInv
    <3>2. FollowExec' = FollowExec
      BY <1>0 DEF FollowExec
    <3>3. ASSUME ~FollowExec
          PROVE  /\ find_process(obj[v].pid)' = v
                 /\ \A e \in DOMAIN conn :
                      conn'[e].peer = "open" => obj[v].pid \notin conn'[e].held
      <4>1. /\ find_process(obj[v].pid) = v
            /\ \A e \in DOMAIN conn : conn[e].peer = "open" => obj[v].pid \notin conn[e].held
        BY <2>1, <3>1, <3>3 DEF StartAt
      <4>2. v # None
        BY <1>0, <3>1, Objects DEF None
      <4>3. obj[v].pid \in DOMAIN pid_table /\ pid_table[obj[v].pid] = v
        BY <4>1, <4>2 DEF find_process, Has
      <4>4. obj[v].pid # p
        BY <1>4, <3>1, <3>3, <4>3
      <4> QED
        BY <1>2, <1>3, <1>4, <3>1, <4>1, <4>3, <4>4 DEF find_process, Has
    <3> QED
      BY <1>2, <2>1, <3>1, <3>2, <3>3 DEF StartAt
  <2> QED
    BY <2>1 DEF StartInv, StartAt
<1>9. OnlyTheProgram'
  BY <1>0, <1>4 DEF OnlyTheProgram, FollowFork
<1>10. Untouched(p)
  <2>1. obj' # <<>>
    BY <1>4
  <2> QED
    BY <1>4, <1>5, <1>6, <1>7, <1>8, <1>9, <2>1 DEF Untouched
<1>11. Told(p)'
  <2>1. Accepted(p, c)'
    BY <1>2, <1>3, <1>4 DEF Accepted
  <2>2. OwnerAt(p)'
    BY <1>0, <1>2, <1>3, <2>1 DEF OwnerAt
  <2>3. QuietAt(p)'
    BY <1>0, <1>2 DEF QuietAt, Unheard
  <2>4. StepAt(p)'
    BY <1>0, <1>2, <1>3, <1>4 DEF StepAt, Leads
  <2> QED
    BY <2>2, <2>3, <2>4 DEF Told
<1> QED
  BY <1>2, <1>10, <1>11

HasRegistered(p, x) ==
  \E u : /\ obj' \in Seq(ObjRecordsTo(Len(conn)))
         /\ DOMAIN obj' = DOMAIN obj \cup {u} /\ u \notin DOMAIN obj
         /\ obj'[u] = x /\ \A v \in DOMAIN obj : obj'[v] = obj[v]
         /\ DOMAIN pid_table' = DOMAIN pid_table \cup {p}
         /\ pid_table' = [q \in DOMAIN pid_table' |-> pid_table'[q]]
         /\ pid_table'[p] = u
         /\ \A q \in DOMAIN pid_table : q # p => pid_table'[q] = pid_table[q]

\* A new object, and its entry in the table (mp_server_add_process).
LEMMA Registered ==
  ASSUME Typed(proc, image, conn, obj, pid_table), NEW p, NEW x \in ObjRecordsTo(Len(conn)),
         Registers(p, x)
  PROVE  HasRegistered(p, x)
<1>1. PICK u : u = Len(obj) + 1
  OBVIOUS
<1>2. obj \in Seq(ObjRecordsTo(Len(conn))) /\ DOMAIN obj = 1 .. Len(obj) /\ Len(obj) \in Nat
  BY Objects DEF Typed
<1>3. obj' = Append(obj, x) /\ pid_table' = Insert(pid_table, p, u)
  BY <1>1 DEF Registers
<1>4. /\ obj' \in Seq(ObjRecordsTo(Len(conn))) /\ Len(obj') = Len(obj) + 1
      /\ \A v \in 1 .. Len(obj) : obj'[v] = obj[v]
      /\ obj'[u] = x
  BY <1>1, <1>2, <1>3, Appends
<1>5. DOMAIN obj' = 1 .. Len(obj) + 1
  BY <1>4, Elements
<1>6. DOMAIN obj' = DOMAIN obj \cup {u} /\ u \notin DOMAIN obj
  BY <1>1, <1>2, <1>5
<1>7. /\ DOMAIN pid_table' = DOMAIN pid_table \cup {p} /\ pid_table'[p] = u
      /\ pid_table' = [q \in DOMAIN pid_table' |-> pid_table'[q]]
      /\ \A q \in DOMAIN pid_table : q # p => pid_table'[q] = pid_table[q]
  BY <1>3 DEF Insert
<1> QED
  BY <1>2, <1>4, <1>6, <1>7 DEF HasRegistered

\* All that control_func can do: refuse, exec reset, a new object, a duplicate.
LEMMA Controls ==
  ASSUME FullInv, UNCHANGED options, NEW c \in DOMAIN conn, control_func(c)
  PROVE  FullInv'
<1>1. /\ Typed(proc, image, conn, obj, pid_table) /\ SpaceInv /\ ObjInv /\ OwnerInv
      /\ PendingInv /\ OnlyTheProgram /\ UNCHANGED <<clientVars, memprof, options>>
      /\ conn[c].peer = "pending" /\ conn[c].held # {}
  BY DEF FullInv, LinkInv, control_func
<1>2. PICK h : h = Head(conn[c].unread)
  OBVIOUS
<1>3. CASE Refuses(h)
  <2>1. Refusal(c) /\ UNCHANGED objVars
    BY <1>2, <1>3 DEF control_func
  <2> QED
    BY <1>2, <1>3, <2>1, Refused
<1>4. CASE ~Refuses(h)
  <2>1. PICK p \in Pids : PendingOf(c, p)
    BY <1>1 DEF PendingInv, ConnAt
  <2>2. conn[c] \in ConnRecords
    BY <1>1, Connections
  <2>3. Tail(conn[c].unread) = <<>> /\ <<>> \in Seq(Hellos \cup Reports)
    BY <2>1, <2>2, TailOfOne DEF PendingOf, ConnRecords
  <2> DEFINE d == [conn[c] EXCEPT !.peer = "open", !.answer = 1, !.unread = Tail(@)]
  <2>4. /\ d \in ConnRecords /\ d.held = conn[c].held /\ d.peer = "open"
        /\ d.unread = <<>> /\ d.answer = 1
    BY <2>2, <2>3 DEF ConnRecords
  <2>5. Accepts(c, h)
    BY <1>2, <1>4 DEF control_func
  <2>6. conn' = [conn EXCEPT ![c] = d]
    BY <2>5 DEF Accepts
  <2> HIDE DEF d
  <2>7. Serves(c, p, d)
    BY <1>1, <2>1, <2>4, <2>6 DEF Serves
  <2>8. /\ h.new_pid = p /\ conn[c].held = {p}
        /\ \/ h.operation = "MI_NEW" /\ h.pid = NULL /\ Mem(p).seqno = 0 /\ Mem(p).heap = {}
           \/ /\ h.operation = "MI_FORK" /\ h.pid = proc[p].parent /\ h.pid # NULL
              /\ p \notin DOMAIN pid_table
    BY <1>1, <1>2, <2>1 DEF PendingOf, IsHello
  <2>9. p \in DOMAIN pid_table => h.operation = "MI_NEW"
    BY <2>8
  <2>10. ASSUME proc[p].parent = NULL, NEW x, x.queue = {}, x.seqno = 0, x.table = {}
         PROVE  Leads(x, <<>>, Mem(p))
    <3>1. h.operation = "MI_NEW"
      BY <2>8, <2>10
    <3>2. Mem(p).seqno = 0 /\ Mem(p).heap = {}
      BY <2>8, <3>1
    <3>3. Len(<<>>) = 0 /\ DOMAIN <<>> = {}
      OBVIOUS
    <3> QED
      BY <2>10, <3>2, <3>3 DEF Leads, After
  <2>11. c \in 0 .. Len(conn) /\ p \in Pids /\ {} \in SUBSET Addrs /\ {} \in SUBSET Reports
    BY <1>1, Connections
  <2>12. CASE p \in DOMAIN pid_table
    <3>1. PICK old : old = find_process(p)
      OBVIOUS
    <3>2. /\ old \in DOMAIN obj /\ pid_table[p] = old /\ obj[old].pid = p /\ old # None
          /\ obj[old] \in ObjRecordsTo(Len(conn))
      BY <1>1, <2>12, <3>1, TableLeads, Objects DEF ObjInv, None
    <3>3. FollowFork \/ proc[p].parent = NULL
      BY <1>1, <3>2 DEF OnlyTheProgram
    <3>4. CASE FollowExec
      <4> DEFINE x == process_new(p, "RUNNING", c)
      <4>1. Registers(p, x)
        BY <2>5, <2>8, <3>1, <3>2, <3>4 DEF Accepts
      <4>2. /\ x \in ObjRecordsTo(Len(conn)) /\ x.pid = p
            /\ x.status = "RUNNING" /\ x.channel = c
            /\ x.queue = {} /\ x.seqno = 0 /\ x.table = {}
        BY <2>11 DEF process_new, ObjRecordsTo, Statuses
      <4> HIDE DEF x
      <4>3. PICK u : /\ obj' \in Seq(ObjRecordsTo(Len(conn)))
                     /\ DOMAIN obj' = DOMAIN obj \cup {u} /\ u \notin DOMAIN obj
                     /\ obj'[u] = x /\ \A v \in DOMAIN obj : obj'[v] = obj[v]
                     /\ DOMAIN pid_table' = DOMAIN pid_table \cup {p}
                     /\ pid_table' = [q \in DOMAIN pid_table' |-> pid_table'[q]]
                     /\ pid_table'[p] = u
                     /\ \A q \in DOMAIN pid_table : q # p => pid_table'[q] = pid_table[q]
        <5>1. HasRegistered(p, x)
          BY <1>1, <4>1, <4>2, Registered
        <5> QED
          BY <5>1 DEF HasRegistered
      <4>4. Adopts(c, p, u, x)
        BY <2>10, <3>3, <3>4, <4>2, <4>3 DEF Adopts
      <4> QED
        BY <2>4, <2>7, <4>4, Adopted
    <3>5. CASE ~FollowExec
      <4> DEFINE x == [obj[old] EXCEPT !.status = "RUNNING", !.channel = c,
                                       !.seqno = 0, !.table = {}, !.queue = {}]
      <4>1. obj' = [obj EXCEPT ![old] = x] /\ UNCHANGED pid_table
        BY <2>5, <2>8, <3>1, <3>2, <3>5 DEF Accepts, process_exec_reset
      <4>2. /\ x \in ObjRecordsTo(Len(conn)) /\ x.pid = p
            /\ x.status = "RUNNING" /\ x.channel = c
            /\ x.queue = {} /\ x.seqno = 0 /\ x.table = {}
        BY <2>11, <3>2 DEF ObjRecordsTo, Statuses
      <4> HIDE DEF x
      <4>3. /\ obj' \in Seq(ObjRecordsTo(Len(conn))) /\ Len(obj') = Len(obj)
            /\ obj'[old] = x /\ \A v \in 1 .. Len(obj) : v # old => obj'[v] = obj[v]
            /\ DOMAIN obj = 1 .. Len(obj)
        <5>1. obj \in Seq(ObjRecordsTo(Len(conn))) /\ DOMAIN obj = 1 .. Len(obj)
          BY <1>1, Objects DEF Typed
        <5> QED
          BY <3>2, <4>1, <4>2, <5>1, Changes
      <4>4. DOMAIN obj' = DOMAIN obj \cup {old}
        BY <3>2, <4>3, Elements
      <4>5. /\ DOMAIN pid_table' = DOMAIN pid_table \cup {p}
            /\ pid_table' = [q \in DOMAIN pid_table' |-> pid_table'[q]]
        BY <1>1, <2>12, <4>1 DEF Typed
      <4>6. Adopts(c, p, old, x)
        BY <2>10, <3>2, <3>3, <4>1, <4>2, <4>3, <4>4, <4>5 DEF Adopts
      <4> QED
        BY <2>4, <2>7, <4>6, Adopted
    <3> QED
      BY <3>4, <3>5
  <2>13. CASE p \notin DOMAIN pid_table
    <3>1. find_process(p) = None
      BY <2>13 DEF find_process, Has
    <3>2. find_process(h.pid) # None
      BY <1>4, <2>8, <3>1 DEF Refuses
    <3>3. PICK old : old = find_process(h.pid)
      OBVIOUS
    <3>4. h.pid \in DOMAIN pid_table
      BY <3>2 DEF find_process, Has
    <3>5. old \in DOMAIN obj /\ obj[old] \in ObjRecordsTo(Len(conn)) /\ h.pid \in Pids
      BY <1>1, <3>3, <3>4, TableLeads, Objects
    <3>6. h.operation = "MI_FORK" /\ FollowFork /\ proc[p].parent # NULL
      BY <1>4, <2>8, <3>2, <3>5, SessionAssumption DEF Refuses
    <3> DEFINE x == process_duplicate(old, p, c)
    <3>7. Registers(p, x)
      BY <2>5, <2>8, <3>1, <3>3 DEF Accepts
    <3>8. x \in ObjRecordsTo(Len(conn)) /\ x.pid = p /\ x.status = "RUNNING" /\ x.channel = c
      BY <2>11, <3>5 DEF process_duplicate, ObjRecordsTo, Statuses
    <3> HIDE DEF x
    <3>9. PICK u : /\ obj' \in Seq(ObjRecordsTo(Len(conn)))
                   /\ DOMAIN obj' = DOMAIN obj \cup {u} /\ u \notin DOMAIN obj
                   /\ obj'[u] = x /\ \A v \in DOMAIN obj : obj'[v] = obj[v]
                   /\ DOMAIN pid_table' = DOMAIN pid_table \cup {p}
                   /\ pid_table' = [q \in DOMAIN pid_table' |-> pid_table'[q]]
                   /\ pid_table'[p] = u
                   /\ \A q \in DOMAIN pid_table : q # p => pid_table'[q] = pid_table[q]
      <4>1. HasRegistered(p, x)
        BY <1>1, <3>7, <3>8, Registered
      <4> QED
        BY <4>1 DEF HasRegistered
    <3>10. Adopts(c, p, u, x)
      BY <2>13, <3>6, <3>8, <3>9 DEF Adopts
    <3> QED
      BY <2>4, <2>7, <3>10, Adopted
  <2> QED
    BY <2>12, <2>13
<1> QED
  BY <1>3, <1>4

\* Run: the program starts, and its object waits for it (process_run).
LEMMA RunsProgram ==
  ASSUME FullInv, UNCHANGED options, process_run
  PROVE  FullInv'
<1>1. /\ Typed(proc, image, conn, obj, pid_table) /\ SpaceInv
      /\ obj = <<>> /\ image = <<>> /\ conn = <<>> /\ \A q \in Pids : ~Exists(q)
      /\ calls' \in 0 .. MaxCalls /\ memprof' \in {"up", "SIGPIPE", "SIGSEGV"}
      /\ UNCHANGED <<calls, conn, memprof, options>>
  BY DEF FullInv, LinkInv, SpaceInv, process_run
<1>2. proc \in [Pids -> ProcRecords(0)] /\ DOMAIN pid_table = {}
  BY <1>1 DEF Typed, SpaceInv, SpaceAt
<1>3a. PICK p \in Pids :
         /\ proc' = [proc EXCEPT ![p] = [at |-> "start", space |-> 1, parent |-> NULL,
                                          borrows |-> FALSE]]
         /\ image' = <<Fresh>> /\ obj' = <<process_new(p, "STARTING", None)>>
         /\ pid_table' = Insert(pid_table, p, 1)
  BY DEF process_run
<1>3. PICK start, x :
        /\ start = [at |-> "start", space |-> 1, parent |-> NULL, borrows |-> FALSE]
        /\ x = process_new(p, "STARTING", None)
        /\ proc' = [proc EXCEPT ![p] = start] /\ image' = <<Fresh>> /\ obj' = <<x>>
        /\ pid_table' = Insert(pid_table, p, 1)
  BY <1>3a
<1>4. /\ start \in ProcRecords(1) /\ start.at = "start" /\ start.space = 1 /\ start.parent = NULL
      /\ ~start.borrows
  BY <1>3 DEF ProcRecords, Places
<1>5. /\ proc' \in [Pids -> ProcRecords(1)] /\ proc'[p] = start
      /\ \A q \in Pids : q # p => proc'[q] = proc[q]
  <2>1. ProcRecords(0) \subseteq ProcRecords(1)
    BY TypesGrow
  <2> QED
    BY <1>2, <1>3, <1>4, <2>1
<1>6. /\ image' \in Seq(ImageRecords(0)) /\ Len(image') = 1 /\ DOMAIN image' = {1}
      /\ Mem(p)' = Fresh
  <2>1. Fresh \in ImageRecords(0)
    BY DEF Fresh, ImageRecords, None
  <2>2. Len(<<Fresh>>) = 1 /\ DOMAIN <<Fresh>> = {1} /\ <<Fresh>>[1] = Fresh
        /\ <<Fresh>> \in Seq(ImageRecords(0))
    BY <2>1
  <2>3. proc'[p].space = 1
    BY <1>4, <1>5
  <2> QED
    BY <1>3, <2>2, <2>3 DEF Mem
<1>7. /\ x \in ObjRecordsTo(0) /\ x.pid = p /\ x.status = "STARTING" /\ x.channel = None
  BY <1>3 DEF process_new, ObjRecordsTo, Statuses, None
<1>8. /\ obj' \in Seq(ObjRecordsTo(0)) /\ DOMAIN obj' = {1} /\ obj'[1] = x /\ obj' # <<>>
  BY <1>3, <1>7
<1>9. /\ DOMAIN pid_table' = {p} /\ pid_table'[p] = 1 /\ pid_table' \in [{p} -> {1}]
  BY <1>2, <1>3 DEF Insert
<1>10. Len(conn') = 0 /\ DOMAIN conn' = {} /\ conn' \in Seq(ConnRecords)
  BY <1>1
<1>11. Typed(proc, image, conn, obj, pid_table)'
  BY <1>5, <1>6, <1>8, <1>9, <1>10 DEF Typed
<1>12. /\ Exists(p)' /\ \A q \in Pids : q # p => ~Exists(q)'
       /\ \A q \in Pids : q # p => proc'[q].at = "none"
  BY <1>1, <1>4, <1>5 DEF Exists
<1>13. SpaceInv'
  <2>1. ASSUME NEW q \in Pids PROVE SpaceAt(q)'
    <3>1. SpaceAt(q)
      BY <1>1 DEF SpaceInv
    <3> QED
      BY <1>4, <1>5, <1>6, <1>9, <1>10, <1>12, <3>1 DEF SpaceAt
  <2> QED
    BY <1>8, <1>12, <2>1 DEF SpaceInv
<1>14. ObjInv'
  BY <1>7, <1>8, <1>9, <1>12 DEF ObjInv, ObjAt
<1>15. PendingInv'
  BY <1>10 DEF PendingInv
<1>16. ASSUME NEW q \in Pids PROVE Told(q)'
  <2>1. CASE q = p
    <3>1. proc'[q].at = "start" /\ Mem(q)' = Fresh
      BY <1>4, <1>5, <1>6, <2>1
    <3> QED
      BY <3>1 DEF Told, OwnerAt, QuietAt, StepAt, Unheard, Connected, Tracing, Fresh
  <2>2. CASE q # p
    BY <1>12, <2>2 DEF Told, OwnerAt, QuietAt, StepAt, Unheard, Connected
  <2> QED
    BY <2>1, <2>2
<1>17. StartInv'
  BY <1>7, <1>8, <1>9, <1>10 DEF StartInv, StartAt, find_process, Has
<1>18. OnlyTheProgram'
  BY <1>4, <1>5, <1>7, <1>8 DEF OnlyTheProgram
<1> QED
  BY <1>1, <1>11, <1>13, <1>14, <1>15, <1>16, <1>17, <1>18
     DEF FullInv, LinkInv, OwnerInv, QuietInv, StepInv, Told

-----------------------------------------------------------------------------
(* The invariant of every session without vfork.                           *)

\* No process yet.
LEMMA FullInit ==
  ASSUME SessionInit
  PROVE  FullInv
<1>1. /\ proc = [p \in Pids |-> [at |-> "none", space |-> None, parent |-> NULL,
                                 borrows |-> FALSE]]
      /\ image = <<>> /\ conn = <<>> /\ obj = <<>> /\ calls = 0 /\ memprof = "up"
      /\ DOMAIN pid_table = {} /\ pid_table \in [{} -> {}]
  BY DEF SessionInit, Empty
<1>2. \A p \in Pids : proc[p].at = "none" /\ ~proc[p].borrows /\ proc[p] \in ProcRecords(0)
  BY <1>1 DEF ProcRecords, Places, None
<1>3. Len(<<>>) = 0 /\ DOMAIN <<>> = {} /\ \A S : <<>> \in Seq(S)
  OBVIOUS
<1>4. Typed(proc, image, conn, obj, pid_table)
  <2>1. proc \in [Pids -> ProcRecords(0)]
    BY <1>1, <1>2
  <2> QED
    BY <1>1, <1>3, <2>1 DEF Typed
<1>5. LinkInv
  <2>1. SpaceInv
    BY <1>1, <1>2, <1>3 DEF SpaceInv, SpaceAt, Exists
  <2>2. ObjInv /\ PendingInv
    BY <1>1, <1>3 DEF ObjInv, PendingInv
  <2>3. OwnerInv
    BY <1>2 DEF OwnerInv, OwnerAt, Connected
  <2> QED
    BY <2>1, <2>2, <2>3 DEF LinkInv
<1>6. QuietInv /\ StepInv
  BY <1>2 DEF QuietInv, QuietAt, Unheard, StepInv, StepAt
<1>7. StartInv /\ OnlyTheProgram
  BY <1>1, <1>3 DEF StartInv, OnlyTheProgram
<1>8. calls \in 0 .. MaxCalls
  BY <1>1, SessionAssumption
<1> QED
  BY <1>1, <1>4, <1>5, <1>6, <1>7, <1>8 DEF FullInv

\* Other steps change nothing of the session.
LEMMA FullStutters ==
  ASSUME FullInv, UNCHANGED sessionVars
  PROVE  FullInv'
<1>1. /\ UNCHANGED <<proc, image, calls, conn, obj, pid_table, memprof, options>>
      /\ UNCHANGED <<objVars, memprof, options>>
      /\ SpaceInv /\ PendingInv /\ calls \in 0 .. MaxCalls
  BY DEF sessionVars, clientVars, objVars, FullInv, LinkInv
<1>2. Typed(proc, image, conn, obj, pid_table)' /\ SpaceInv'
  BY <1>1 DEF FullInv, Typed, SpaceInv, SpaceAt, Exists
<1>3. \A q \in Pids : Kept(q)
  BY <1>1 DEF Kept, Mem
<1>4. ASSUME NEW c \in DOMAIN conn PROVE ConnectionStays(c)
  <2>1. conn[c].peer = "pending" => \A q \in conn[c].held : q \in Pids
    BY <1>1, PendingHeld
  <2>2. conn[c].peer = "open" => conn[c].unread \in Seq(Sent)
    BY <1>1 DEF PendingInv, ConnAt
  <2> QED
    BY <1>1, <1>3, <2>1, <2>2 DEF ConnectionStays
<1> QED
  BY <1>1, <1>2, <1>3, <1>4, ProgramSteps DEF Exists

\* Every step of the program, of memprof and of the user.
LEMMA FullNext ==
  ASSUME NoVfork, FullInv, SessionNext
  PROVE  FullInv'
<1>1. ASSUME NEW p \in Pids, LibraryStep(p) PROVE FullInv'
  BY <1>1, NewProcess, Deaths, Answered DEF LibraryStep, SessionNext
<1>2. ASSUME NEW p \in Pids, ProgramStep(p) PROVE FullInv'
  <2>1. ~vfork(p)
    BY DEF NoVfork, vfork
  <2> QED
    BY <1>2, <2>1, Allocates, Forks, Execs, Exits, Deaths DEF ProgramStep, SessionNext
<1>3. ASSUME NEW c \in DOMAIN conn, control_func(c) PROVE FullInv'
  BY <1>3, Controls DEF SessionNext
<1>4. ASSUME NEW o \in DOMAIN obj, input_func(o) \/ InputEOF(o) PROVE FullInv'
  BY <1>4, Inputs, EndsOfFile DEF SessionNext
<1>5. ASSUME AnswerNobody PROVE FullInv'
  BY <1>5, Ended DEF SessionNext
<1>6. ASSUME UserStep PROVE FullInv'
  BY <1>6, RunsProgram, Ended, Detaches, Killed DEF UserStep, SessionNext
<1> QED
  BY <1>1, <1>2, <1>3, <1>4, <1>5, <1>6 DEF SessionNext

\* The strengthening of everything below: every step of the library, of the program,
\* of control_func and input_func, and of the user keeps it.
THEOREM SessionKept ==
  ASSUME NoVfork
  PROVE  SessionSpec => []FullInv
<1>1. SessionInit => FullInv
  BY FullInit
<1>2. FullInv /\ [SessionNext]_sessionVars => FullInv'
  BY FullNext, FullStutters
<1> QED
  BY <1>1, <1>2, PTL DEF SessionSpec

\* What the invariant says to the user.
LEMMA FullShows ==
  ASSUME FullInv
  PROVE  SessionInv /\ OneOwner /\ ImageInStep
<1>1. /\ Typed(proc, image, conn, obj, pid_table) /\ SpaceInv /\ ObjInv /\ OwnerInv
      /\ QuietInv /\ StartInv /\ OnlyTheProgram /\ StepInv
  BY DEF FullInv, LinkInv
<1>2. SessionTypeOK
  BY TypeParts DEF FullInv
<1>3. RunningIsTraced
  <2>1. ASSUME NEW p \in Pids, memprof = "up", proc[p].at = "run", find_process(p) # None,
               obj[find_process(p)].status = "RUNNING"
        PROVE  Tracing(p)
    <3>1. p \in DOMAIN pid_table /\ find_process(p) = pid_table[p]
      BY <2>1 DEF find_process, Has
    <3> QED
      BY <1>1, <2>1, <3>1 DEF QuietInv, QuietAt, Unheard
  <2> QED
    BY <2>1 DEF RunningIsTraced
<1>4. StartingWaits
  BY <1>1 DEF StartingWaits, StartInv, StartAt
<1>5. ASSUME NEW p \in Pids, Attached(p)
      PROVE  /\ Connected(p) /\ p \in DOMAIN pid_table /\ find_process(p) = pid_table[p]
             /\ pid_table[p] \in DOMAIN obj /\ obj[pid_table[p]].channel = Mem(p).outfd
             /\ Mem(p).outfd # None
             /\ \A o \in DOMAIN obj : obj[o].channel = Mem(p).outfd => o = pid_table[p]
  <2>1. Connected(p) /\ conn[Mem(p).outfd].peer = "open"
    BY <1>5 DEF Attached, Connected
  <2>2. Accepted(p, Mem(p).outfd) /\ Mem(p).outfd # None
    BY <1>1, <2>1 DEF OwnerInv, OwnerAt
  <2>3. p \in DOMAIN pid_table /\ obj[pid_table[p]].channel = Mem(p).outfd
    BY <2>2 DEF Accepted
  <2>4. pid_table[p] \in DOMAIN obj /\ find_process(p) = pid_table[p]
    BY <1>1, <2>3, TableLeads
  <2> QED
    BY <1>1, <2>1, <2>2, <2>3, <2>4 DEF ObjInv, ObjAt
<1>6. OneOwner
  <2>1. ASSUME NEW p \in Pids, Attached(p)
        PROVE  /\ find_process(p) # None
               /\ \A o \in DOMAIN obj : obj[o].channel = Mem(p).outfd <=> o = find_process(p)
    <3>1. pid_table[p] # None
      BY <1>1, <1>5, <2>1, Objects DEF None
    <3> QED
      BY <1>5, <2>1, <3>1
  <2> QED
    BY <2>1 DEF OneOwner
<1>7. ImageInStep
  <2>1. ASSUME NEW p \in Pids, proc[p].parent = NULL, Attached(p),
               conn[Mem(p).outfd].unread = <<>>
        PROVE  LET o == pid_table[p] IN
               /\ o \in DOMAIN obj /\ obj[o].channel = Mem(p).outfd
               /\ obj[o].seqno = Mem(p).seqno /\ obj[o].queue = {}
               /\ obj[o].table = Mem(p).heap
    <3>1. Leads(obj[pid_table[p]], <<>>, Mem(p))
      BY <1>1, <2>1 DEF StepInv, StepAt, Attached
    <3>2. pid_table[p] \in DOMAIN obj /\ obj[pid_table[p]].channel = Mem(p).outfd
      BY <1>5, <2>1
    <3>3. obj[pid_table[p]] \in ObjRecordsTo(Len(conn)) /\ Mem(p) \in ImageRecords(Len(conn))
      <4>1. Exists(p)
        BY <2>1 DEF Attached, Exists
      <4> QED
        BY <1>1, <3>2, <4>1, Objects, HasMemory
    <3>4. Len(<<>>) = 0 /\ DOMAIN <<>> = {}
      OBVIOUS
    <3>5. obj[pid_table[p]].table \subseteq Addrs /\ Mem(p).heap \subseteq Addrs
          /\ obj[pid_table[p]].seqno \in Nat
      BY <3>3 DEF ObjRecordsTo, ImageRecords
    <3>6. \A a \in Addrs : a \in Mem(p).heap <=> a \in obj[pid_table[p]].table
      BY <3>1, <3>4 DEF Leads, After
    <3>7. obj[pid_table[p]].seqno = Mem(p).seqno /\ obj[pid_table[p]].queue = {}
      BY <3>1, <3>4, <3>5 DEF Leads
    <3> QED
      BY <3>2, <3>5, <3>6, <3>7
  <2> QED
    BY <2>1 DEF ImageInStep, InStep
<1> QED
  BY <1>1, <1>2, <1>3, <1>4, <1>6, <1>7 DEF SessionInv

\* What memprof says of a process is so: the types, "Child is running" only of a
\* process that is traced, "waiting for it to connect" only of one that is not, and
\* without --follow-fork no forked process at all (control_func, status_changed_cb).
THEOREM SaidIsSo ==
  ASSUME NoVfork
  PROVE  SessionSpec => []SessionInv
<1>1. FullInv => SessionInv
  BY FullShows
<1> QED
  BY <1>1, SessionKept, PTL

\* A process that is traced is the one the pid_table knows, and no second MPProcess
\* reads its socket, in whatever order processes fork, exec and end (control_func,
\* mp_server_remove_process).
THEOREM OwnersAreOne ==
  ASSUME NoVfork
  PROVE  SessionSpec => []OneOwner
<1>1. FullInv => OneOwner
  BY FullShows
<1> QED
  BY <1>1, SessionKept, PTL

\* Of what an earlier image of the program sent nothing shows in its MPProcess
\* (process_exec_reset): once every report is read, the table is the heap.
THEOREM ImagesInStep ==
  ASSUME NoVfork
  PROVE  SessionSpec => []ImageInStep
<1>1. FullInv => ImageInStep
  BY FullShows
<1> QED
  BY <1>1, SessionKept, PTL

-----------------------------------------------------------------------------
(* The window from which the user can let a process go.                    *)

NoDetach == "detach" \notin Can

\* The window of an object goes with its entry and its channel (status_changed_cb).
LEMMA ShownStep ==
  ASSUME NoDetach, FullInv, ShownInv, SessionNext
  PROVE  ShownInv'
<1>1. /\ Typed(proc, image, conn, obj, pid_table) /\ ObjInv
      /\ DOMAIN obj = 1 .. Len(obj) /\ Len(obj) \in Nat
      /\ \A o \in DOMAIN obj : obj[o] \in ObjRecordsTo(Len(conn))
      /\ \A q \in DOMAIN pid_table : /\ pid_table[q] \in DOMAIN obj /\ obj[pid_table[q]].pid = q
                                     /\ find_process(q) = pid_table[q]
  BY Objects, TableLeads DEF FullInv, LinkInv, ObjInv
<1>2. CASE UNCHANGED objVars
  BY <1>2 DEF objVars, ShownInv
<1>3. ASSUME NEW p, NEW x, Registers(p, x), x.window PROVE ShownInv'
  <2>1. /\ obj' = Append(obj, x) /\ pid_table' = Insert(pid_table, p, Len(obj) + 1)
        /\ obj \in Seq(ObjRecordsTo(Len(conn)))
    BY <1>1, <1>3 DEF Registers, Typed
  <2>2. /\ DOMAIN obj' = DOMAIN obj \cup {Len(obj) + 1} /\ obj'[Len(obj) + 1] = x
        /\ \A o \in DOMAIN obj : obj'[o] = obj[o]
    BY <1>1, <2>1
  <2>3. \A q \in DOMAIN pid_table' :
          \/ pid_table'[q] = Len(obj) + 1
          \/ q \in DOMAIN pid_table /\ pid_table'[q] = pid_table[q]
    BY <2>1 DEF Insert
  <2> QED
    BY <1>1, <1>3, <2>2, <2>3 DEF ShownInv
<1>4. ASSUME NEW o \in DOMAIN obj, NEW x, obj' = [obj EXCEPT ![o] = x], UNCHANGED pid_table,
             x.window
      PROVE  ShownInv'
  <2>1. /\ DOMAIN obj' = DOMAIN obj /\ obj'[o] = x
        /\ \A u \in DOMAIN obj : u # o => obj'[u] = obj[u]
    BY <1>4
  <2> QED
    BY <1>1, <1>4, <2>1 DEF ShownInv
<1>5. ASSUME NEW c \in DOMAIN conn, control_func(c) PROVE ShownInv'
  <2>1. PICK h : h = Head(conn[c].unread)
    OBVIOUS
  <2>2. CASE UNCHANGED objVars
    BY <1>2, <2>2
  <2>3. CASE ~Refuses(h) /\ Accepts(c, h)
    <3>1. CASE Registers(h.new_pid, process_new(h.new_pid, "RUNNING", c))
      <4>1. process_new(h.new_pid, "RUNNING", c).window
        BY DEF process_new
      <4> QED
        BY <1>3, <3>1, <4>1
    <3>2. CASE /\ find_process(h.new_pid) # None
               /\ process_exec_reset(find_process(h.new_pid), c) /\ UNCHANGED pid_table
      <4>1. PICK o : o = find_process(h.new_pid)
        OBVIOUS
      <4>2. o \in DOMAIN obj /\ obj[o].window /\ obj[o] \in ObjRecordsTo(Len(conn))
        BY <1>1, <3>2, <4>1 DEF ShownInv, find_process, Has
      <4> DEFINE x == [obj[o] EXCEPT !.status = "RUNNING", !.channel = c,
                                     !.seqno = 0, !.table = {}, !.queue = {}]
      <4>3. x.window
        BY <4>2 DEF ObjRecordsTo
      <4>4. obj' = [obj EXCEPT ![o] = x]
        BY <3>2, <4>1, <4>2 DEF process_exec_reset
      <4> HIDE DEF x
      <4> QED
        BY <1>4, <3>2, <4>2, <4>3, <4>4
    <3>3. CASE /\ find_process(h.new_pid) = None
               /\ Registers(h.new_pid, process_duplicate(find_process(h.pid), h.new_pid, c))
      <4>1. find_process(h.pid) # None
        BY <2>3, <3>3 DEF Refuses
      <4>2. PICK o : o = find_process(h.pid)
        OBVIOUS
      <4>3. obj[o] \in ObjRecordsTo(Len(conn))
        BY <1>1, <4>1, <4>2 DEF find_process, Has
      <4>4. process_duplicate(o, h.new_pid, c).window
        BY <4>3 DEF process_duplicate, ObjRecordsTo
      <4> QED
        BY <1>3, <3>3, <4>2, <4>4
    <3> QED
      BY <2>3, <3>1, <3>2, <3>3 DEF Accepts
  <2> QED
    BY <1>5, <2>1, <2>2, <2>3 DEF control_func
<1>6. ASSUME NEW o \in DOMAIN obj, input_func(o) PROVE ShownInv'
  <2>1. PICK r : r = Head(conn[obj[o].channel].unread)
    OBVIOUS
  <2> DEFINE new == process_command(o, r)
             x == IF r.operation = "MI_EXIT" THEN [new EXCEPT !.status = "EXITING"] ELSE new
  <2>2. obj' = [obj EXCEPT ![o] = x] /\ UNCHANGED pid_table /\ obj[o].channel # None
    BY <1>6, <2>1 DEF input_func
  <2>3. obj[o].window /\ obj[o] \in ObjRecordsTo(Len(conn))
    BY <1>1, <2>2 DEF ShownInv
  <2>4. r \in Sent
    <3>1. /\ obj[o].channel \in DOMAIN conn /\ conn[obj[o].channel].peer = "open"
          /\ conn[obj[o].channel].unread # <<>>
      BY <1>1, <1>6, <2>2, Objects DEF input_func
    <3>2. conn[obj[o].channel].unread \in Seq(Sent)
      BY <3>1 DEF FullInv, LinkInv, PendingInv, ConnAt
    <3> QED
      BY <2>1, <3>1, <3>2, Tails
  <2>5. new \in ObjRecordsTo(Len(conn)) /\ new.window
    BY <2>3, <2>4, Handles
  <2> HIDE DEF new
  <2>6. x.window
    BY <2>5 DEF ObjRecordsTo
  <2> HIDE DEF x
  <2> QED
    BY <1>4, <2>2, <2>6
<1>7. ASSUME NEW o \in DOMAIN obj, InputEOF(o) PROVE ShownInv'
  <2> DEFINE x == [obj[o] EXCEPT !.channel = None, !.status = "DEFUNCT", !.window = FALSE]
  <2>1. /\ obj' = [obj EXCEPT ![o] = x]
        /\ pid_table' = IF find_process(obj[o].pid) = o
                        THEN Delete(pid_table, obj[o].pid) ELSE pid_table
    BY <1>7 DEF InputEOF, mp_server_remove_process
  <2>2. x.channel = None
    BY <1>1 DEF ObjRecordsTo
  <2> HIDE DEF x
  <2>3. /\ DOMAIN obj' = DOMAIN obj /\ obj'[o] = x
        /\ \A u \in DOMAIN obj : u # o => obj'[u] = obj[u]
    BY <2>1
  <2>4. \A q \in DOMAIN pid_table' : /\ q \in DOMAIN pid_table /\ pid_table'[q] = pid_table[q]
                                     /\ pid_table[q] # o
    BY <1>1, <2>1 DEF Delete
  <2> QED
    BY <1>1, <2>2, <2>3, <2>4 DEF ShownInv
<1>8. ASSUME process_run PROVE ShownInv'
  <2>1. PICK p \in Pids : /\ obj' = <<process_new(p, "STARTING", None)>>
                          /\ pid_table' = Insert(pid_table, p, 1) /\ obj = <<>>
    BY <1>8 DEF process_run
  <2>2. PICK x : x = process_new(p, "STARTING", None)
    OBVIOUS
  <2>3. x.window /\ DOMAIN obj' = {1} /\ obj'[1] = x
    BY <2>1, <2>2 DEF process_new
  <2>4. \A q \in DOMAIN pid_table' : pid_table'[q] = 1
    BY <1>1, <2>1 DEF Insert
  <2> QED
    BY <2>3, <2>4 DEF ShownInv
<1>9. ASSUME NEW o \in DOMAIN obj PROVE ~process_detach(o)
  BY DEF NoDetach, process_detach
<1>10. ASSUME NEW p \in Pids, LibraryStep(p) \/ ProgramStep(p) PROVE UNCHANGED objVars
  BY <1>10 DEF LibraryStep, ProgramStep, new_process, ConnectError, Response, exit_wait,
               do_malloc, do_free, Report, fork, vfork, execve, atexit_trap, Die
<1>11. ASSUME NEW o \in DOMAIN obj, process_kill(o) PROVE UNCHANGED objVars
  BY <1>11 DEF process_kill
<1>12. ASSUME AnswerNobody \/ DetachUnconnected PROVE UNCHANGED objVars
  BY <1>12 DEF AnswerNobody, DetachUnconnected, Ends
<1> QED
  BY <1>2, <1>5, <1>6, <1>7, <1>8, <1>9, <1>10, <1>11, <1>12 DEF SessionNext, UserStep

\* Of programs that do not call vfork, and while nobody detaches: a process held in
\* exit_wait has a window from which the user can let it go (process_detach).
THEOREM ExitsHaveWindows ==
  ASSUME NoVfork, NoDetach
  PROVE  SessionSpec => []ExitHasWindow
<1>1. SessionInit => ShownInv
  BY DEF SessionInit, ShownInv, Empty
<1>2. FullInv /\ ShownInv /\ [SessionNext]_sessionVars => ShownInv'
  <2>1. ShownInv /\ UNCHANGED sessionVars => ShownInv'
    BY DEF ShownInv, sessionVars, objVars
  <2> QED
    BY <2>1, ShownStep
<1>3. FullInv /\ ShownInv => ExitHasWindow
  <2> SUFFICES ASSUME FullInv, ShownInv, NEW p \in Pids, proc[p].at = "exitwait",
                      conn[Mem(p).outfd].peer = "open"
               PROVE  \E o \in DOMAIN obj : obj[o].channel = Mem(p).outfd /\ obj[o].window
    BY DEF ExitHasWindow
  <2>1. Accepted(p, Mem(p).outfd)
    BY DEF FullInv, LinkInv, OwnerInv, OwnerAt, Connected
  <2>2. p \in DOMAIN pid_table /\ pid_table[p] \in DOMAIN obj
    BY <2>1, TableLeads DEF FullInv, Accepted
  <2> QED
    BY <2>1, <2>2 DEF Accepted, ShownInv
<1> QED
  BY <1>1, <1>2, <1>3, SessionKept, PTL DEF SessionSpec

===============================================================================

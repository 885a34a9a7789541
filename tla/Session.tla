------------------------------ MODULE Session -------------------------------
(***************************************************************************)
(* A session: the processes a traced program turns into by fork, vfork and *)
(* exec (lib/intercept.c), and the MPProcess objects memprof keeps for     *)
(* them (control_func and the pid_table of src/server.c, the life cycle in *)
(* src/process.c, run, detach and kill in src/main.c).                     *)
(*                                                                         *)
(* Every process here has one thread and so one socket.  A report is one   *)
(* message and is numbered and written in one step: what threads, partial  *)
(* reports and full sockets add is the subject of Tracing.  Numbers arrive *)
(* in order on the one socket, so a report that is queued never becomes    *)
(* due, and the loop that drains the queue has nothing to do.              *)
(***************************************************************************)
EXTENDS Integers, Sequences, FiniteSets, HashTable

CONSTANTS
  Pids,        \* process ids, none of them used twice
  Addrs,       \* the addresses the allocator hands out
  NULL,        \* pid 0, the null pointer, no answer
  Can,         \* what may happen besides allocation
  Options,     \* the command lines: sets of "follow-fork", "follow-exec"
  MaxCalls     \* bound: intercepted calls made in the session

ASSUME SessionAssumption ==
  /\ NULL \notin Pids \cup Addrs \cup Nat
  /\ Can \subseteq {"fork", "vfork", "exec", "exit", "kill", "detach"}
  /\ Options \subseteq SUBSET {"follow-fork", "follow-exec"}
  /\ MaxCalls \in Nat

VARIABLES
  proc,       \* the kernel's processes: where each is, whose memory it uses
  image,      \* the memories, in the order they were made: what the library
              \* keeps in each (seqno, tracing, outfd), and the heap
  calls,      \* calls made, for the bound
  conn,       \* the connections, in the order they were made
  obj,        \* memprof's MPProcess objects, in the order they were made
  pid_table,  \* the server's table: from pids to objects
  memprof,    \* "up", or the signal that ended it
  options     \* what memprof was started with

clientVars == <<proc, image, calls>>
objVars    == <<obj, pid_table>>
sessionVars == <<clientVars, conn, objVars, memprof, options>>

FollowFork == "follow-fork" \in options
FollowExec == "follow-exec" \in options

None == 0   \* no connection, no object

\* Where a process is: "start" before memprof_init, "forked" before the child's
\* new_process, "await" in its read(), "vfork" while its child uses its memory.
Places == {"none", "start", "forked", "await", "run", "vfork", "exitwait", "dead"}

Statuses == {"STARTING", "RUNNING", "EXITING", "DEFUNCT", "DETACHED"}

Hellos  == [operation : {"MI_NEW", "MI_FORK"}, pid : Pids \cup {NULL}, new_pid : Pids]
Reports == [operation : {"MI_MALLOC", "MI_FREE", "MI_EXIT"},
            ptr : Addrs \cup {NULL}, seqno : Nat]

\* The memory of a program that has just been started.
Fresh == [heap |-> {}, seqno |-> 0, tracing |-> TRUE, outfd |-> None]

Mem(p)      == image[proc[p].space]
Tracing(p)  == Mem(p).tracing
Runs(p)     == proc[p].at = "run" /\ calls < MaxCalls
Live(p)     == proc[p].at \notin {"none", "dead"}

\* p's descriptor for its socket is open and so is memprof's end.
CanWrite(p) ==
  /\ Mem(p).outfd # None
  /\ p \in conn[Mem(p).outfd].held
  /\ conn[Mem(p).outfd].peer # "closed"

Closed(p) == [c \in DOMAIN conn |-> [conn[c] EXCEPT !.held = @ \ {p}]]
Closes(p, c) == IF c = None THEN conn ELSE [conn EXCEPT ![c].held = @ \ {p}]
Written(p, m) == [conn EXCEPT ![Mem(p).outfd].unread = Append(@, m)]

\* q waits in vfork() for p.
WaitsFor(q, p) ==
  /\ proc[q].at = "vfork"
  /\ proc[p].parent = q /\ proc[p].borrows /\ proc[p].at # "dead"

\* p leaves the memory it uses, and a parent waiting in vfork() goes on.
Leaves(p, place, space) ==
  proc' = [q \in Pids |->
             IF q = p
             THEN [proc[p] EXCEPT !.at = place, !.space = space, !.borrows = FALSE]
             ELSE IF WaitsFor(q, p) THEN [proc[q] EXCEPT !.at = "run"]
             ELSE proc[q]]

-----------------------------------------------------------------------------
(* The traced program.                                                     *)

\* new_process: connect, send the first record, wait.  thread->outfd is
\* overwritten, in the parent's memory too if the child came from vfork().
new_process(p) ==
  /\ proc[p].at \in {"start", "forked"} /\ memprof = "up"
  /\ LET hello == IF proc[p].at = "start"
                  THEN [operation |-> "MI_NEW", pid |-> NULL, new_pid |-> p]
                  ELSE [operation |-> "MI_FORK", pid |-> proc[p].parent, new_pid |-> p]
     IN conn' = Append(conn, [held |-> {p}, peer |-> "pending",
                              unread |-> <<hello>>, answer |-> NULL])
  /\ image' = [image EXCEPT ![proc[p].space].outfd = Len(conn) + 1]
  /\ proc' = [proc EXCEPT ![p].at = "await"]
  /\ UNCHANGED <<calls, objVars, memprof>>

\* The process is over: the kernel closes its descriptors.
Gone(p) ==
  /\ Leaves(p, "dead", proc[p].space)
  /\ conn' = Closed(p)

\* connect() fails once memprof is gone, and the library calls _exit(1).
ConnectError(p) ==
  /\ proc[p].at \in {"start", "forked"} /\ memprof # "up"
  /\ Gone(p)
  /\ image' = [image EXCEPT ![proc[p].space].tracing = FALSE]
  /\ UNCHANGED <<calls, objVars, memprof>>

\* The answer, or end of file.  A refused process stops tracing, and
\* stop_tracing empties _MEMPROF_SOCKET for what it will exec.
Response(p) ==
  LET c == Mem(p).outfd IN
  /\ proc[p].at = "await"
  /\ conn[c].answer # NULL \/ conn[c].peer = "closed"
  /\ proc' = [proc EXCEPT ![p].at = "run"]
  /\ IF conn[c].answer = 1
     THEN /\ conn' = [conn EXCEPT ![c].answer = NULL]
          /\ UNCHANGED image
     ELSE /\ conn' = [conn EXCEPT ![c].answer = NULL, ![c].held = @ \ {p}]
          /\ image' = [image EXCEPT ![proc[p].space].tracing = FALSE]
  /\ UNCHANGED <<calls, objVars, memprof>>

\* malloc() or free() and its report.  A write that fails stops tracing.
Report(p, op, a, heap) ==
  LET m == proc[p].space IN
  /\ calls' = calls + 1
  /\ \/ /\ ~Tracing(p)
        /\ image' = [image EXCEPT ![m].heap = heap]
        /\ UNCHANGED conn
     \/ /\ Tracing(p) /\ CanWrite(p)
        /\ image' = [image EXCEPT ![m].heap = heap, ![m].seqno = @ + 1]
        /\ conn' = Written(p, [operation |-> op, ptr |-> a, seqno |-> Mem(p).seqno])
     \/ /\ Tracing(p) /\ ~CanWrite(p)
        /\ image' = [image EXCEPT ![m].heap = heap, ![m].seqno = @ + 1,
                                  ![m].tracing = FALSE]
        /\ conn' = Closes(p, Mem(p).outfd)
  /\ UNCHANGED <<proc, objVars, memprof>>

do_malloc(p) ==
  /\ Runs(p)
  /\ \E a \in Addrs \ Mem(p).heap : Report(p, "MI_MALLOC", a, Mem(p).heap \cup {a})

do_free(p) ==
  /\ Runs(p)
  /\ \E a \in Mem(p).heap : Report(p, "MI_FREE", a, Mem(p).heap \ {a})

\* fork: the child has a copy of the memory, and of every descriptor.
fork(p) ==
  /\ "fork" \in Can /\ Runs(p)
  /\ calls' = calls + 1
  /\ \E q \in Pids :
       /\ proc[q].at = "none"
       /\ proc' = [proc EXCEPT ![q] =
                     [at |-> IF Tracing(p) THEN "forked" ELSE "run",
                      space |-> Len(image) + 1, parent |-> p, borrows |-> FALSE]]
       /\ image' = Append(image, Mem(p))
       /\ conn' = [c \in DOMAIN conn |->
                     IF p \in conn[c].held
                     THEN [conn[c] EXCEPT !.held = @ \cup {q}] ELSE conn[c]]
  /\ UNCHANGED <<objVars, memprof>>

\* vfork: a copy of the descriptors only.
vfork(p) ==
  /\ "vfork" \in Can /\ Runs(p)
  /\ calls' = calls + 1
  /\ \E q \in Pids :
       /\ proc[q].at = "none"
       /\ proc' = [proc EXCEPT ![p].at = "vfork", ![q] =
                     [at |-> IF Tracing(p) THEN "forked" ELSE "run",
                      space |-> proc[p].space, parent |-> p, borrows |-> TRUE]]
       /\ conn' = [c \in DOMAIN conn |->
                     IF p \in conn[c].held
                     THEN [conn[c] EXCEPT !.held = @ \cup {q}] ELSE conn[c]]
  /\ UNCHANGED <<image, objVars, memprof>>

\* execve: sockets are FD_CLOEXEC, the library starts anew, and a process that
\* does not trace hands on an empty _MEMPROF_SOCKET.
execve(p) ==
  /\ "exec" \in Can /\ Runs(p)
  /\ calls' = calls + 1
  /\ Leaves(p, IF Tracing(p) THEN "start" ELSE "run", Len(image) + 1)
  /\ image' = Append(image, [Fresh EXCEPT !.tracing = Tracing(p)])
  /\ conn' = Closed(p)
  /\ UNCHANGED <<objVars, memprof>>

\* exit(): atexit_trap sends MI_EXIT and waits.  A child of vfork() may only
\* call _exit(), which the library cannot trap.
atexit_trap(p) ==
  /\ "exit" \in Can /\ Runs(p) /\ ~proc[p].borrows
  /\ calls' = calls + 1
  /\ IF Tracing(p) /\ CanWrite(p)
     THEN /\ conn' = Written(p, [operation |-> "MI_EXIT", ptr |-> NULL,
                                 seqno |-> Mem(p).seqno])
          /\ image' = [image EXCEPT ![proc[p].space].seqno = @ + 1]
          /\ proc' = [proc EXCEPT ![p].at = "exitwait"]
     ELSE Gone(p) /\ UNCHANGED image
  /\ UNCHANGED <<objVars, memprof>>

\* exit_wait has its answer, or memprof is gone.
exit_wait(p) ==
  /\ proc[p].at = "exitwait"
  /\ LET c == Mem(p).outfd IN conn[c].answer # NULL \/ conn[c].peer = "closed"
  /\ Gone(p)
  /\ UNCHANGED <<image, calls, objVars, memprof>>

\* _exit() in a child of vfork(), or a signal.
Die(p) ==
  /\ Live(p)
  /\ "kill" \in Can \/ (proc[p].borrows /\ proc[p].at = "run")
  /\ Gone(p)
  /\ UNCHANGED <<image, calls, objVars, memprof>>

-----------------------------------------------------------------------------
(* memprof.                                                                *)

Ends(signal) ==
  /\ memprof' = signal
  /\ conn' = [c \in DOMAIN conn |-> [conn[c] EXCEPT !.peer = "closed"]]
  /\ UNCHANGED <<clientVars, objVars>>

find_process(pid) == IF Has(pid_table, pid) THEN pid_table[pid] ELSE None

\* process_new, and init_process when the object gets its window.
process_new(pid, status, c) ==
  [status |-> status, pid |-> pid, channel |-> c, seqno |-> 0, table |-> {},
   queue |-> {}, window |-> TRUE]

\* Run: mp_server_instrument forks and execs, process_run adds the object.
\* One program is run in a session.
process_run ==
  /\ memprof = "up" /\ obj = <<>>
  /\ \E p \in Pids :
       /\ proc' = [proc EXCEPT ![p] = [at |-> "start", space |-> 1, parent |-> NULL,
                                        borrows |-> FALSE]]
       /\ image' = <<Fresh>>
       /\ obj' = <<process_new(p, "STARTING", None)>>
       /\ pid_table' = Insert(pid_table, p, 1)
  /\ UNCHANGED <<calls, conn, memprof>>

\* Variants, each with a plausible bug, are named after the definition they
\* stand in for; no action uses them.
FollowsAll_Refuses(h) ==
  find_process(h.new_pid) = None /\ find_process(h.pid) = None

\* What control_func makes of the first record of a connection.  Every window's
\* follow_fork and follow_exec are the command line's.
Refuses(h) ==
  \/ h.operation = "MI_FORK" /\ find_process(h.pid) # None /\ ~FollowFork
  \/ find_process(h.new_pid) = None /\ find_process(h.pid) = None

KeepsStatus_process_exec_reset(o, c) ==
  obj' = [obj EXCEPT ![o].channel = c, ![o].seqno = 0, ![o].table = {},
                     ![o].queue = {}]

KeepsSeqno_process_exec_reset(o, c) ==
  obj' = [obj EXCEPT ![o].status = "RUNNING", ![o].channel = c,
                     ![o].table = {}, ![o].queue = {}]

\* The MPProcess of a process that called exec starts anew.
process_exec_reset(o, c) ==
  obj' = [obj EXCEPT ![o].status = "RUNNING", ![o].channel = c,
                     ![o].seqno = 0, ![o].table = {}, ![o].queue = {}]

NoWindow_process_duplicate(o, pid, c) ==
  [obj[o] EXCEPT !.status = "RUNNING", !.pid = pid, !.channel = c,
                 !.queue = {}, !.window = FALSE]

\* The MPProcess of a forked child: the parent's table and number as they are.
process_duplicate(o, pid, c) ==
  [obj[o] EXCEPT !.status = "RUNNING", !.pid = pid, !.channel = c,
                 !.queue = {}, !.window = TRUE]

Registers(pid, object) ==
  /\ obj' = Append(obj, object)
  /\ pid_table' = Insert(pid_table, pid, Len(obj) + 1)

Accepts(c, h) ==
  LET old == find_process(h.new_pid) IN
  /\ conn' = [conn EXCEPT ![c].peer = "open", ![c].answer = 1, ![c].unread = Tail(@)]
  /\ \/ /\ old # None /\ FollowExec
        /\ Registers(h.new_pid, process_new(h.new_pid, "RUNNING", c))
     \/ /\ old # None /\ ~FollowExec
        /\ process_exec_reset(old, c)
        /\ UNCHANGED pid_table
     \/ /\ old = None
        /\ Registers(h.new_pid, process_duplicate(find_process(h.pid), h.new_pid, c))

NoAnswer_Refusal(c) ==
  conn' = [conn EXCEPT ![c].peer = "open", ![c].unread = Tail(@)]

Refusal(c) ==
  conn' = [conn EXCEPT ![c].peer = "closed", ![c].answer = 0, ![c].unread = Tail(@)]

\* control_func on the connection c, whose process is there to be answered.
control_func(c) ==
  /\ memprof = "up" /\ conn[c].peer = "pending" /\ conn[c].held # {}
  /\ LET h == Head(conn[c].unread) IN
     \/ ~Refuses(h) /\ Accepts(c, h)
     \/ Refuses(h) /\ Refusal(c) /\ UNCHANGED objVars
  /\ UNCHANGED <<clientVars, memprof>>

ExitAdds_process_command(o, r) ==
  IF r.seqno = obj[o].seqno
  THEN [obj[o] EXCEPT !.seqno = @ + 1,
                      !.table = IF r.operation = "MI_FREE" THEN @ \ {r.ptr}
                                ELSE @ \cup {r.ptr}]
  ELSE [obj[o] EXCEPT !.queue = @ \cup {r}]

\* process_command on the object the report came in for.
process_command(o, r) ==
  IF r.seqno = obj[o].seqno
  THEN [obj[o] EXCEPT !.seqno = @ + 1,
                      !.table = CASE r.operation = "MI_MALLOC" -> @ \cup {r.ptr}
                                  [] r.operation = "MI_FREE" -> @ \ {r.ptr}
                                  [] OTHER -> @]
  ELSE [obj[o] EXCEPT !.queue = @ \cup {r}]

\* The watch on o's channel is there as long as the channel is.
input_func(o) ==
  LET c == obj[o].channel IN
  /\ memprof = "up" /\ c # None
  /\ conn[c].peer = "open" /\ conn[c].unread # <<>>
  /\ LET r == Head(conn[c].unread)
         new == process_command(o, r)
     IN obj' = [obj EXCEPT ![o] =
                  IF r.operation = "MI_EXIT" THEN [new EXCEPT !.status = "EXITING"]
                  ELSE new]
  /\ conn' = [conn EXCEPT ![c].unread = Tail(@)]
  /\ UNCHANGED <<clientVars, pid_table, memprof>>

NoTest_mp_server_remove_process(o) == pid_table' = Delete(pid_table, obj[o].pid)

\* With --follow-exec the entry may be another object's.
mp_server_remove_process(o) ==
  pid_table' = IF find_process(obj[o].pid) = o
               THEN Delete(pid_table, obj[o].pid) ELSE pid_table

OnlyRunning_InputEOF(o) ==
  LET c == obj[o].channel IN
  /\ memprof = "up" /\ c # None /\ obj[o].status = "RUNNING"
  /\ conn[c].peer = "closed" \/ (conn[c].held = {} /\ conn[c].unread = <<>>)
  /\ mp_server_remove_process(o)
  /\ obj' = [obj EXCEPT ![o].channel = None, ![o].status = "DEFUNCT",
                        ![o].window = FALSE]
  /\ UNCHANGED <<clientVars, conn, memprof>>

\* input_func reads nothing: every descriptor of the program's end is closed,
\* or process_detach shut the channel down.  status_changed_cb takes the
\* window away.
InputEOF(o) ==
  LET c == obj[o].channel IN
  /\ memprof = "up" /\ c # None
  /\ conn[c].peer = "closed" \/ (conn[c].held = {} /\ conn[c].unread = <<>>)
  /\ mp_server_remove_process(o)
  /\ obj' = [obj EXCEPT ![o].channel = None, ![o].status = "DEFUNCT",
                        ![o].window = FALSE]
  /\ UNCHANGED <<clientVars, conn, memprof>>

NoStatus_process_detach(o) ==
  LET c == obj[o].channel IN
  /\ memprof = "up" /\ "detach" \in Can /\ obj[o].window
  /\ obj[o].status = "RUNNING"
  /\ conn' = [conn EXCEPT ![c].peer = "closed", ![c].unread = <<>>]
  /\ UNCHANGED <<clientVars, objVars, memprof>>

\* process_detach, from the window.
process_detach(o) ==
  LET c == obj[o].channel IN
  /\ memprof = "up" /\ "detach" \in Can /\ obj[o].window
  /\ \/ /\ obj[o].status = "EXITING" /\ conn[c].held # {}
        /\ conn' = [conn EXCEPT ![c].answer = 0]
        /\ UNCHANGED obj
     \/ /\ obj[o].status = "RUNNING"
        /\ conn' = [conn EXCEPT ![c].peer = "closed", ![c].unread = <<>>]
        /\ obj' = [obj EXCEPT ![o].status = "DETACHED", ![o].window = FALSE]
  /\ UNCHANGED <<clientVars, pid_table, memprof>>

\* memprof writes to a socket whose every reader is gone: control_func's
\* answer, or the user's detach.  SIGPIPE is at its default.
AnswerNobody ==
  /\ memprof = "up"
  /\ \/ \E c \in DOMAIN conn : conn[c].peer = "pending" /\ conn[c].held = {}
     \/ /\ "detach" \in Can
        /\ \E o \in DOMAIN obj :
             /\ obj[o].window /\ obj[o].status = "EXITING"
             /\ conn[obj[o].channel].held = {}
  /\ Ends("SIGPIPE")

\* process_detach of a process that has not connected: input_channel is NULL.
DetachUnconnected ==
  /\ memprof = "up" /\ "detach" \in Can
  /\ \E o \in DOMAIN obj : obj[o].window /\ obj[o].status = "STARTING"
  /\ Ends("SIGSEGV")

\* process_kill, from the window: SIGTERM.  (For a process that is EXITING it
\* is process_detach.)
process_kill(o) ==
  /\ memprof = "up" /\ "kill" \in Can /\ obj[o].window
  /\ obj[o].status \in {"STARTING", "RUNNING"}
  /\ Live(obj[o].pid)
  /\ Gone(obj[o].pid)
  /\ UNCHANGED <<image, calls, objVars, memprof>>

-----------------------------------------------------------------------------
SessionInit ==
  /\ proc = [p \in Pids |-> [at |-> "none", space |-> None, parent |-> NULL,
                             borrows |-> FALSE]]
  /\ image = <<>>
  /\ calls = 0
  /\ conn = <<>>
  /\ obj = <<>>
  /\ pid_table = Empty
  /\ memprof = "up"
  /\ options \in Options

\* What the library does once it is called, and what the program asks for.
LibraryStep(p) ==
  new_process(p) \/ ConnectError(p) \/ Response(p) \/ exit_wait(p)

ProgramStep(p) ==
  \/ do_malloc(p) \/ do_free(p) \/ fork(p) \/ vfork(p) \/ execve(p)
  \/ atexit_trap(p) \/ Die(p)

UserStep ==
  \/ process_run \/ DetachUnconnected
  \/ \E o \in DOMAIN obj : process_detach(o) \/ process_kill(o)

SessionNext ==
  /\ \/ \E p \in Pids : LibraryStep(p) \/ ProgramStep(p)
     \/ \E c \in DOMAIN conn : control_func(c)
     \/ \E o \in DOMAIN obj : input_func(o) \/ InputEOF(o)
     \/ AnswerNobody
     \/ UserStep
  /\ UNCHANGED options

SessionSpec == SessionInit /\ [][SessionNext]_sessionVars

\* A process inside the library keeps running, and the main loop does not pass
\* over a source that is ready for ever.
MaxConns == MaxCalls + 1
MaxObjs  == MaxConns + 1

SessionFairness ==
  /\ \A p \in Pids : WF_sessionVars(LibraryStep(p) /\ UNCHANGED options)
  /\ \A c \in 1..MaxConns :
       WF_sessionVars(c \in DOMAIN conn /\ control_func(c) /\ UNCHANGED options)
  /\ \A o \in 1..MaxObjs :
       WF_sessionVars(/\ o \in DOMAIN obj
                      /\ input_func(o) \/ InputEOF(o)
                      /\ UNCHANGED options)

FairSession == SessionSpec /\ SessionFairness

-----------------------------------------------------------------------------
ConnRecords ==
  [held : SUBSET Pids, peer : {"pending", "open", "closed"},
   unread : Seq(Hellos \cup Reports), answer : {NULL, 0, 1}]

ObjRecords ==
  [status : Statuses, pid : Pids, channel : 0..Len(conn), seqno : Nat,
   table : SUBSET Addrs, queue : SUBSET Reports, window : BOOLEAN]

SessionTypeOK ==
  /\ proc \in [Pids -> [at : Places, space : 0..Len(image), parent : Pids \cup {NULL},
                        borrows : BOOLEAN]]
  /\ image \in Seq([heap : SUBSET Addrs, seqno : Nat, tracing : BOOLEAN,
                    outfd : 0..Len(conn)])
  /\ calls \in 0..MaxCalls
  /\ conn \in Seq(ConnRecords)
  /\ obj \in Seq(ObjRecords)
  /\ DOMAIN pid_table \subseteq Pids
  /\ pid_table \in [DOMAIN pid_table -> DOMAIN obj]
  /\ memprof \in {"up", "SIGPIPE", "SIGSEGV"}

\* p reports to an open socket.
Attached(p) ==
  /\ proc[p].at = "run" /\ Tracing(p)
  /\ CanWrite(p) /\ conn[Mem(p).outfd].peer = "open"

\* Whatever the order of forks, execs, ends of file and new connections, a
\* process that is traced is the one the pid_table knows (control_func,
\* mp_server_remove_process), and no second MPProcess reads its socket.
OneOwner ==
  \A p \in Pids : Attached(p) =>
    /\ find_process(p) # None
    /\ \A o \in DOMAIN obj :
         obj[o].channel = Mem(p).outfd <=> o = find_process(p)

\* p's MPProcess expects p's next number, has nothing queued, and its table is
\* p's heap, unless reports of p are still on their way.
InStep(p) ==
  Attached(p) /\ conn[Mem(p).outfd].unread = <<>> =>
    \E o \in DOMAIN obj :
      /\ obj[o].channel = Mem(p).outfd
      /\ obj[o].seqno = Mem(p).seqno
      /\ obj[o].queue = {}
      /\ obj[o].table = Mem(p).heap

\* What an earlier image of the program sent does not show in its MPProcess
\* (process_exec_reset), however much of it was unread when it called exec.
ImageInStep == \A p \in Pids : proc[p].parent = NULL => InStep(p)

\* "tracing of ... forking programs": the same of a forked child, whose
\* MPProcess starts as a copy of its parent's (process_duplicate).  This does
\* not hold when reports of the parent are unread at that moment.
ChildInStep == \A p \in Pids : proc[p].parent # NULL => InStep(p)

\* Without --follow-fork no forked process, and nothing it execs, is ever
\* given an MPProcess, whatever became of its parent in the meantime.
OnlyTheProgram ==
  FollowFork \/ \A o \in DOMAIN obj : proc[obj[o].pid].parent = NULL

\* "Child is running" (MP_PROCESS_RUNNING): a process that runs and whose
\* MPProcess says so is being traced.
RunningIsTraced ==
  \A p \in Pids :
    LET o == find_process(p) IN
    (memprof = "up" /\ proc[p].at = "run" /\ o # None) =>
      (obj[o].status = "RUNNING" => Tracing(p))

\* "Run child, waiting for it to connect" (MP_PROCESS_STARTING): it has not
\* connected yet.  (With --follow-exec the connection goes to a new MPProcess.)
StartingWaits ==
  FollowExec \/ \A o \in DOMAIN obj : obj[o].status = "STARTING" =>
    \A c \in DOMAIN conn : conn[c].peer = "open" => obj[o].pid \notin conn[c].held

\* A process held in exit_wait has a window from which the user can let it go.
ExitHasWindow ==
  \A p \in Pids :
    proc[p].at = "exitwait" /\ conn[Mem(p).outfd].peer = "open" =>
      \E o \in DOMAIN obj : obj[o].channel = Mem(p).outfd /\ obj[o].window

\* "This is a child of a forked child we aren't tracing, ignore it": only
\* processes that come from a fork are refused.
OnlyForksRefused ==
  [][\A c \in DOMAIN conn :
       conn[c].peer = "pending" /\ conn'[c].answer = 0
         => proc[Head(conn[c].unread).new_pid].parent # NULL]_sessionVars

\* A process that connects is answered.
HelloAnswered ==
  \A p \in Pids : proc[p].at = "await" ~> proc[p].at # "await"

Watched(c)  == \E o \in DOMAIN obj : obj[o].channel = c
LetGo(c)    == c \in DOMAIN conn /\ conn[c].held = {}

\* "child no longer exists" (MP_PROCESS_DEFUNCT): when the last process that has
\* a socket is gone, by exit, kill or exec, memprof finds out.
EndSeen ==
  \A c \in 1..MaxConns :
    (Watched(c) /\ LetGo(c)) ~> (memprof # "up" \/ ~Watched(c))

\* What memprof says of a process is so: statuses, and who is traced at all.
SessionInv == SessionTypeOK /\ OnlyTheProgram /\ RunningIsTraced /\ StartingWaits

\* Every connection is served from its first byte to its end.
ConnectionsServed == HelloAnswered /\ EndSeen

=============================================================================

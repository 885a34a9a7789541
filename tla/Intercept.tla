----------------------------- MODULE Intercept ------------------------------
(***************************************************************************)
(* The intercept library inside one traced image (lib/intercept.c and      *)
(* lib/memintercept.c): the wrappers around the allocator, the global      *)
(* sequence counter, the per-thread connection and the exit handshake.     *)
(*                                                                         *)
(* Each thread runs                                                        *)
(*   run -> called -> backtrace -> numbered -> frames -> run               *)
(* through a wrapper, with "await" in between while an unregistered thread *)
(* connects (find_thread, new_process), and                                *)
(*   run -> backtrace -> numbered -> exitwait -> closing -> exited         *)
(* through exit_wait.  A step is what runs between two points where        *)
(* another thread, or memprof, can see or change the shared state.         *)
(***************************************************************************)
EXTENDS Wire, HashTable

CONSTANTS
  MaxCalls,  \* bound: wrapped calls made by the program
  Faults     \* which of "oom", "elide", "kill" may happen

ASSUME InterceptAssumption ==
  /\ MaxCalls \in Nat
  /\ Faults \subseteq {"oom", "elide", "kill"}

VARIABLES
  heap,      \* the C library's heap: the live blocks and their sizes
  seqno,     \* intercept.c's counter: the next number to hand out
  tracing,   \* intercept.c's flag, cleared by stop_tracing
  pc,        \* where each thread is
  info,      \* the MIInfo of each thread's current call
  calls,     \* calls made, for the bound
  alive,     \* the program has not exited or been killed
  log        \* history: the reports in the order they were numbered

localVars == <<heap, seqno, tracing, pc, info, calls, alive, log>>

Fresh == Addrs \ DOMAIN heap
OOM   == IF "oom" \in Faults THEN {NULL} ELSE {}

\* Pointers a correct program may pass to realloc() or free(): it has them
\* back from the call that returned them, and no thread is reallocating them.
InUse(t) ==
  IF pc[t] = "run" THEN {}
  ELSE {info[t].new_ptr} \cup
       (IF info[t].operation = "MI_REALLOC" /\ info[t].new_ptr = NULL
        THEN {info[t].old_ptr} ELSE {})

Usable == DOMAIN heap \ UNION {InUse(t) : t \in Threads}

Ready(t) == alive /\ pc[t] = "run" /\ calls < MaxCalls

\* The wrapper has called the C library and filled in its MIInfo.
Called(t, i) ==
  /\ pc' = [pc EXCEPT ![t] = "called"]
  /\ info' = [info EXCEPT ![t] = i]
  /\ calls' = calls + 1
  /\ UNCHANGED <<seqno, tracing, alive, log, wireVars>>

\* Also calloc and memalign, which report MI_MALLOC.
do_malloc(t) ==
  /\ Ready(t)
  /\ \E s \in Sizes, p \in Fresh \cup OOM :
       /\ heap' = IF p = NULL THEN heap ELSE Insert(heap, p, s)
       /\ Called(t, Info("MI_MALLOC", NULL, p, s))

\* old_realloc() is the C library's: realloc(NULL, s) allocates, realloc(p, 0)
\* frees, and a failing realloc() returns NULL and leaves the block alone.
old_realloc(p, s, r) ==
  \/ p # NULL /\ s = 0 /\ r = NULL /\ heap' = Delete(heap, p)
  \/ /\ p = NULL \/ s # 0
     /\ r \in Fresh \cup ({p} \ {NULL})
     /\ heap' = Insert(Delete(heap, p), r, s)
  \/ p # NULL /\ s # 0 /\ r \in OOM /\ heap' = heap

do_realloc(t) ==
  /\ Ready(t)
  /\ \E p \in Usable \cup {NULL}, s \in Sizes, r \in Pointers :
       /\ old_realloc(p, s, r)
       /\ Called(t, Info("MI_REALLOC", p, r, s))

do_free(t) ==
  /\ Ready(t)
  /\ \E p \in Usable \cup {NULL} :
       /\ heap' = Delete(heap, p)
       /\ Called(t, Info("MI_FREE", p, NULL, 0))

\* The wrapper's test, after the C library has been called.
mi_tracing(t) ==
  /\ alive /\ pc[t] = "called"
  /\ pc' = [pc EXCEPT ![t] = IF tracing THEN "backtrace" ELSE "run"]
  /\ UNCHANGED <<heap, seqno, tracing, info, calls, alive, log, wireVars>>

\* exit() reaches atexit_trap, or _exit() is called directly.
atexit_trap(t) ==
  /\ Ready(t)
  /\ pc' = [pc EXCEPT ![t] = IF tracing THEN "backtrace" ELSE "exited"]
  /\ info' = [info EXCEPT ![t] = Info("MI_EXIT", NULL, NULL, 0)]
  /\ calls' = calls + 1
  /\ UNCHANGED <<heap, seqno, tracing, alive, log, wireVars>>

\* Variants, each with a plausible bug, are named after the definition they
\* stand in for; no action uses them.
AfterNumber_Elide(t) ==
  /\ alive /\ pc[t] = "numbered" /\ "elide" \in Faults
  /\ info[t].operation \in AllocOps
  /\ pc' = [pc EXCEPT ![t] = "run"]
  /\ UNCHANGED <<heap, seqno, tracing, info, calls, alive, log, wireVars>>

\* mi_write_stack drops a report whose stack walk went wrong.
Elide(t) ==
  /\ alive /\ pc[t] = "backtrace" /\ "elide" \in Faults
  /\ info[t].operation \in AllocOps
  /\ pc' = [pc EXCEPT ![t] = "run"]
  /\ UNCHANGED <<heap, seqno, tracing, info, calls, alive, log, wireVars>>

\* mi_atomic_increment (&seqno) - 1, in mi_write_stack and in exit_wait.
TakeSeqno(t) ==
  /\ alive /\ pc[t] = "backtrace"
  /\ pc' = [pc EXCEPT ![t] = "numbered"]
  /\ info' = [info EXCEPT ![t].seqno = seqno]
  /\ seqno' = (seqno + 1) % SeqMod
  /\ log' = Append(log, [info[t] EXCEPT !.seqno = seqno])
  /\ UNCHANGED <<heap, tracing, calls, alive, wireVars>>

\* The image is gone: the kernel closes its descriptors.
Gone ==
  /\ alive' = FALSE
  /\ fd' = [t \in Threads |-> IF fd[t] = "none" THEN "none" ELSE "closed"]

stop_tracing(t) ==
  /\ tracing' = FALSE
  /\ fd' = [fd EXCEPT ![t] = "closed"]

\* find_thread: t's ThreadInfo has a socket.  In a new thread clone_thunk left
\* clone_pid set instead, and the thread connects before it first writes.
find_thread(t) == fd[t] # "none"

new_process(t) ==
  /\ alive /\ pc[t] = "numbered" /\ ~find_thread(t) /\ memprof = "up"
  /\ fd' = [fd EXCEPT ![t] = "open"]
  /\ Sent(t, Hello)
  /\ pc' = [pc EXCEPT ![t] = "await"]
  /\ UNCHANGED <<heap, seqno, tracing, info, calls, alive, log,
                 peer, reply, memprof>>

\* connect() fails once memprof is gone, and the library ends the program.
ConnectError(t) ==
  /\ alive /\ pc[t] = "numbered" /\ ~find_thread(t) /\ memprof # "up"
  /\ tracing' = FALSE
  /\ Gone
  /\ UNCHANGED <<heap, seqno, pc, info, calls, log,
                 wire, peer, reply, memprof>>

RetriesRead_Response(t) ==
  /\ alive /\ pc[t] = "await" /\ reply[t] # NULL
  /\ pc' = [pc EXCEPT ![t] = "numbered"]
  /\ reply' = [reply EXCEPT ![t] = NULL]
  /\ UNCHANGED <<heap, seqno, tracing, info, calls, alive, log, wire, fd, peer, memprof>>

\* The rest of new_process: the one byte memprof answers with, or nothing.
Response(t) ==
  /\ alive /\ pc[t] = "await"
  /\ reply[t] # NULL \/ peer[t] = "closed"
  /\ pc' = [pc EXCEPT ![t] = "numbered"]
  /\ reply' = [reply EXCEPT ![t] = NULL]
  /\ IF reply[t] = 1 THEN UNCHANGED <<tracing, fd>> ELSE stop_tracing(t)
  /\ UNCHANGED <<heap, seqno, info, calls, alive, log, wire, peer, memprof>>

\* The first mi_write of mi_write_stack, or the only one of exit_wait.
WriteInfo(t) ==
  /\ alive /\ pc[t] = "numbered" /\ CanSend(t)
  /\ Sent(t, Header(info[t]))
  /\ pc' = [pc EXCEPT ![t] =
              IF info[t].operation \in AllocOps THEN "frames" ELSE "exitwait"]
  /\ UNCHANGED <<heap, seqno, tracing, info, calls, alive, log,
                 fd, peer, reply, memprof>>

WriteFrames(t) ==
  /\ alive /\ pc[t] = "frames" /\ CanSend(t)
  /\ Sent(t, Frames(info[t]))
  /\ pc' = [pc EXCEPT ![t] = "run"]
  /\ UNCHANGED <<heap, seqno, tracing, info, calls, alive, log,
                 fd, peer, reply, memprof>>

\* One of mi_write_stack's two writes failed.
WriteFails(t) ==
  /\ alive /\ pc[t] \in {"numbered", "frames"}
  /\ info[t].operation \in AllocOps
  /\ find_thread(t) /\ Broken(t)
  /\ pc' = [pc EXCEPT ![t] = "run"]
  /\ stop_tracing(t)
  /\ UNCHANGED <<heap, seqno, info, calls, alive, log,
                 wire, peer, reply, memprof>>

NoWait_exit_wait(t) ==
  /\ alive /\ info[t].operation = "MI_EXIT" /\ pc[t] = "exitwait"
  /\ pc' = [pc EXCEPT ![t] = "closing"]
  /\ fd' = [fd EXCEPT ![t] = "closed"]
  /\ UNCHANGED <<heap, seqno, tracing, info, calls, alive, log,
                 wire, peer, reply, memprof>>

\* exit_wait: memprof answered or went away, or MI_EXIT could not be written.
exit_wait(t) ==
  /\ alive /\ info[t].operation = "MI_EXIT"
  /\ \/ pc[t] = "exitwait" /\ (reply[t] # NULL \/ peer[t] = "closed")
     \/ pc[t] = "numbered" /\ find_thread(t) /\ Broken(t)
  /\ pc' = [pc EXCEPT ![t] = "closing"]
  /\ fd' = [fd EXCEPT ![t] = "closed"]
  /\ reply' = [reply EXCEPT ![t] = NULL]
  /\ UNCHANGED <<heap, seqno, tracing, info, calls, alive, log,
                 wire, peer, memprof>>

\* The end of atexit_trap, after exit_wait returned.
Exited(t) ==
  /\ alive /\ pc[t] = "closing"
  /\ pc' = [pc EXCEPT ![t] = "exited"]
  /\ tracing' = FALSE
  /\ UNCHANGED <<heap, seqno, info, calls, alive, log, wireVars>>

\* The program ends: exit() finished, or a signal killed it anywhere.
Die ==
  /\ alive
  /\ (\E t \in Threads : pc[t] = "exited") \/ "kill" \in Faults
  /\ Gone
  /\ UNCHANGED <<heap, seqno, tracing, pc, info, calls, log,
                 wire, peer, reply, memprof>>

InterceptTypeOK ==
  /\ DOMAIN heap \subseteq Addrs
  /\ heap \in [DOMAIN heap -> Sizes]
  /\ seqno \in 0..(SeqMod - 1)
  /\ tracing \in BOOLEAN
  /\ pc \in [Threads -> {"run", "called", "backtrace", "numbered", "await",
                         "frames", "exitwait", "closing", "exited"}]
  /\ info \in [Threads -> MIInfo]
  /\ calls \in 0..MaxCalls
  /\ alive \in BOOLEAN
  /\ log \in Seq(MIInfo)

InterceptInit ==
  /\ heap = Empty
  /\ seqno = 0
  /\ tracing = TRUE
  /\ pc = [t \in Threads |-> "run"]
  /\ info = [t \in Threads |-> Info("MI_FREE", NULL, NULL, 0)]
  /\ calls = 0
  /\ alive = TRUE
  /\ log = <<>>

\* The steps of a call that has begun.
CallStep(t) ==
  \/ mi_tracing(t) \/ Elide(t) \/ TakeSeqno(t)
  \/ new_process(t) \/ ConnectError(t) \/ Response(t)
  \/ WriteInfo(t) \/ WriteFrames(t) \/ WriteFails(t)
  \/ exit_wait(t) \/ Exited(t)

\* What the program asks for.
Request(t) == do_malloc(t) \/ do_realloc(t) \/ do_free(t) \/ atexit_trap(t)

InterceptNext == (\E t \in Threads : CallStep(t) \/ Request(t)) \/ Die

=============================================================================

------------------------------ MODULE Process -------------------------------
(***************************************************************************)
(* memprof's side of one traced image (src/process.c, and the MI_CLONE     *)
(* case of control_func in src/server.c): the connections of its threads,  *)
(* the command queue that puts their reports back in order, and the table  *)
(* of live blocks the windows draw from.                                   *)
(*                                                                         *)
(* memprof is one thread in a main loop.  A callback that reads twice can  *)
(* block in between, so srv says where it is: "loop" between callbacks,    *)
(* "frames" in input_func waiting for the frames of cmd, "drain" in the    *)
(* loop that ends process_command.                                         *)
(***************************************************************************)
EXTENDS Wire, HashTable, FiniteSets

CONSTANTS
  ByteMod,  \* the width of bytes_used and of a block's size: 2^32 in the code
  Clicks    \* what the user may do: "reset", "record", "detach", "quit"

ASSUME ProcessAssumption ==
  /\ ByteMod \in Nat \ {0}
  /\ Clicks \subseteq {"reset", "record", "detach", "quit"}

VARIABLES
  pseqno,         \* process->seqno of the root: the next number to apply
  command_queue,  \* its queued Commands (a set: the list is kept sorted)
  block_table,    \* its blocks, by address
  bytes_used,     \* the sum of their sizes
  n_allocations,  \* how many there are
  status,         \* the MPProcessStatus of every thread's MPProcess
  input_tag,      \* its input watch is installed
  pid_entry,      \* the server's pid_table at the program's pid, or NULL
  srv,            \* where memprof is (above)
  reading,        \* the thread whose socket input_func is reading
  cmd             \* the MIInfo it has read

blockVars == <<pseqno, command_queue, block_table, bytes_used, n_allocations>>
connVars  == <<status, input_tag, pid_entry>>
srvVars   == <<srv, reading, cmd>>
processVars == <<blockVars, connVars, srvVars>>

\* A stack trace is named by the report it was sent with; NULL stands for
\* whatever the buffer held when no frames arrived, or for no stack.
Stacks   == Nat \cup {NULL}
Commands == [info : MIInfo, stack : Stacks]
Blocks   == [size : 0..(ByteMod - 1), stack : Stacks]

\* Variants, each with a plausible bug, are named after the definition they
\* stand in for; no action uses them.
FreesOnly_Removes(i) == i.operation = "MI_FREE" /\ Has(block_table, i.old_ptr)

\* The entry process_command removes, and the one it then adds.
Removes(i) == i.old_ptr # NULL /\ Has(block_table, i.old_ptr)
Without(i) == IF Removes(i) THEN Delete(block_table, i.old_ptr) ELSE block_table

NoLookup_Adds(i)    == i.new_ptr # NULL
NoNullCheck_Adds(i) == ~Has(Without(i), i.new_ptr)

Adds(i) == i.new_ptr # NULL /\ ~Has(Without(i), i.new_ptr)

\* process_command on a report that is due.  MI_EXIT has no pointers.
Apply(i, stack) ==
  /\ pseqno' = (pseqno + 1) % SeqMod
  /\ block_table' =
       IF Adds(i)
       THEN Insert(Without(i), i.new_ptr, [size |-> i.size % ByteMod, stack |-> stack])
       ELSE Without(i)
  /\ bytes_used' =
       (bytes_used - (IF Removes(i) THEN block_table[i.old_ptr].size ELSE 0)
                   + (IF Adds(i) THEN i.size ELSE 0)) % ByteMod
  /\ n_allocations' = n_allocations - (IF Removes(i) THEN 1 ELSE 0)
                                    + (IF Adds(i) THEN 1 ELSE 0)
  /\ srv' = "drain"

queue_command(i, stack) ==
  /\ command_queue' = command_queue \cup {[info |-> i, stack |-> stack]}
  /\ srv' = "loop"
  /\ UNCHANGED <<pseqno, block_table, bytes_used, n_allocations>>

NoQueue_process_command(i, stack) ==
  /\ Apply(i, stack)
  /\ reading' = Main /\ cmd' = Hello.info
  /\ UNCHANGED command_queue

process_command(i, stack) ==
  /\ IF i.seqno = pseqno
     THEN Apply(i, stack) /\ UNCHANGED command_queue
     ELSE queue_command(i, stack)
  /\ reading' = Main
  /\ cmd' = Hello.info

\* The head of the list: queue_compare orders by the raw number.
IsHead(c) ==
  /\ c \in command_queue
  /\ \A d \in command_queue : c.info.seqno <= d.info.seqno

KeepsStack_unqueue_command ==
  /\ memprof = "up" /\ srv = "drain"
  /\ \E c \in command_queue :
       /\ IsHead(c) /\ c.info.seqno = pseqno
       /\ command_queue' = command_queue \ {c}
       /\ Apply(c.info, pseqno - 1)
  /\ UNCHANGED <<connVars, reading, cmd, wireVars>>

NoTest_unqueue_command ==
  /\ memprof = "up" /\ srv = "drain"
  /\ \E c \in command_queue :
       /\ IsHead(c)
       /\ command_queue' = command_queue \ {c}
       /\ Apply(c.info, c.stack)
  /\ UNCHANGED <<connVars, reading, cmd, wireVars>>

\* One turn of the loop that ends process_command.
unqueue_command ==
  /\ memprof = "up" /\ srv = "drain"
  /\ \E c \in command_queue :
       /\ IsHead(c) /\ c.info.seqno = pseqno
       /\ command_queue' = command_queue \ {c}
       /\ Apply(c.info, c.stack)
  /\ UNCHANGED <<connVars, reading, cmd, wireVars>>

NoLoop_QueueDone ==
  /\ memprof = "up" /\ srv = "drain" /\ srv' = "loop"
  /\ UNCHANGED <<blockVars, connVars, reading, cmd, wireVars>>

\* The loop ends: the queue is empty, or its head is not due yet.
QueueDone ==
  /\ memprof = "up" /\ srv = "drain"
  /\ \A c \in command_queue : IsHead(c) => c.info.seqno # pseqno
  /\ srv' = "loop"
  /\ UNCHANGED <<blockVars, connVars, reading, cmd, wireVars>>

\* memprof ends: the kernel closes its descriptors, the pending ones too.
Ends(how) ==
  /\ memprof' = how
  /\ peer' = [t \in Threads |-> "closed"]
  /\ UNCHANGED <<wire, fd, reply, processVars>>

\* A default-priority callback can run.
Loop == memprof = "up" /\ srv = "loop"

\* control_func on t's connection, the MI_CLONE case: t's MPProcess replaces
\* whatever the pid_table held for the pid they share.
control_func(t) ==
  /\ Loop
  /\ status[t] = "INIT" /\ wire[t] # <<>>
  /\ pid_entry # NULL /\ fd[t] = "open"
  /\ Took(t)
  /\ peer' = [peer EXCEPT ![t] = "open"]
  /\ reply' = [reply EXCEPT ![t] = 1]
  /\ status' = [status EXCEPT ![t] = "RUNNING"]
  /\ input_tag' = [input_tag EXCEPT ![t] = TRUE]
  /\ pid_entry' = t
  /\ UNCHANGED <<fd, memprof, blockVars, srvVars>>

\* control_func when the pid_table has no process for the pid: g_error().
CloneOfNobody(t) ==
  /\ Loop
  /\ status[t] = "INIT" /\ wire[t] # <<>> /\ pid_entry = NULL
  /\ Ends("g_error")

\* A write of memprof on a socket the program has closed: memprof leaves
\* SIGPIPE at its default, so the signal ends it.  The write is control_func's
\* answer, the answer to a clone's MI_EXIT, or the user's detach.
AnswerNobody(t) ==
  /\ Loop /\ fd[t] = "closed"
  /\ \/ status[t] = "INIT" /\ wire[t] # <<>> /\ pid_entry # NULL
     \/ /\ t # Main /\ status[t] = "RUNNING" /\ wire[t] # <<>>
        /\ Head(wire[t]).info.operation = "MI_EXIT"
     \/ t = Main /\ status[t] = "EXITING" /\ "detach" \in Clicks
  /\ Ends("SIGPIPE")

\* t has an input channel and its watch is installed.
Watched(t) == input_tag[t] /\ status[t] \in {"RUNNING", "EXITING"}

\* input_func reads an MIInfo that has frames, and goes on to read them.
input_func(t) ==
  /\ Loop /\ Watched(t) /\ wire[t] # <<>>
  /\ Head(wire[t]).info.operation # "MI_EXIT"
  /\ Took(t)
  /\ srv' = "frames" /\ reading' = t /\ cmd' = Head(wire[t]).info
  /\ UNCHANGED <<blockVars, connVars, fd, peer, reply, memprof>>

\* ... and their arrival.  The read blocks until then.
ReadFrames ==
  /\ memprof = "up" /\ srv = "frames" /\ wire[reading] # <<>>
  /\ Took(reading)
  /\ process_command(cmd, Head(wire[reading]).info.seqno)
  /\ UNCHANGED <<connVars, fd, peer, reply, memprof>>

\* ... or the program's end.  count is not looked at, and the buffer is used
\* as it is.
FramesEOF ==
  /\ memprof = "up" /\ srv = "frames" /\ AtEOF(reading)
  /\ process_command(cmd, NULL)
  /\ UNCHANGED <<connVars, wireVars>>

NoAnswer_ReadExit(t) ==
  /\ Loop /\ Watched(t) /\ wire[t] # <<>>
  /\ Head(wire[t]).info.operation = "MI_EXIT"
  /\ Took(t)
  /\ status' = [status EXCEPT ![t] = "EXITING"]
  /\ process_command(Head(wire[t]).info, NULL)
  /\ UNCHANGED <<input_tag, pid_entry, fd, peer, reply, memprof>>

\* input_func reads MI_EXIT.  The root waits for the user to detach; a clone
\* is answered at once.
ReadExit(t) ==
  /\ Loop /\ Watched(t) /\ wire[t] # <<>>
  /\ Head(wire[t]).info.operation = "MI_EXIT"
  /\ t = Main \/ fd[t] = "open"
  /\ Took(t)
  /\ status' = [status EXCEPT ![t] = "EXITING"]
  /\ reply' = IF t = Main THEN reply ELSE [reply EXCEPT ![t] = 0]
  /\ process_command(Head(wire[t]).info, NULL)
  /\ UNCHANGED <<input_tag, pid_entry, fd, peer, memprof>>

KeepsEntry_InputEOF(t) ==
  /\ Loop /\ input_tag[t]
  /\ status[t] = "DETACHED" \/ (status[t] \in {"RUNNING", "EXITING"} /\ AtEOF(t))
  /\ status' = [status EXCEPT ![t] = "DEFUNCT"]
  /\ UNCHANGED <<blockVars, srvVars, input_tag, pid_entry, wireVars>>

\* input_func reads nothing: end of file, or a channel that was shut down.
\* mp_server_remove_process removes the entry only if it is this process.
InputEOF(t) ==
  /\ Loop /\ input_tag[t]
  /\ status[t] = "DETACHED" \/ (status[t] \in {"RUNNING", "EXITING"} /\ AtEOF(t))
  /\ status' = [status EXCEPT ![t] = "DEFUNCT"]
  /\ pid_entry' = IF pid_entry = t THEN NULL ELSE pid_entry
  /\ UNCHANGED <<blockVars, srvVars, input_tag, wireVars>>

\* process_detach of the root by the user.  A finished program gets its
\* answer; the socket of a running one is shut down, unread parts and all.
process_detach ==
  /\ Loop /\ "detach" \in Clicks
  /\ \/ /\ status[Main] = "EXITING" /\ fd[Main] = "open"
        /\ reply' = [reply EXCEPT ![Main] = 0]
        /\ UNCHANGED <<wire, peer, status>>
     \/ /\ status[Main] = "RUNNING"
        /\ peer' = [peer EXCEPT ![Main] = "closed"]
        /\ wire' = [wire EXCEPT ![Main] = <<>>]
        /\ status' = [status EXCEPT ![Main] = "DETACHED"]
        /\ UNCHANGED reply
  /\ UNCHANGED <<blockVars, input_tag, pid_entry, srvVars, fd, memprof>>

KeepsCount_process_clear_input ==
  /\ Loop /\ "reset" \in Clicks /\ status[Main] \in {"RUNNING", "EXITING"}
  /\ block_table' = Empty /\ bytes_used' = 0
  /\ UNCHANGED <<n_allocations, pseqno, command_queue, connVars, srvVars, wireVars>>

\* The Reset button: the numbers go to zero and the table is dropped, while
\* process->seqno and the queue stay.
process_clear_input ==
  /\ Loop /\ "reset" \in Clicks /\ status[Main] \in {"RUNNING", "EXITING"}
  /\ block_table' = Empty
  /\ bytes_used' = 0
  /\ n_allocations' = 0
  /\ UNCHANGED <<pseqno, command_queue, connVars, srvVars, wireVars>>

\* The Record button: process_start_input or process_stop_input on the root.
record_button_toggled_cb ==
  /\ Loop /\ "record" \in Clicks /\ status[Main] \in {"RUNNING", "EXITING"}
  /\ input_tag' = [input_tag EXCEPT ![Main] = ~@]
  /\ UNCHANGED <<blockVars, status, pid_entry, srvVars, wireVars>>

\* The user closes memprof, or a signal ends it.
Quit == Loop /\ "quit" \in Clicks /\ Ends("quit")

ProcessTypeOK ==
  /\ pseqno \in 0..(SeqMod - 1)
  /\ command_queue \subseteq Commands
  /\ DOMAIN block_table \subseteq Addrs
  /\ block_table \in [DOMAIN block_table -> Blocks]
  /\ bytes_used \in 0..(ByteMod - 1)
  /\ n_allocations \in Int
  /\ status \in [Threads -> {"INIT", "RUNNING", "EXITING", "DEFUNCT", "DETACHED"}]
  /\ input_tag \in [Threads -> BOOLEAN]
  /\ pid_entry \in Threads \cup {NULL}
  /\ srv \in {"loop", "frames", "drain"}
  /\ reading \in Threads
  /\ cmd \in MIInfo

ProcessInit ==
  /\ pseqno = 0
  /\ command_queue = {}
  /\ block_table = Empty
  /\ bytes_used = 0
  /\ n_allocations = 0
  /\ status = [t \in Threads |-> IF t = Main THEN "RUNNING" ELSE "INIT"]
  /\ input_tag = [t \in Threads |-> t = Main]
  /\ pid_entry = Main
  /\ srv = "loop"
  /\ reading = Main
  /\ cmd = Hello.info

\* What memprof does by itself, and what the user makes it do.
ServerStep ==
  \/ unqueue_command \/ QueueDone \/ ReadFrames \/ FramesEOF
  \/ \E t \in Threads :
       control_func(t) \/ CloneOfNobody(t)
       \/ input_func(t) \/ ReadExit(t) \/ InputEOF(t)

UserStep ==
  process_detach \/ process_clear_input \/ record_button_toggled_cb \/ Quit

ProcessNext == ServerStep \/ UserStep \/ (\E t \in Threads : AnswerNobody(t))

=============================================================================

----------------------------- MODULE ReplayLog ------------------------------
(***************************************************************************)
(* What memprof promises about the reports of one traced image, with no    *)
(* sockets, threads or queue: there is one log of reports, in the order    *)
(* the program numbered them, and the table of blocks is what replaying a  *)
(* prefix of that log gives, one report at a time, each with its own       *)
(* stack.  The user may empty the table at any point.                      *)
(***************************************************************************)
EXTENDS Naturals, Sequences

CONSTANTS
  NULL,   \* no pointer, or no stack
  Width   \* sizes are shown modulo this

VARIABLES
  log,       \* the reports, in the order they were numbered
  replayed,  \* how many of them the table reflects
  table,     \* address -> [size, stack]; a stack is its report's number
  running    \* the program has not ended

Init == log = <<>> /\ replayed = 0 /\ table = [a \in {} |-> a] /\ running = TRUE

\* A report frees its old block and allocates its new one, unless the table
\* already has a block there.
Kept(r) == DOMAIN table \ {r.old_ptr}

Effect(r, stack) ==
  [a \in Kept(r) \cup ({r.new_ptr} \ {NULL}) |->
     IF a \in Kept(r) THEN table[a] ELSE [size |-> r.size % Width, stack |-> stack]]

Issue ==
  /\ running
  /\ Len(log') = Len(log) + 1
  /\ \A k \in 1..Len(log) : log'[k] = log[k]
  /\ UNCHANGED <<replayed, table, running>>

\* Only the death of the program can cost a report its stack.
Replay ==
  /\ replayed < Len(log)
  /\ replayed' = replayed + 1
  /\ \E stack \in {replayed} \cup (IF running THEN {} ELSE {NULL}) :
       table' = Effect(log[replayed + 1], stack)
  /\ UNCHANGED <<log, running>>

Clear == table' = [a \in {} |-> a] /\ UNCHANGED <<log, replayed, running>>

End == running' = FALSE /\ UNCHANGED <<log, replayed, table>>

Spec == Init /\ [][Issue \/ Replay \/ Clear \/ End]_<<log, replayed, table, running>>

=============================================================================

------------------------------ MODULE Control -------------------------------
(***************************************************************************)
(* memprof's start and end (src/server.c): the control socket it makes in  *)
(* /tmp beside those of other memprofs (create_control_socket), the        *)
(* handlers that are to remove it again (ensure_cleanup, term_handler,     *)
(* terminate_io_handler, cleanup_socket), and the children that share      *)
(* these handlers between fork() and execvp() (mp_server_instrument).      *)
(***************************************************************************)
EXTENDS Integers, FiniteSets

CONSTANTS
  Paths,       \* the names mktemp() can make
  MaxProcs,    \* bound: processes of a session
  NULL,
  Retries      \* retry_count at the start

\* The MPProcess objects, and the children, in the order they are made.
Procs == 1 .. MaxProcs

ASSUME ControlAssumption ==
  /\ MaxProcs \in Nat
  /\ NULL \notin Paths \cup Procs
  /\ Retries \in Nat

VARIABLES
  memprof,      \* where memprof is
  sockets,      \* whose socket has each name: "none", "self", "other"
  socket_path,  \* server->socket_path
  retry_count,
  socket_paths, \* what cleanup_socket removes
  term,         \* the state of the signal handlers
  child         \* the children that are still copies of memprof: "forked", "caught"
                \* (a signal), "exited" (by term_handler); the others are "none"

bootVars == <<sockets, socket_path, retry_count, socket_paths>>
controlVars == <<memprof, bootVars, term, child>>

\* The steps of create_control_socket, then the main loop, then the ends.
Booting == {"mktemp", "bind", "atexit", "signal", "pipe", "listen"}
Running == {"up", "quitting"}
Ended   == {"exited", "killed", "crashed"}

\* cleanup_socket, if it is registered, with that list.
Unlinked(paths) == [p \in Paths |-> IF term.cleanup /\ p \in paths THEN "none" ELSE sockets[p]]

NoHandlers_exit ==
  /\ memprof' = "exited"
  /\ UNCHANGED sockets

\* exit(), and a return from main.
exit ==
  /\ memprof' = "exited"
  /\ sockets' = Unlinked(socket_paths)

-----------------------------------------------------------------------------
(* create_control_socket.                                                  *)

NoLimit_mktemp ==
  /\ memprof = "mktemp"
  /\ \E p \in Paths : sockets[p] = "none" /\ socket_path' = p
  /\ retry_count' = retry_count - 1
  /\ memprof' = "bind"
  /\ UNCHANGED <<sockets, socket_paths, term, child>>

\* mktemp() makes a name that no file has, now.
mktemp ==
  /\ memprof = "mktemp"
  /\ \/ /\ retry_count = 0 \/ \A p \in Paths : sockets[p] # "none"
        /\ exit
        /\ UNCHANGED <<socket_path, retry_count>>
     \/ /\ retry_count > 0
        /\ \E p \in Paths : sockets[p] = "none" /\ socket_path' = p
        /\ retry_count' = retry_count - 1
        /\ memprof' = "bind"
        /\ UNCHANGED sockets
  /\ UNCHANGED <<socket_paths, term, child>>

Early_bind ==
  /\ memprof = "bind"
  /\ socket_paths' = socket_paths \cup {socket_path}
  /\ IF sockets[socket_path] = "none"
     THEN memprof' = "atexit" /\ sockets' = [sockets EXCEPT ![socket_path] = "self"]
     ELSE memprof' = "mktemp" /\ UNCHANGED sockets
  /\ UNCHANGED <<socket_path, retry_count, term, child>>

\* EADDRINUSE: somebody was faster.
bind ==
  /\ memprof = "bind"
  /\ IF sockets[socket_path] = "none"
     THEN memprof' = "atexit" /\ sockets' = [sockets EXCEPT ![socket_path] = "self"]
     ELSE memprof' = "mktemp" /\ UNCHANGED sockets
  /\ UNCHANGED <<socket_path, retry_count, socket_paths, term, child>>

\* ensure_cleanup: g_atexit, then signal(), then pipe() and its watch.
ensure_cleanup ==
  /\ \/ memprof = "atexit" /\ memprof' = "signal" /\ term' = [term EXCEPT !.cleanup = TRUE]
     \/ memprof = "signal" /\ memprof' = "pipe" /\ term' = [term EXCEPT !.handler = TRUE]
     \/ memprof = "pipe" /\ memprof' = "listen" /\ term' = [term EXCEPT !.pipe = "empty"]
  /\ UNCHANGED <<bootVars, child>>

\* bind(), pipe() or listen() fails, the last with the socket's name in the list.
fatal ==
  /\ memprof \in {"bind", "pipe", "listen"}
  /\ memprof' = "exited"
  /\ socket_paths' = IF memprof = "listen" THEN socket_paths \cup {socket_path} ELSE socket_paths
  /\ sockets' = Unlinked(socket_paths')
  /\ UNCHANGED <<socket_path, retry_count, term, child>>

-----------------------------------------------------------------------------
(* Signals.                                                                *)

\* terminate_io_handler reads one byte and exits: whether there is one is all
\* that matters.
Filled(pipe) == IF pipe = "none" THEN pipe ELSE "byte"

\* write() to the pipe; before there is one the byte goes astray.
Write_pipe == term' = [term EXCEPT !.terminated = TRUE, !.pipe = Filled(@)]

\* SIGINT or SIGTERM: the default action, the byte, or, the second time, exit().
term_handler ==
  /\ memprof \notin Ended
  /\ \/ ~term.handler /\ memprof' = "killed" /\ UNCHANGED <<sockets, term>>
     \/ term.handler /\ term.terminated /\ exit /\ UNCHANGED term
     \/ term.handler /\ ~term.terminated /\ Write_pipe /\ UNCHANGED <<memprof, sockets>>
  /\ UNCHANGED <<socket_path, retry_count, socket_paths, child>>

Quits_terminate_io_handler ==
  /\ memprof \in Running /\ term.pipe = "byte"
  /\ memprof' = "quitting" /\ term' = [term EXCEPT !.pipe = "empty"]
  /\ UNCHANGED <<bootVars, child>>

\* The watch on the pipe, in the main loop or in a dialog's.
terminate_io_handler ==
  /\ memprof \in Running /\ term.pipe = "byte"
  /\ exit
  /\ UNCHANGED <<socket_path, retry_count, socket_paths, term, child>>

\* The child of mp_server_instrument has a copy of terminated.
fork(p) == child' = [child EXCEPT ![p] = IF term.terminated THEN "caught" ELSE "forked"]

\* The child calls execvp(), or _exit() if that fails.
execvp(p) ==
  /\ memprof \notin Ended /\ child[p] \in {"forked", "caught"}
  /\ child' = [child EXCEPT ![p] = "none"]
  /\ UNCHANGED <<memprof, bootVars, term>>

\* kill (pid, SIGTERM).  Before execvp() the child has memprof's handler and
\* memprof's pipe; its exit() runs cleanup_socket.
kill_child(p) ==
  \/ /\ child[p] = "forked"
     /\ child' = [child EXCEPT ![p] = "caught"]
     /\ term' = [term EXCEPT !.pipe = Filled(@)]
     /\ UNCHANGED sockets
  \/ /\ child[p] = "caught"
     /\ child' = [child EXCEPT ![p] = "exited"]
     /\ sockets' = Unlinked(socket_paths)
     /\ UNCHANGED term
  \/ /\ child[p] \notin {"forked", "caught"}
     /\ UNCHANGED <<child, term, sockets>>

\* Another memprof binds a name that is free, or removes its own; as with the
\* children, what happens once memprof has ended is not followed.
Other(p) ==
  /\ memprof \notin Ended
  /\ \/ sockets[p] = "none" /\ sockets' = [sockets EXCEPT ![p] = "other"]
     \/ sockets[p] = "other" /\ sockets' = [sockets EXCEPT ![p] = "none"]
  /\ UNCHANGED <<memprof, socket_path, retry_count, socket_paths, term, child>>

-----------------------------------------------------------------------------
ControlInit ==
  /\ memprof = "mktemp"
  /\ sockets = [p \in Paths |-> "none"]
  /\ socket_path = NULL /\ retry_count = Retries /\ socket_paths = {}
  /\ term = [cleanup |-> FALSE, handler |-> FALSE, terminated |-> FALSE, pipe |-> "none"]
  /\ child = [p \in Procs |-> "none"]

ControlStep ==
  \/ mktemp \/ bind \/ ensure_cleanup \/ fatal \/ term_handler \/ terminate_io_handler
  \/ \E p \in Procs : execvp(p)

=============================================================================

------------------------------ MODULE Windows -------------------------------
(***************************************************************************)
(* memprof's windows: one ProcessWindow for each process (src/main.c), the *)
(* process tree window (src/tree.c), the signals by which an MPProcess     *)
(* reaches them, and the dialogs and the popup menu, during which the main *)
(* loop goes on serving the processes.                                     *)
(*                                                                         *)
(* A C function that runs to its end is an operator from one state of the  *)
(* windows to the next, named after it; actions are what the main loop     *)
(* dispatches.  Using memory that was freed, or a NULL pointer, ends       *)
(* memprof: "crashed".                                                     *)
(***************************************************************************)
EXTENDS Control, Sequences, SequencesExt

CONSTANT MaxWindows  \* bound: windows made

\* main makes the first window.
ASSUME WindowsAssumption == MaxWindows \in Nat \ {0}

VARIABLES
  gui,     \* the windows, the tree store and the processes' status
  prompt   \* the dialog or menu that is open, and the window it is about

windowVars == <<gui, prompt>>
allVars == <<controlVars, windowVars>>

Tree == 0   \* the process tree window
NoPrompt == [kind |-> "none", win |-> Tree]

Statuses == {"none", "INIT", "STARTING", "RUNNING", "EXITING", "DEFUNCT", "DETACHED"}

Crash(g) == [g EXCEPT !.fate = "crashed"]

\* The list process_windows.
process_windows(g) == {i \in DOMAIN g.pwin : ~g.pwin[i].freed}

-----------------------------------------------------------------------------
(* Toplevels and quitting.                                                 *)

\* gtk_window_list_toplevels: the oldest first.  The loop tests the first of
\* them each time round.
check_quit(g) ==
  IF g.fate = "crashed" \/ Head(g.toplevels) \in g.shown THEN g
  ELSE [g EXCEPT !.fate = "quitting"]

hide_and_check_quit(g, w) == check_quit([g EXCEPT !.shown = @ \ {w}])

process_window_show(g, w) == [g EXCEPT !.shown = @ \cup {w}]

ensure_tree_window(g) ==
  IF Contains(g.toplevels, Tree) THEN g ELSE [g EXCEPT !.toplevels = Append(@, Tree)]

tree_window_show(g) == process_window_show(ensure_tree_window(g), Tree)

-----------------------------------------------------------------------------
(* The rows of the tree window.                                            *)

process_get_status_text(s) == IF s = "DETACHED" THEN "DEFUNCT" ELSE s

\* The rows for a process; find_by_process stops at the first.
find_by_process(g, p) == {k \in DOMAIN g.store : g.pwin[g.store[k].pwin].process = p}
First(K) == CHOOSE k \in K : \A j \in K : k <= j

update_process(g, k) ==
  [g EXCEPT !.store[k].text =
     process_get_status_text(g.status[g.pwin[g.store[k].pwin].process])]

\* The parent row is looked up by the process itself, which has no row yet.
tree_window_add(g, i) ==
  LET e == ensure_tree_window(g)
      p == e.pwin[i].process
      found == find_by_process(e, p)
      parent == IF found = {} THEN Tree ELSE e.store[First(found)].pwin
      added == [e EXCEPT !.store = Append(@, [pwin |-> i, parent |-> parent, text |-> ""]),
                         !.handlers = @ \cup {<<p, Tree>>}]
  IN update_process(added, Len(added.store))

\* copy_children_to_grandparent: the rows below a row move one level up.
copy_children_to_grandparent(g, k) ==
  LET row == g.store[k]
  IN [g EXCEPT !.store = [j \in DOMAIN @ |->
       IF @[j].parent = row.pwin THEN [@[j] EXCEPT !.parent = row.parent] ELSE @[j]]]

KeepsRow_tree_window_remove(g, i) ==
  [ensure_tree_window(g) EXCEPT !.handlers = @ \ {<<g.pwin[i].process, Tree>>}]

\* Without a row the iterator is not initialised.
tree_window_remove(g, i) ==
  LET e == ensure_tree_window(g)
      p == e.pwin[i].process
      found == find_by_process(e, p)
      k == First(found)
      moved == copy_children_to_grandparent(e, k)
  IN IF found = {} THEN Crash(e)
     ELSE [moved EXCEPT !.store = RemoveAt(@, k), !.handlers = @ \ {<<p, Tree>>}]

-----------------------------------------------------------------------------
(* Windows and their processes.                                            *)

\* A window is made hidden.
process_window_new(g) ==
  [g EXCEPT !.pwin = Append(@, [process |-> NULL, timer |-> FALSE, report |-> FALSE,
                                freed |-> FALSE]),
            !.toplevels = Append(@, Len(g.pwin) + 1)]

\* The profile and the leaks go, and the meter starts anew.
process_window_reset(g, i) == [g EXCEPT !.pwin[i].report = FALSE]

\* gtk takes a window that is destroyed off its list of toplevels.
Unlisted(toplevels, w) == RemoveAt(toplevels, CHOOSE k \in DOMAIN toplevels : toplevels[k] = w)

NoCheck_process_window_destroy(g, i) ==
  [g EXCEPT !.pwin[i].timer = FALSE, !.pwin[i].freed = TRUE,
            !.toplevels = Unlisted(@, i), !.shown = @ \ {i}]

KeepsTimer_process_window_destroy(g, i) ==
  check_quit([g EXCEPT !.pwin[i].freed = TRUE,
                       !.toplevels = Unlisted(@, i), !.shown = @ \ {i}])

\* gtk_widget_destroy, which calls process_window_free, then check_quit.
process_window_destroy(g, i) ==
  check_quit([g EXCEPT !.pwin[i].timer = FALSE, !.pwin[i].freed = TRUE,
                       !.toplevels = Unlisted(@, i), !.shown = @ \ {i}])

KeepsHandler_DropProcess(g, p, i) == [g EXCEPT !.pwin[i].process = NULL, !.pwin[i].timer = FALSE]

\* The last window stays, without a process.
DropProcess(g, p, i) ==
  [g EXCEPT !.handlers = @ \ {<<p, i>>}, !.pwin[i].process = NULL, !.pwin[i].timer = FALSE]

KeepsReport_status_changed_cb(g, p, i) ==
  IF g.pwin[i].freed THEN Crash(g)
  ELSE IF g.status[p] \notin {"DEFUNCT", "DETACHED"} THEN g
  ELSE IF Cardinality(process_windows(g)) > 1
       THEN process_window_destroy(tree_window_remove(g, i), i)
       ELSE DropProcess(tree_window_remove(g, i), p, i)

\* In main.c: the end of a process takes its window, unless it is the last one.
status_changed_cb(g, p, i) ==
  IF g.pwin[i].freed THEN Crash(g)
  ELSE IF g.status[p] \notin {"DEFUNCT", "DETACHED"} THEN g
  ELSE IF Cardinality(process_windows(g)) > 1
       THEN process_window_destroy(tree_window_remove(g, i), i)
       ELSE process_window_reset(DropProcess(tree_window_remove(g, i), p, i), i)

\* In tree.c.
tree_status_changed_cb(g, p) ==
  LET found == find_by_process(g, p)
  IN IF found = {} THEN g ELSE update_process(g, First(found))

\* The window a process reports to.
Windowed(g, p) == \E i \in DOMAIN g.pwin : <<p, i>> \in g.handlers
WindowOf(g, p) == CHOOSE i \in DOMAIN g.pwin : <<p, i>> \in g.handlers

\* The handlers run in the order they were connected; one that is disconnected
\* meanwhile does not.
process_set_status(g, p, s) ==
  LET h == [g EXCEPT !.status[p] = s]
      w == IF Windowed(h, p) THEN status_changed_cb(h, p, WindowOf(h, p)) ELSE h
  IN IF g.status[p] = s THEN g
     ELSE IF <<p, Tree>> \in w.handlers /\ w.fate # "crashed" THEN tree_status_changed_cb(w, p)
     ELSE w

init_process(g, i, p) ==
  tree_window_add([g EXCEPT !.pwin[i].process = p, !.pwin[i].timer = TRUE,
                            !.handlers = @ \cup {<<p, i>>}], i)

process_created_cb(g, p) ==
  tree_window_show(init_process(process_window_new(g), Len(g.pwin) + 1, p))

\* process_run sets the status before anybody listens.
run_file(g, i, p) ==
  LET h == process_set_status(g, p, "STARTING")
      new == tree_window_show(process_window_new(h))
  IN IF g.pwin[i].freed THEN Crash(g)
     ELSE IF g.pwin[i].process = NULL
     THEN process_window_show(init_process(h, i, p), i)
     ELSE process_window_show(init_process(new, Len(new.pwin), p), Len(new.pwin))

\* A process that has not connected has no input_channel.
process_detach(g, p) ==
  IF p = NULL \/ g.status[p] = "STARTING" THEN Crash(g)
  ELSE IF g.status[p] \in {"DEFUNCT", "EXITING"} THEN g
  ELSE process_set_status(g, p, "DETACHED")

-----------------------------------------------------------------------------
(* Dispatching.                                                            *)

\* Before the first window and, what is memprof's memory, after the end.
NoWindows ==
  [pwin |-> <<>>, toplevels |-> <<>>, shown |-> {}, store |-> <<>>, handlers |-> {},
   status |-> [p \in Procs |-> "none"], fate |-> "up"]

\* The state of the windows becomes g.
Becomes(g) ==
  /\ gui' = IF g.fate = "crashed" THEN NoWindows ELSE [g EXCEPT !.fate = "up"]
  /\ memprof' = IF g.fate \in {"quitting", "crashed"} THEN g.fate ELSE memprof

\* The prompt becomes q, if memprof is still there.
Prompts(q) == prompt' = IF memprof' = "crashed" THEN NoPrompt ELSE q

\* A step of Control leaves the windows alone, unless it is the last.
Lasting(A) ==
  /\ A
  /\ \/ memprof' \notin Ended /\ UNCHANGED windowVars
     \/ memprof' \in Ended /\ gui' = NoWindows /\ prompt' = NoPrompt

OnlyWindows(g) ==
  /\ Becomes(g)
  /\ UNCHANGED <<bootVars, term, child>>

\* The dialog goes with the window it is about (GTK_DIALOG_DESTROY_WITH_PARENT).
Orphaned(g) == prompt.kind \in {"detach", "kill"} /\ g.pwin[prompt.win].freed

\* What a process does is dispatched in the main loop and in a dialog's.
\* maybe_detach and maybe_kill destroy a dialog that is gone a second time, which
\* may or may not be noticed.
Event(g) ==
  /\ memprof \in Running
  /\ \/ OnlyWindows(g)
     \/ Orphaned(g) /\ OnlyWindows(Crash(g))
  /\ Prompts(IF Orphaned(g) THEN NoPrompt ELSE prompt)

\* process_new.
Fresh(p) == gui.status[p] = "none" /\ \A q \in 1 .. (p - 1) : gui.status[q] # "none"

NoRemove_CanConnect(p) == gui.status[p] \notin {"none", "EXITING"} /\ child[p] = "none"

\* A process of the table whose program can call the control socket.
CanConnect(p) ==
  gui.status[p] \in {"STARTING", "RUNNING", "DETACHED"} /\ child[p] = "none"

\* control_func: a fork that is followed, or with --follow-exec an exec.
Created(p) ==
  /\ Fresh(p) /\ Len(gui.pwin) < MaxWindows
  /\ \E q \in Procs : CanConnect(q)
  /\ Event(process_set_status(process_created_cb([gui EXCEPT !.status[p] = "INIT"], p),
                              p, "RUNNING"))

\* control_func: the program has connected, for the first time or after an exec.
\* process_exec_reset emits "reset" (reset_cb).
Connected(p) ==
  /\ CanConnect(p)
  /\ LET g == IF ~Windowed(gui, p) THEN gui
              ELSE IF gui.pwin[WindowOf(gui, p)].freed THEN Crash(gui)
              ELSE process_window_reset(gui, WindowOf(gui, p))
     IN Event(IF g.fate = "crashed" THEN g ELSE process_set_status(g, p, "RUNNING"))

\* input_func: MI_EXIT, or the end of the input.
ReadExit(p) ==
  /\ gui.status[p] = "RUNNING"
  /\ Event(process_set_status(gui, p, "EXITING"))

InputEOF(p) ==
  /\ gui.status[p] \in {"RUNNING", "EXITING", "DETACHED"}
  /\ Event(process_set_status(gui, p, "DEFUNCT"))

-----------------------------------------------------------------------------
(* The user.                                                               *)

\* What the user does when no dialog and no menu is in the way.
Click(g) ==
  /\ memprof = "up" /\ prompt = NoPrompt
  /\ OnlyWindows(g)
  /\ UNCHANGED prompt

Opens(kind, i) ==
  /\ memprof = "up" /\ prompt = NoPrompt
  /\ prompt' = [kind |-> kind, win |-> i]
  /\ UNCHANGED <<gui, controlVars>>

Shown == gui.shown \ {Tree}

close_cb(w) == w \in gui.shown /\ Click(hide_and_check_quit(gui, w))
exit_cb(i) == i \in Shown /\ Click([gui EXCEPT !.fate = "quitting"])
process_tree_cb(i) == i \in Shown /\ Click(tree_window_show(gui))
run_cb(i) == i \in Shown /\ Opens("run", i)

\* generate_leak_cb, generate_profile_cb; reset_profile_cb.
generate_cb(i) ==
  /\ i \in Shown /\ gui.pwin[i].process # NULL
  /\ Click([gui EXCEPT !.pwin[i].report = TRUE])

reset_profile_cb(i) == i \in Shown /\ Click(process_window_reset(gui, i))

\* The question asked depends on the status now.
KillPrompt(p) == IF gui.status[p] = "EXITING" THEN "detach" ELSE "kill"

detach_cb(i) == i \in Shown /\ gui.pwin[i].process # NULL /\ Opens("detach", i)
kill_cb(i) ==
  /\ i \in Shown /\ gui.pwin[i].process # NULL
  /\ Opens(KillPrompt(gui.pwin[i].process), i)

\* A row of the tree: a double click shows its window, the right button a menu.
row_activated_cb(k) ==
  Tree \in gui.shown /\ Click(process_window_show(gui, gui.store[k].pwin))
button_press_cb(k) == Tree \in gui.shown /\ Opens("menu", gui.store[k].pwin)

-----------------------------------------------------------------------------
(* The answer to a dialog, or a menu item: about the window as it is now.   *)

Answers(g) ==
  /\ prompt' = NoPrompt
  /\ OnlyWindows(g)

Dismiss == memprof \in Running /\ prompt # NoPrompt /\ Answers(gui)

RunAnswer ==
  /\ memprof \in Running /\ prompt.kind = "run" /\ Len(gui.pwin) < MaxWindows
  /\ \E p \in Procs :
       /\ Fresh(p)
       /\ fork(p)
       /\ Becomes(run_file(gui, prompt.win, p))
  /\ prompt' = NoPrompt
  /\ UNCHANGED <<bootVars, term>>

DetachAnswer ==
  /\ memprof \in Running /\ prompt.kind = "detach"
  /\ Answers(process_detach(gui, gui.pwin[prompt.win].process))

\* process_kill, of what the window shows now.
process_kill(p) ==
  \/ /\ p \in {q \in Procs : gui.status[q] \in {"STARTING", "RUNNING", "DETACHED"}}
     /\ kill_child(p)
     /\ prompt' = NoPrompt
     /\ UNCHANGED <<gui, memprof, socket_path, retry_count, socket_paths>>
  \/ /\ p \in {NULL} \cup {q \in Procs : gui.status[q] = "EXITING"}
     /\ Answers(process_detach(gui, p))
  \/ /\ p \in {q \in Procs : gui.status[q] \in {"DEFUNCT", "INIT"}}
     /\ Answers(gui)

KillAnswer ==
  /\ memprof \in Running /\ prompt.kind = "kill"
  /\ process_kill(gui.pwin[prompt.win].process)

\* The menu's items; its window may be gone.
MenuAnswer ==
  LET i == prompt.win
      p == gui.pwin[i].process
  IN
  /\ memprof \in Running /\ prompt.kind = "menu"
  /\ \/ gui.pwin[i].freed /\ Answers(Crash(gui))
     \/ ~gui.pwin[i].freed /\ i \notin gui.shown /\ Answers(process_window_show(gui, i))
     \/ ~gui.pwin[i].freed /\ i \in gui.shown /\ Answers(hide_and_check_quit(gui, i))
     \/ ~gui.pwin[i].freed /\ p = NULL /\ Answers(Crash(gui))
     \/ /\ ~gui.pwin[i].freed /\ p # NULL
        /\ \E kind \in {"detach", KillPrompt(p)} : prompt' = [kind |-> kind, win |-> i]
        /\ UNCHANGED <<gui, controlVars>>

-----------------------------------------------------------------------------
\* main: the first window is shown when the server is there, and the program of
\* the command line is run in it.
main ==
  /\ memprof = "listen"
  /\ memprof' = "up"
  /\ socket_paths' = socket_paths \cup {socket_path}
  /\ retry_count' = 0   \* create_control_socket has returned
  /\ LET initial_window == process_window_show(process_window_new(gui), 1)
     IN \/ gui' = initial_window /\ UNCHANGED child
        \/ \E p \in Procs : Fresh(p) /\ gui' = run_file(initial_window, 1, p) /\ fork(p)
  /\ UNCHANGED <<sockets, socket_path, term, prompt>>

\* gtk_main returns once no dialog's loop is inside it; a menu has none.
Return ==
  /\ memprof = "quitting" /\ prompt.kind \in {"none", "menu"}
  /\ Lasting(exit)
  /\ UNCHANGED <<socket_path, retry_count, socket_paths, term, child>>

Init ==
  /\ ControlInit
  /\ gui = NoWindows
  /\ prompt = NoPrompt

ProcessStep == \E p \in Procs : Created(p) \/ Connected(p) \/ ReadExit(p) \/ InputEOF(p)

UserStep ==
  \/ \E w \in {Tree} \cup DOMAIN gui.pwin : close_cb(w)
  \/ \E i \in DOMAIN gui.pwin :
       \/ exit_cb(i) \/ process_tree_cb(i) \/ run_cb(i) \/ generate_cb(i)
       \/ reset_profile_cb(i) \/ detach_cb(i) \/ kill_cb(i)
  \/ \E k \in DOMAIN gui.store : row_activated_cb(k) \/ button_press_cb(k)

AnswerStep == Dismiss \/ RunAnswer \/ DetachAnswer \/ KillAnswer \/ MenuAnswer

Next ==
  \/ Lasting(ControlStep)
  \/ Lasting(\E p \in Paths : Other(p))
  \/ main \/ Return
  \/ ProcessStep \/ UserStep \/ AnswerStep

Spec == Init /\ [][Next]_allVars

\* memprof itself keeps running: start-up, the main loop's own sources, the end.
Fairness ==
  /\ WF_allVars(Lasting(mktemp \/ bind \/ ensure_cleanup))
  /\ WF_allVars(Lasting(terminate_io_handler))
  /\ WF_allVars(main)
  /\ WF_allVars(Return)

FairSpec == Spec /\ Fairness

-----------------------------------------------------------------------------
(* What must hold.                                                         *)

WindowsTypeOK ==
  /\ memprof \in Booting \cup Running \cup Ended
  /\ sockets \in [Paths -> {"none", "self", "other"}]
  /\ socket_path \in Paths \cup {NULL} /\ retry_count \in 0 .. Retries
  /\ socket_paths \subseteq Paths
  /\ term.cleanup \in BOOLEAN /\ term.handler \in BOOLEAN /\ term.terminated \in BOOLEAN
  /\ term.pipe \in {"none", "empty", "byte"}
  /\ child \in [Procs -> {"none", "forked", "caught", "exited"}]
  /\ Len(gui.pwin) <= MaxWindows
  /\ \A i \in DOMAIN gui.pwin : gui.pwin[i].process \in Procs \cup {NULL}
  /\ gui.status \in [Procs -> Statuses]
  /\ prompt.kind \in {"none", "run", "detach", "kill", "menu"}
  /\ prompt.win \in {Tree} \cup DOMAIN gui.pwin

\* While memprof is up and has not been told to quit, the oldest of its toplevel
\* windows is on the screen: neither hiding a window nor the end of a process with
\* its window (main.c, check_quit) leaves the user with a memprof he cannot reach.
OldestShown == memprof = "up" => Head(gui.toplevels) \in gui.shown

\* The tree window has one row for each live window with a process, none for a
\* window that is gone, and each row has the status its process has now: the two
\* handlers of "status_changed", in main.c and in tree.c, leave no row stale.
OneRowEach ==
  /\ {gui.store[k].pwin : k \in DOMAIN gui.store} =
       {i \in process_windows(gui) : gui.pwin[i].process # NULL}
  /\ IsInjective([k \in DOMAIN gui.store |-> gui.store[k].pwin])
  /\ \A k \in DOMAIN gui.store :
       gui.store[k].text =
         process_get_status_text(gui.status[gui.pwin[gui.store[k].pwin].process])

\* update_status, every 100 ms, reads the process of its window: the timer is
\* there for live windows with a process and for no others.
TimersSafe ==
  \A i \in DOMAIN gui.pwin :
    gui.pwin[i].timer = (i \in process_windows(gui) /\ gui.pwin[i].process # NULL)

\* A process reports to the window that shows it.  The only handlers that lead to
\* a window that was freed are those of processes that ended or were detached.
HandlersMatch ==
  \A p \in Procs, i \in DOMAIN gui.pwin :
    <<p, i>> \in gui.handlers =>
      IF gui.pwin[i].freed THEN gui.status[p] \in {"DEFUNCT", "DETACHED"}
      ELSE gui.pwin[i].process = p

\* A window that outlives its process shows no profile and no leaks of it: their
\* stacks and blocks belong to a process that the window has let go.
NoStaleReport ==
  \A i \in process_windows(gui) : gui.pwin[i].process = NULL => ~gui.pwin[i].report

\* What memprof is going to remove is its own: a name in socket_paths is that of a
\* socket it has bound, although others make and remove sockets in /tmp at the same
\* time; unless a child that was killed twice before execvp() removed it.
OwnSocket ==
  memprof \notin Ended /\ (\A p \in Procs : child[p] # "exited") =>
    \A p \in socket_paths : sockets[p] = "self"

\* When memprof ends other than by a crash it leaves its socket behind only while it
\* starts, before the socket's name is in the list: killed by a signal that has no
\* handler yet, on a second signal, which exits at once, or because pipe() failed.
\* Every later end, by a menu, with the last window or on any signal, removes it
\* (server.c, ensure_cleanup, term_handler, cleanup_socket).
CleanExit ==
  memprof \in {"exited", "killed"} /\ (\E p \in Paths : sockets[p] = "self") =>
    /\ socket_paths = {}
    /\ IF memprof = "killed" THEN ~term.handler ELSE term.terminated \/ term.pipe = "none"

\* What the comment on socket_paths says of it: an atexit() function cleans up, so
\* that no exit leaves the socket.  The function is registered, and term_handler
\* installed, before the name is in the list.
ExitCleans == memprof = "exited" => \A p \in Paths : sockets[p] # "self"

\* Freed windows and NULL processes are used only in two ways: after a dialog or a
\* menu during which its process ended, and by the last words of a process that
\* was detached.  Without either no order of events makes memprof crash.
CrashNeeds ==
  [][memprof # "crashed" /\ memprof' = "crashed" =>
       prompt # NoPrompt \/ \E p \in Procs : gui.status[p] = "DETACHED"]_allVars

\* A signal that term_handler has put into the pipe ends memprof, also when a
\* dialog is open or gtk_main is about to return.
TermEnds == term.pipe = "byte" ~> memprof \in Ended

\* A process, its window, and the window's row, timer, handlers and reports come
\* and go together.
WindowsInv ==
  WindowsTypeOK /\ OneRowEach /\ TimersSafe /\ HandlersMatch /\ NoStaleReport

\* memprof removes its own socket and no other, on every end but the early ones.
SocketOwned == OwnSocket /\ CleanExit

=============================================================================

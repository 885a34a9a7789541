---------------------------- MODULE WindowsProofs ----------------------------
(***************************************************************************)
(* Proofs about Windows, for any number of processes, windows and names:   *)
(* windows, rows, timers, handlers and reports stay together, the oldest   *)
(* toplevel is shown while memprof is up, the control socket is memprof's  *)
(* own and goes when memprof exits, and memprof crashes only after a       *)
(* dialog, a menu or a detached process.                                   *)
(*                                                                         *)
(* The inductive invariant has one part for each relation between the      *)
(* fields of `gui', stated of any state g of the windows, so that what a   *)
(* C function does to g is shown one function at a time.                   *)
(***************************************************************************)
EXTENDS Windows, SequenceTheorems, FiniteSetTheorems, TLAPS

Ends == {"DEFUNCT", "DETACHED"}

WindowRecords == [process : Procs \cup {NULL}, timer : BOOLEAN, report : BOOLEAN,
                  freed : BOOLEAN]
RowRecords == [pwin : Nat, parent : Nat, text : Statuses \cup {""}]

\* The states the windows may be in, as far as types go.
Guis ==
  [pwin : Seq(WindowRecords), toplevels : Seq(Nat), shown : SUBSET Nat,
   store : Seq(RowRecords), handlers : SUBSET (Procs \X Nat),
   status : [Procs -> Statuses], fate : {"up", "quitting", "crashed"}]

\* Window i is there and shows a process.
Shows(W, i) == i \in DOMAIN W /\ ~W[i].freed /\ W[i].process # NULL

\* The rows R are those of the windows W that show a process, with its status.
RowsMatch(W, R) ==
  /\ \A k \in DOMAIN R : Shows(W, R[k].pwin)
  /\ \A i \in DOMAIN W : Shows(W, i) => \E k \in DOMAIN R : R[k].pwin = i
  /\ \A j, k \in DOMAIN R : R[j].pwin = R[k].pwin => j = k

RowInv(W, R, S) ==
  /\ RowsMatch(W, R)
  /\ \A k \in DOMAIN R : R[k].text = process_get_status_text(S[W[R[k].pwin].process])

\* No two windows show one process, and no window shows one that has ended.
OneEach(W) ==
  \A i, j \in DOMAIN W :
    Shows(W, i) /\ Shows(W, j) /\ W[i].process = W[j].process => i = j

WindowInv(W, S) ==
  /\ OneEach(W)
  /\ \A i \in DOMAIN W :
       /\ W[i].timer = Shows(W, i)
       /\ ~W[i].freed /\ W[i].process = NULL => ~W[i].report
       /\ Shows(W, i) => S[W[i].process] \notin {"none"} \cup Ends

\* What the handlers H of the processes lead to, and which of them there must be.
HandlerInv(W, H, S) ==
  /\ H \subseteq Procs \X ({Tree} \cup DOMAIN W)
  /\ \A p \in Procs, i \in {Tree} \cup DOMAIN W :
       <<p, i>> \in H =>
         /\ S[p] # "none"
         /\ i # Tree => IF W[i].freed THEN S[p] \in Ends ELSE W[i].process = p
  /\ \A i \in DOMAIN W :
       Shows(W, i) => {<<W[i].process, i>>, <<W[i].process, Tree>>} \subseteq H

\* Every window that is there is on gtk's list.
ToplevelInv(W, T) == \A i \in DOMAIN W : ~W[i].freed => \E k \in DOMAIN T : T[k] = i

GuiInv(g) ==
  /\ g \in Guis
  /\ RowInv(g.pwin, g.store, g.status)
  /\ WindowInv(g.pwin, g.status)
  /\ HandlerInv(g.pwin, g.handlers, g.status)
  /\ ToplevelInv(g.pwin, g.toplevels)

\* The oldest toplevel is there and is shown.
Visible(g) == g.toplevels # <<>> /\ Head(g.toplevels) \in g.shown

-----------------------------------------------------------------------------
(* The inductive invariant.                                                *)

PromptInv ==
  /\ prompt \in [kind : {"none", "run", "detach", "kill", "menu"}, win : Nat]
  /\ prompt.kind = "none" => prompt.win = Tree
  /\ prompt.kind # "none" => prompt.win \in DOMAIN gui.pwin

GuiStateInv ==
  /\ GuiInv(gui) /\ gui.fate = "up" /\ Len(gui.pwin) <= MaxWindows
  /\ PromptInv
  /\ memprof \notin Running => gui = NoWindows /\ prompt = NoPrompt
  /\ memprof = "up" => Visible(gui)

ControlTypeOK ==
  /\ memprof \in Booting \cup Running \cup Ended
  /\ sockets \in [Paths -> {"none", "self", "other"}]
  /\ socket_path \in Paths \cup {NULL} /\ retry_count \in 0 .. Retries
  /\ socket_paths \subseteq Paths
  /\ term \in [cleanup : BOOLEAN, handler : BOOLEAN, terminated : BOOLEAN,
               pipe : {"none", "empty", "byte"}]
  /\ child \in [Procs -> {"none", "forked", "caught", "exited"}]

\* How far create_control_socket has come, and what there is to be removed.
ControlInv ==
  /\ ControlTypeOK
  /\ memprof \in Booting =>
       /\ socket_paths = {}
       /\ \A p \in Procs : child[p] = "none"
       /\ memprof # "mktemp" => socket_path \in Paths
       /\ IF memprof \in {"mktemp", "bind"} THEN \A f \in Paths : sockets[f] # "self"
                                             ELSE sockets[socket_path] = "self"
  /\ memprof \in Running =>
       /\ socket_path \in Paths /\ socket_paths = {socket_path}
       /\ (\A p \in Procs : child[p] # "exited") => sockets[socket_path] = "self"
       /\ \A p \in Procs : child[p] # "none" => gui.status[p] # "none"
  /\ memprof \in {"signal", "pipe", "listen"} \cup Running => term.cleanup
  /\ memprof \in {"pipe", "listen"} \cup Running => term.handler
  /\ memprof \in {"mktemp", "bind", "atexit", "signal", "pipe"} => term.pipe = "none"
  /\ memprof \notin Ended => \A f \in Paths : sockets[f] = "self" => f = socket_path
  /\ CleanExit

IInv == GuiStateInv /\ ControlInv

-----------------------------------------------------------------------------
(* Sequences: an element is removed, appended or replaced.                 *)

\* g_list_remove and gtk_tree_store_remove: what RemoveAt leaves, and where.
LEMMA Removed ==
  ASSUME NEW E, NEW s \in Seq(E), NEW n \in DOMAIN s
  PROVE  /\ RemoveAt(s, n) \in Seq(E)
         /\ DOMAIN RemoveAt(s, n) = 1 .. (Len(s) - 1)
         /\ \A k \in 1 .. (Len(s) - 1) :
              RemoveAt(s, n)[k] = IF k < n THEN s[k] ELSE s[k + 1]
<1> DEFINE a == SubSeq(s, 1, n - 1)
           b == SubSeq(s, n + 1, Len(s))
<1>1. n \in 1 .. Len(s) /\ Len(s) \in Nat /\ \A k \in 1 .. Len(s) : s[k] \in E
  OBVIOUS
<1>2. a \in Seq(E) /\ Len(a) = n - 1 /\ \A k \in 1 .. (n - 1) : a[k] = s[k]
  <2>1. \A k \in 1 .. (n - 1) : s[k] \in E
    BY <1>1
  <2> QED
    BY <1>1, <2>1, SubSeqProperties
<1>3. b \in Seq(E) /\ Len(b) = Len(s) - n /\ \A k \in 1 .. (Len(s) - n) : b[k] = s[k + n]
  <2>1. \A k \in (n + 1) .. Len(s) : s[k] \in E
    BY <1>1
  <2> HIDE DEF b
  <2>2. /\ b \in Seq(E)
        /\ Len(b) = IF n + 1 <= Len(s) THEN Len(s) - (n + 1) + 1 ELSE 0
        /\ \A k \in 1 .. (Len(s) - (n + 1) + 1) : b[k] = s[n + 1 + k - 1]
    BY <1>1, <2>1, SubSeqProperties DEF b
  <2> QED
    BY <1>1, <2>2
<1> HIDE DEF a, b
<1> DEFINE c == a \o b
<1>4. /\ c \in Seq(E)
      /\ Len(c) = Len(a) + Len(b)
      /\ \A k \in 1 .. (Len(a) + Len(b)) : c[k] = IF k <= Len(a) THEN a[k] ELSE b[k - Len(a)]
  BY <1>2, <1>3, ConcatProperties
<1>5. RemoveAt(s, n) = c
  BY DEF RemoveAt, a, b
<1> HIDE DEF c
<1>6. ASSUME NEW k \in 1 .. (Len(s) - 1)
      PROVE  c[k] = IF k < n THEN s[k] ELSE s[k + 1]
  <2>0. k \in 1 .. (Len(a) + Len(b)) /\ (k <= Len(a) <=> k < n)
    BY <1>1, <1>2, <1>3
  <2>1. CASE k < n
    <3>1. c[k] = a[k] /\ k \in 1 .. (n - 1)
      BY <1>1, <1>4, <2>0, <2>1
    <3> QED
      BY <1>2, <2>1, <3>1
  <2>2. CASE ~(k < n)
    <3>1. c[k] = b[k - Len(a)]
      BY <1>4, <2>0, <2>2
    <3>2. k - Len(a) \in 1 .. (Len(s) - n) /\ k - Len(a) + n = k + 1
      BY <1>1, <1>2, <2>2
    <3>3. b[k - Len(a)] = s[k - Len(a) + n]
      BY <1>3, <3>2
    <3> QED
      BY <2>2, <3>1, <3>2, <3>3
  <2> QED
    BY <2>1, <2>2
<1> QED
  BY <1>1, <1>2, <1>3, <1>4, <1>5, <1>6

LEMMA Appended ==
  ASSUME NEW E, NEW s \in Seq(E), NEW e \in E
  PROVE  /\ Append(s, e) \in Seq(E) /\ Append(s, e) # <<>>
         /\ Len(Append(s, e)) = Len(s) + 1
         /\ DOMAIN Append(s, e) = DOMAIN s \cup {Len(s) + 1} /\ Len(s) + 1 \notin DOMAIN s
         /\ \A k \in DOMAIN s : Append(s, e)[k] = s[k]
         /\ Append(s, e)[Len(s) + 1] = e
         /\ s # <<>> => Head(Append(s, e)) = Head(s)
<1> DEFINE t == Append(s, e)
<1>1. /\ t \in Seq(E) /\ Len(t) = Len(s) + 1 /\ t # <<>>
      /\ \A k \in 1 .. Len(s) : t[k] = s[k]
      /\ t[Len(s) + 1] = e
  BY AppendProperties
<1>2. DOMAIN s = 1 .. Len(s) /\ DOMAIN t = 1 .. Len(t) /\ Len(s) \in Nat
  BY <1>1
<1>3. ASSUME s # <<>> PROVE Head(t) = Head(s)
  <2>1. Head(t) = t[1] /\ Head(s) = s[1] /\ 1 \in 1 .. Len(s)
    BY <1>1, <1>3, HeadTailProperties
  <2> QED
    BY <1>1, <2>1
<1> HIDE DEF t
<1>4. DOMAIN t = DOMAIN s \cup {Len(s) + 1} /\ Len(s) + 1 \notin DOMAIN s
  BY <1>1, <1>2
<1> QED
  BY <1>1, <1>2, <1>3, <1>4 DEF t

LEMMA Replaced ==
  ASSUME NEW E, NEW s \in Seq(E), NEW n \in DOMAIN s, NEW e \in E
  PROVE  /\ [s EXCEPT ![n] = e] \in Seq(E)
         /\ DOMAIN [s EXCEPT ![n] = e] = DOMAIN s /\ Len([s EXCEPT ![n] = e]) = Len(s)
         /\ [s EXCEPT ![n] = e][n] = e
         /\ \A k \in DOMAIN s : k # n => [s EXCEPT ![n] = e][k] = s[k]
  OBVIOUS

-----------------------------------------------------------------------------
(* What the functions do to each field.                                    *)

\* U is the list T, to which windows may have been added.
Grows(T, U) ==
  /\ \A k \in DOMAIN T : k \in DOMAIN U /\ U[k] = T[k]
  /\ T # <<>> => U # <<>> /\ Head(U) = Head(T)

\* check_quit has been called, or did not need to be.
Settled(g) == g.fate # "up" \/ Visible(g)

LEMMA EnsureTree ==
  ASSUME NEW g \in Guis
  PROVE  LET e == ensure_tree_window(g) IN
         /\ e \in Guis /\ e.pwin = g.pwin /\ e.shown = g.shown /\ e.store = g.store
         /\ e.handlers = g.handlers /\ e.status = g.status /\ e.fate = g.fate
         /\ Grows(g.toplevels, e.toplevels) /\ e.toplevels # <<>>
<1> DEFINE e == ensure_tree_window(g)
           U == Append(g.toplevels, Tree)
<1>1. g.toplevels \in Seq(Nat) /\ Tree \in Nat
  BY DEF Guis, Tree
<1>2. CASE Contains(g.toplevels, Tree)
  <2>1. e = g
    BY <1>2 DEF ensure_tree_window
  <2>2. g.toplevels # <<>>
    BY <1>1, <1>2 DEF Contains
  <2> QED
    BY <2>1, <2>2 DEF Grows
<1>3. CASE ~Contains(g.toplevels, Tree)
  <2>1. e = [g EXCEPT !.toplevels = U]
    BY <1>3 DEF ensure_tree_window
  <2>2. U \in Seq(Nat) /\ U # <<>> /\ Grows(g.toplevels, U)
    BY <1>1, Appended DEF Grows
  <2> HIDE DEF U
  <2> QED
    BY <2>1, <2>2 DEF Guis
<1> QED
  BY <1>2, <1>3

\* check_quit changes nothing but whether memprof quits.
LEMMA CheckQuit ==
  ASSUME NEW g \in Guis
  PROVE  LET c == check_quit(g) IN
         /\ c \in Guis /\ c.pwin = g.pwin /\ c.shown = g.shown /\ c.store = g.store
         /\ c.handlers = g.handlers /\ c.status = g.status /\ c.toplevels = g.toplevels
         /\ c.fate \in {g.fate, "quitting"}
         /\ g.fate = "crashed" => c.fate = "crashed"
         /\ g.toplevels # <<>> => Settled(c)
  BY DEF check_quit, Guis, Settled, Visible

LEMMA ShowWindow ==
  ASSUME NEW g \in Guis, NEW w \in Nat
  PROVE  LET v == process_window_show(g, w) IN
         /\ v \in Guis /\ v.pwin = g.pwin /\ v.store = g.store
         /\ v.handlers = g.handlers /\ v.status = g.status /\ v.toplevels = g.toplevels
         /\ v.fate = g.fate /\ v.shown = g.shown \cup {w}
  BY DEF process_window_show, Guis

-----------------------------------------------------------------------------
(* Rows.                                                                   *)

\* find_by_process finds the row of a process that a window shows, and no other.
LEMMA RowFound ==
  ASSUME NEW g \in Guis, RowsMatch(g.pwin, g.store), OneEach(g.pwin),
         NEW i, Shows(g.pwin, i)
  PROVE  \E k \in DOMAIN g.store :
           /\ g.store[k].pwin = i
           /\ find_by_process(g, g.pwin[i].process) = {k}
           /\ First({k}) = k
<1>1. PICK k \in DOMAIN g.store : g.store[k].pwin = i
  BY DEF RowsMatch, Shows
<1>2. find_by_process(g, g.pwin[i].process) = {k}
  BY <1>1 DEF find_by_process, RowsMatch, OneEach, Shows
<1>3. k \in Nat
  BY DEF Guis
<1>4. First({k}) = k
  BY <1>3 DEF First
<1> QED
  BY <1>1, <1>2, <1>4

LEMMA NoRow ==
  ASSUME NEW g, RowsMatch(g.pwin, g.store), NEW p,
         \A i \in DOMAIN g.pwin : Shows(g.pwin, i) => g.pwin[i].process # p
  PROVE  find_by_process(g, p) = {}
  BY DEF find_by_process, RowsMatch, Shows

\* Q is R without the row of window i; what is said of the parents may differ.
RowRemoved(R, Q, i) ==
  \E k \in DOMAIN R :
    /\ R[k].pwin = i /\ DOMAIN Q = 1 .. (Len(R) - 1)
    /\ \A j \in DOMAIN Q :
         LET was == IF j < k THEN j ELSE j + 1
         IN Q[j].pwin = R[was].pwin /\ Q[j].text = R[was].text

LEMMA TreeRemove ==
  ASSUME NEW g \in Guis, RowsMatch(g.pwin, g.store), OneEach(g.pwin),
         NEW i, Shows(g.pwin, i)
  PROVE  LET r == tree_window_remove(g, i) IN
         /\ r \in Guis /\ r.pwin = g.pwin /\ r.shown = g.shown
         /\ r.handlers = g.handlers \ {<<g.pwin[i].process, Tree>>}
         /\ r.status = g.status /\ r.fate = g.fate
         /\ Grows(g.toplevels, r.toplevels) /\ r.toplevels # <<>>
         /\ RowRemoved(g.store, r.store, i)
<1> DEFINE e == ensure_tree_window(g)
           p == e.pwin[i].process
<1>1. /\ e \in Guis /\ e.pwin = g.pwin /\ e.shown = g.shown /\ e.store = g.store
      /\ e.handlers = g.handlers /\ e.status = g.status /\ e.fate = g.fate
      /\ Grows(g.toplevels, e.toplevels) /\ e.toplevels # <<>>
  BY EnsureTree
<1> HIDE DEF e
<1>2. PICK k \in DOMAIN e.store :
        /\ e.store[k].pwin = i /\ find_by_process(e, p) = {k} /\ First({k}) = k
  <2>1. \E k \in DOMAIN e.store : /\ e.store[k].pwin = i
                                  /\ find_by_process(e, e.pwin[i].process) = {k}
                                  /\ First({k}) = k
    BY <1>1, RowFound
  <2> QED
    BY <2>1
<1> DEFINE row == e.store[k]
           M == [j \in DOMAIN e.store |->
                   IF e.store[j].parent = row.pwin
                   THEN [e.store[j] EXCEPT !.parent = row.parent] ELSE e.store[j]]
           Q == RemoveAt(M, k)
<1>3. M \in Seq(RowRecords) /\ Len(M) = Len(e.store) /\ DOMAIN M = DOMAIN e.store
  <2>1. e.store \in Seq(RowRecords)
    BY <1>1 DEF Guis
  <2>2. \A j \in DOMAIN e.store : e.store[j] \in RowRecords
    BY <2>1
  <2>3. \A j \in DOMAIN e.store : M[j] \in RowRecords
    BY <2>2 DEF RowRecords
  <2>4. DOMAIN e.store = 1 .. Len(e.store) /\ Len(e.store) \in Nat
    BY <2>1
  <2> DEFINE n == Len(e.store)
  <2>5. M = [j \in 1 .. n |-> M[j]] /\ \A j \in 1 .. n : M[j] \in RowRecords
    BY <2>3, <2>4
  <2> HIDE DEF M, n
  <2>6. [j \in 1 .. n |-> M[j]] \in Seq(RowRecords)
    BY <2>4, <2>5, IsASeq DEF n
  <2>7. DOMAIN M = 1 .. n
    BY <2>5
  <2> QED
    BY <2>4, <2>5, <2>6, <2>7 DEF n
<1>4. \A j \in DOMAIN e.store : M[j].pwin = e.store[j].pwin /\ M[j].text = e.store[j].text
  <2>1. \A j \in DOMAIN e.store : e.store[j] \in RowRecords
    BY <1>1 DEF Guis
  <2> QED
    BY <2>1 DEF RowRecords
<1>5. copy_children_to_grandparent(e, k) = [e EXCEPT !.store = M]
  BY DEF copy_children_to_grandparent
<1> HIDE DEF M
<1>6. /\ Q \in Seq(RowRecords) /\ DOMAIN Q = 1 .. (Len(M) - 1)
      /\ \A j \in DOMAIN Q : Q[j] = IF j < k THEN M[j] ELSE M[j + 1]
  BY <1>2, <1>3, Removed
<1>7. RowRemoved(e.store, Q, i)
  <2>1. DOMAIN e.store = 1 .. Len(e.store) /\ Len(e.store) \in Nat
    BY <1>1 DEF Guis
  <2>2. ASSUME NEW j \in DOMAIN Q
        PROVE  LET was == IF j < k THEN j ELSE j + 1
               IN Q[j].pwin = e.store[was].pwin /\ Q[j].text = e.store[was].text
    <3>1. j \in DOMAIN e.store /\ j + 1 \in DOMAIN e.store
      BY <1>3, <1>6, <2>1
    <3> QED
      BY <1>4, <1>6, <3>1
  <2> QED
    BY <1>2, <1>3, <1>6, <2>2 DEF RowRemoved
<1> HIDE DEF Q
<1>8. tree_window_remove(g, i) =
        [[e EXCEPT !.store = M] EXCEPT !.store = Q, !.handlers = @ \ {<<p, Tree>>}]
  BY <1>2, <1>5, Zenon DEF tree_window_remove, e, Q, M
<1> DEFINE h == e.handlers \ {<<p, Tree>>}
           r == [[e EXCEPT !.store = M] EXCEPT !.store = Q, !.handlers = h]
<1>9. /\ r \in Guis /\ r.store = Q /\ r.handlers = h
      /\ r.pwin = e.pwin /\ r.toplevels = e.toplevels /\ r.shown = e.shown
      /\ r.status = e.status /\ r.fate = e.fate
  <2>1. e.handlers \in SUBSET (Procs \X Nat)
    BY <1>1 DEF Guis
  <2>2. h \in SUBSET (Procs \X Nat)
    BY <2>1
  <2> HIDE DEF h
  <2> QED
    BY <1>1, <1>6, <2>2 DEF Guis
<1>10. tree_window_remove(g, i) = r
  <2>1. [e EXCEPT !.store = M].handlers = e.handlers
    BY <1>1 DEF Guis
  <2> QED
    BY <1>8, <2>1
<1> HIDE DEF r
<1> QED
  BY <1>1, <1>7, <1>9, <1>10

\* W and V differ only in window i.
SameBut(W, V, i) == DOMAIN V = DOMAIN W /\ \A j \in DOMAIN W : j # i => V[j] = W[j]

\* A row and its window's process go together.
LEMMA RowGone ==
  ASSUME NEW W, NEW V, NEW S2, NEW R \in Seq(RowRecords), NEW Q, NEW i,
         RowsMatch(W, R), RowRemoved(R, Q, i),
         SameBut(W, V, i), Shows(W, i), ~Shows(V, i),
         \A k \in DOMAIN R : R[k].pwin # i =>
           R[k].text = process_get_status_text(S2[W[R[k].pwin].process])
  PROVE  RowInv(V, Q, S2)
<1>1. PICK k \in DOMAIN R :
        /\ R[k].pwin = i /\ DOMAIN Q = 1 .. (Len(R) - 1)
        /\ \A j \in DOMAIN Q :
             LET was == IF j < k THEN j ELSE j + 1
             IN Q[j].pwin = R[was].pwin /\ Q[j].text = R[was].text
  BY DEF RowRemoved
<1> DEFINE was(j) == IF j < k THEN j ELSE j + 1
<1>2. DOMAIN R = 1 .. Len(R) /\ Len(R) \in Nat
  OBVIOUS
<1>3. \A j \in DOMAIN Q : was(j) \in DOMAIN R /\ was(j) # k
  BY <1>1, <1>2
<1>4. \A j, m \in DOMAIN Q : was(j) = was(m) => j = m
  BY <1>1, <1>2
<1>5. \A m \in DOMAIN R : m # k => \E j \in DOMAIN Q : was(j) = m
  <2> TAKE m \in DOMAIN R
  <2> HAVE m # k
  <2>1. CASE m < k
    BY <1>1, <1>2, <2>1
  <2>2. CASE m > k
    <3>1. m - 1 \in DOMAIN Q /\ was(m - 1) = m
      BY <1>1, <1>2, <2>2
    <3> QED
      BY <3>1
  <2> QED
    BY <1>2, <2>1, <2>2
<1>6. \A j \in DOMAIN Q : Q[j].pwin = R[was(j)].pwin /\ Q[j].text = R[was(j)].text
  BY <1>1
<1> HIDE DEF was
<1>7. \A m \in DOMAIN R : m # k => R[m].pwin # i
  BY <1>1 DEF RowsMatch
<1>8. RowsMatch(V, Q)
  <2>1. \A j \in DOMAIN Q : Shows(V, Q[j].pwin)
    BY <1>3, <1>6, <1>7 DEF RowsMatch, Shows, SameBut
  <2>2. ASSUME NEW n \in DOMAIN V, Shows(V, n) PROVE \E j \in DOMAIN Q : Q[j].pwin = n
    <3>1. n # i /\ Shows(W, n) /\ n \in DOMAIN W
      BY <2>2 DEF SameBut, Shows
    <3>2. PICK m \in DOMAIN R : R[m].pwin = n
      BY <3>1 DEF RowsMatch
    <3> QED
      BY <1>1, <1>5, <1>6, <3>1, <3>2
  <2>3. \A j, m \in DOMAIN Q : Q[j].pwin = Q[m].pwin => j = m
    BY <1>3, <1>4, <1>6 DEF RowsMatch
  <2> QED
    BY <2>1, <2>2, <2>3 DEF RowsMatch
<1>9. ASSUME NEW j \in DOMAIN Q
      PROVE  Q[j].text = process_get_status_text(S2[V[Q[j].pwin].process])
  BY <1>3, <1>6, <1>7 DEF RowsMatch, Shows, SameBut
<1> QED
  BY <1>8, <1>9 DEF RowInv

-----------------------------------------------------------------------------
(* Windows.                                                                *)

\* Every window of T but w is in U.
Keeps(T, U, w) == \A k \in DOMAIN T : T[k] # w => \E j \in DOMAIN U : U[j] = T[k]

\* A list that has window w and another is not empty without w.
LEMMA UnlistedKeeps ==
  ASSUME NEW T \in Seq(Nat), NEW w, NEW k \in DOMAIN T, T[k] = w,
         NEW m \in DOMAIN T, T[m] # w
  PROVE  Unlisted(T, w) \in Seq(Nat) /\ Keeps(T, Unlisted(T, w), w) /\ Unlisted(T, w) # <<>>
<1> DEFINE c == CHOOSE n \in DOMAIN T : T[n] = w
           U == RemoveAt(T, c)
<1>1. c \in DOMAIN T /\ T[c] = w
  OBVIOUS
<1> HIDE DEF c
<1>2. /\ U \in Seq(Nat) /\ DOMAIN U = 1 .. (Len(T) - 1)
      /\ \A n \in 1 .. (Len(T) - 1) : U[n] = IF n < c THEN T[n] ELSE T[n + 1]
  BY <1>1, Removed
<1> HIDE DEF U
<1>3. ASSUME NEW n \in DOMAIN T, T[n] # w PROVE \E j \in DOMAIN U : U[j] = T[n]
  <2>1. n \in 1 .. Len(T) /\ c \in 1 .. Len(T) /\ n # c /\ Len(T) \in Nat
    BY <1>1, <1>3
  <2>2. CASE n < c
    <3>1. n \in 1 .. (Len(T) - 1)
      BY <2>1, <2>2
    <3> QED
      BY <1>2, <2>2, <3>1
  <2>3. CASE n > c
    <3>1. n - 1 \in 1 .. (Len(T) - 1) /\ ~(n - 1 < c) /\ (n - 1) + 1 = n
      BY <2>1, <2>3
    <3>2. U[n - 1] = T[n]
      BY <1>2, <3>1
    <3> QED
      BY <1>2, <3>1, <3>2
  <2> QED
    BY <2>1, <2>2, <2>3
<1>4. U # <<>>
  BY <1>3
<1> QED
  BY <1>2, <1>3, <1>4 DEF Unlisted, U, c, Keeps

LEMMA Destroyed ==
  ASSUME NEW g \in Guis, NEW i, i \in DOMAIN g.pwin,
         \E k \in DOMAIN g.toplevels : g.toplevels[k] = i,
         \E k \in DOMAIN g.toplevels : g.toplevels[k] # i
  PROVE  LET d == process_window_destroy(g, i) IN
         /\ d \in Guis /\ SameBut(g.pwin, d.pwin, i) /\ Len(d.pwin) = Len(g.pwin)
         /\ d.pwin[i].freed /\ d.pwin[i].timer = FALSE
         /\ Keeps(g.toplevels, d.toplevels, i) /\ Settled(d)
         /\ d.store = g.store /\ d.handlers = g.handlers /\ d.status = g.status
         /\ d.fate \in {g.fate, "quitting"}
         /\ g.fate = "crashed" => d.fate = "crashed"
<1> DEFINE w == [g.pwin[i] EXCEPT !.timer = FALSE, !.freed = TRUE]
           V == [g.pwin EXCEPT ![i] = w]
           U == Unlisted(g.toplevels, i)
           c == [g EXCEPT !.pwin = V, !.toplevels = U, !.shown = @ \ {i}]
<1>1. g.pwin \in Seq(WindowRecords) /\ g.toplevels \in Seq(Nat)
  BY DEF Guis
<1>2. w \in WindowRecords /\ w.freed /\ w.timer = FALSE
  <2>1. g.pwin[i] \in WindowRecords
    BY <1>1
  <2> QED
    BY <2>1 DEF WindowRecords
<1>3. V \in Seq(WindowRecords) /\ SameBut(g.pwin, V, i) /\ V[i] = w /\ Len(V) = Len(g.pwin)
  BY <1>1, <1>2, Replaced DEF SameBut
<1>4. U \in Seq(Nat) /\ Keeps(g.toplevels, U, i) /\ U # <<>>
  BY <1>1, UnlistedKeeps
<1>5. process_window_destroy(g, i) = check_quit(c)
  BY DEF process_window_destroy
<1> HIDE DEF V, U, w
<1>6. c \in Guis /\ c.pwin = V /\ c.toplevels = U /\ c.shown = g.shown \ {i}
      /\ c.store = g.store /\ c.handlers = g.handlers /\ c.status = g.status
      /\ c.fate = g.fate
  BY <1>3, <1>4 DEF Guis
<1> HIDE DEF c
<1> QED
  BY <1>2, <1>3, <1>4, <1>5, <1>6, CheckQuit

\* What status_changed_cb does with the last window.
Emptied(g, p, i) == process_window_reset(DropProcess(g, p, i), i)

IsEmptied(g, d, p, i) ==
  /\ d \in Guis /\ SameBut(g.pwin, d.pwin, i) /\ Len(d.pwin) = Len(g.pwin)
  /\ d.pwin[i].process = NULL /\ d.pwin[i].timer = FALSE /\ d.pwin[i].report = FALSE
  /\ d.pwin[i].freed = g.pwin[i].freed
  /\ d.toplevels = g.toplevels /\ d.shown = g.shown /\ d.fate = g.fate
  /\ d.store = g.store /\ d.status = g.status
  /\ d.handlers = g.handlers \ {<<p, i>>}

LEMMA Dropped ==
  ASSUME NEW g \in Guis, NEW p, NEW i, i \in DOMAIN g.pwin
  PROVE  IsEmptied(g, Emptied(g, p, i), p, i)
<1> DEFINE w == [g.pwin[i] EXCEPT !.process = NULL, !.timer = FALSE, !.report = FALSE]
           V == [g.pwin EXCEPT ![i] = w]
           d == Emptied(g, p, i)
<1>1. g.pwin \in Seq(WindowRecords)
  BY DEF Guis
<1>2. /\ w \in WindowRecords
      /\ w.process = NULL /\ w.timer = FALSE /\ w.report = FALSE /\ w.freed = g.pwin[i].freed
  <2>1. g.pwin[i] \in WindowRecords
    BY <1>1
  <2> QED
    BY <2>1 DEF WindowRecords
<1>3. V \in Seq(WindowRecords) /\ SameBut(g.pwin, V, i) /\ V[i] = w /\ Len(V) = Len(g.pwin)
  BY <1>1, <1>2, Replaced DEF SameBut
<1>4. d = [g EXCEPT !.pwin = V, !.handlers = @ \ {<<p, i>>}]
  BY DEF Emptied, DropProcess, process_window_reset, Guis
<1> HIDE DEF V, d, w
<1>5. /\ d \in Guis /\ d.pwin = V /\ d.handlers = g.handlers \ {<<p, i>>}
      /\ d.toplevels = g.toplevels /\ d.shown = g.shown /\ d.fate = g.fate
      /\ d.store = g.store /\ d.status = g.status
  BY <1>3, <1>4 DEF Guis
<1> QED
  BY <1>2, <1>3, <1>5 DEF d, IsEmptied

-----------------------------------------------------------------------------
(* process_set_status.                                                     *)

\* Window i shows process p and nothing else leads there.
LEMMA ShownIs ==
  ASSUME NEW W, NEW H, NEW S, HandlerInv(W, H, S), NEW p \in Procs, NEW i \in DOMAIN W,
         <<p, i>> \in H, ~W[i].freed, i # Tree
  PROVE  Shows(W, i) /\ W[i].process = p
  BY ControlAssumption DEF HandlerInv, Shows

\* Window i is destroyed, or lets go of process p, which has ended.
LetsGo(W, V, H, G, S, S2, p, i) ==
  /\ Shows(W, i) /\ W[i].process = p
  /\ SameBut(W, V, i) /\ ~Shows(V, i) /\ V[i].timer = FALSE
  /\ ~V[i].freed => V[i].process = NULL /\ ~V[i].report
  /\ V[i].freed => G = H \ {<<p, Tree>>}
  /\ ~V[i].freed => G = H \ {<<p, Tree>>, <<p, i>>}
  /\ S2[p] \in Ends /\ \A q \in Procs : q # p => S2[q] = S[q]

LEMMA WindowsAfter ==
  ASSUME NEW W \in Seq(WindowRecords), NEW V, NEW S, NEW S2, NEW H, NEW G,
         NEW p \in Procs, NEW i,
         WindowInv(W, S), HandlerInv(W, H, S), LetsGo(W, V, H, G, S, S2, p, i)
  PROVE  WindowInv(V, S2) /\ HandlerInv(V, G, S2)
<1> USE DEF LetsGo
<1>1. S2[p] \in Ends /\ \A q \in Procs : q # p => S2[q] = S[q]
  OBVIOUS
<1>2. \A j \in DOMAIN V : Shows(V, j) => j # i /\ Shows(W, j) /\ V[j] = W[j] /\ j \in DOMAIN W
  BY DEF Shows, SameBut
<1>3. \A j \in DOMAIN W : W[j] \in WindowRecords
  OBVIOUS
<1>4. \A j \in DOMAIN W : Shows(W, j) => W[j].process \in Procs
  BY <1>3 DEF Shows, WindowRecords
<1>5. \A j \in DOMAIN V : Shows(V, j) => V[j].process \in Procs \ {p}
  BY <1>2, <1>4 DEF WindowInv, OneEach, Shows
<1>6. WindowInv(V, S2)
  <2>1. OneEach(V)
    BY <1>2 DEF WindowInv, OneEach
  <2>2. ASSUME NEW j \in DOMAIN V
        PROVE  /\ V[j].timer = Shows(V, j)
               /\ ~V[j].freed /\ V[j].process = NULL => ~V[j].report
               /\ Shows(V, j) => S2[V[j].process] \notin {"none"} \cup Ends
    <3>1. CASE j = i
      <4>1. Shows(V, i) = FALSE
        BY DEF Shows
      <4> QED
        BY <3>1, <4>1
    <3>2. CASE j # i
      <4>1. V[j] = W[j] /\ j \in DOMAIN W
        BY <3>2 DEF SameBut
      <4>2. Shows(V, j) = Shows(W, j)
        BY <4>1 DEF Shows
      <4>3. /\ W[j].timer = Shows(W, j)
            /\ ~W[j].freed /\ W[j].process = NULL => ~W[j].report
            /\ Shows(W, j) => S[W[j].process] \notin {"none"} \cup Ends
        BY <4>1, Zenon DEF WindowInv
      <4> QED
        BY <1>1, <1>5, <4>1, <4>2, <4>3
    <3> QED
      BY <3>1, <3>2
  <2> QED
    BY <2>1, <2>2, Zenon DEF WindowInv
<1>7. HandlerInv(V, G, S2)
  <2>1. G \subseteq Procs \X ({Tree} \cup DOMAIN V)
    BY DEF HandlerInv, SameBut
  <2>2. ASSUME NEW q \in Procs, NEW j \in {Tree} \cup DOMAIN V, <<q, j>> \in G
        PROVE  /\ S2[q] # "none"
               /\ j # Tree => IF V[j].freed THEN S2[q] \in Ends ELSE V[j].process = q
    <3>1. /\ <<q, j>> \in H /\ j \in {Tree} \cup DOMAIN W /\ S[q] # "none"
          /\ j # Tree => IF W[j].freed THEN S[q] \in Ends ELSE W[j].process = q
      BY <2>2 DEF HandlerInv, SameBut
    <3>2. S2[q] # "none" /\ (S[q] \in Ends => S2[q] \in Ends)
      BY <1>1, <3>1 DEF Ends
    <3>3. CASE j = i
      <4>1. j # Tree => q = p
        BY <3>1, <3>3 DEF Shows
      <4>2. V[i].freed \/ j = Tree
        BY <2>2, <3>3, <4>1
      <4> QED
        BY <1>1, <3>2, <3>3, <4>1, <4>2
    <3>4. CASE j # i
      BY <3>1, <3>2, <3>4 DEF SameBut
    <3> QED
      BY <3>3, <3>4
  <2>3. ASSUME NEW j \in DOMAIN V, Shows(V, j)
        PROVE  {<<V[j].process, j>>, <<V[j].process, Tree>>} \subseteq G
    BY <1>2, <1>5, <2>3 DEF HandlerInv
  <2> QED
    BY <2>1, <2>2, <2>3 DEF HandlerInv
<1> QED
  BY <1>6, <1>7

\* The end of a process that window i shows: the window goes, or shows nothing.
LEMMA Ending ==
  ASSUME NEW g, GuiInv(g), NEW p \in Procs, NEW i, NEW s \in Ends,
         Shows(g.pwin, i), g.pwin[i].process = p
  PROVE  LET r == status_changed_cb([g EXCEPT !.status[p] = s], p, i) IN
         /\ GuiInv(r) /\ Len(r.pwin) = Len(g.pwin)
         /\ <<p, Tree>> \notin r.handlers
         /\ r.status = [g.status EXCEPT ![p] = s]
         /\ g.fate = "up" => r.fate \in {"up", "quitting"}
         /\ Settled(g) => Settled(r)
<1> DEFINE h == [g EXCEPT !.status[p] = s]
           t == tree_window_remove(h, i)
           a == process_window_destroy(t, i)
           d == Emptied(t, p, i)
           r == status_changed_cb(h, p, i)
<1>1. /\ h \in Guis /\ h.pwin = g.pwin /\ h.store = g.store /\ h.handlers = g.handlers
      /\ h.toplevels = g.toplevels /\ h.shown = g.shown /\ h.fate = g.fate
      /\ h.status = [g.status EXCEPT ![p] = s]
  BY DEF GuiInv, Guis, Ends, Statuses
<1>2. h.status[p] = s /\ \A q \in Procs : q # p => h.status[q] = g.status[q]
  BY <1>1 DEF GuiInv, Guis
<1> HIDE DEF h
<1>3. i \in DOMAIN g.pwin /\ ~g.pwin[i].freed
  BY DEF Shows
<1>4. /\ t \in Guis /\ t.pwin = g.pwin /\ t.shown = g.shown
      /\ t.handlers = g.handlers \ {<<p, Tree>>}
      /\ t.status = h.status /\ t.fate = g.fate
      /\ Grows(g.toplevels, t.toplevels) /\ t.toplevels # <<>>
      /\ RowRemoved(g.store, t.store, i)
  BY <1>1, TreeRemove DEF GuiInv, RowInv, WindowInv
<1> HIDE DEF t
<1>5. g.pwin \in Seq(WindowRecords) /\ g.store \in Seq(RowRecords) /\ g.status \in [Procs -> Statuses]
  BY DEF GuiInv, Guis
<1>6. \A k \in DOMAIN g.store : g.store[k].pwin # i =>
        g.store[k].text = process_get_status_text(h.status[g.pwin[g.store[k].pwin].process])
  <2> TAKE k \in DOMAIN g.store
  <2> HAVE g.store[k].pwin # i
  <2>1. Shows(g.pwin, g.store[k].pwin)
    BY DEF GuiInv, RowInv, RowsMatch
  <2>2. g.pwin[g.store[k].pwin] \in WindowRecords
    BY <1>5, <2>1 DEF Shows
  <2>3. g.pwin[g.store[k].pwin].process \in Procs \ {p}
    BY <2>1, <2>2 DEF GuiInv, WindowInv, OneEach, Shows, WindowRecords
  <2> QED
    BY <1>2, <2>3 DEF GuiInv, RowInv
\* Whatever becomes of the window, these parts are the same.
<1>7. ASSUME NEW f \in Guis, SameBut(g.pwin, f.pwin, i), ~Shows(f.pwin, i),
             f.pwin[i].timer = FALSE,
             ~f.pwin[i].freed => f.pwin[i].process = NULL /\ ~f.pwin[i].report,
             f.handlers = t.handlers \ (IF f.pwin[i].freed THEN {} ELSE {<<p, i>>}),
             f.store = t.store, f.status = t.status, ToplevelInv(f.pwin, f.toplevels)
      PROVE  GuiInv(f) /\ <<p, Tree>> \notin f.handlers
  <2>1. RowInv(f.pwin, f.store, f.status)
    <3>1. RowsMatch(g.pwin, g.store)
      BY DEF GuiInv, RowInv
    <3>2. RowRemoved(g.store, f.store, i) /\ f.status = h.status
      BY <1>4, <1>7
    <3>3. g.store \in Seq(RowRecords) /\ SameBut(g.pwin, f.pwin, i) /\ ~Shows(f.pwin, i)
      BY <1>5, <1>7
    <3> QED
      BY <1>6, <3>1, <3>2, <3>3, RowGone
  <2>2. /\ f.pwin[i].freed => f.handlers = g.handlers \ {<<p, Tree>>}
        /\ ~f.pwin[i].freed => f.handlers = g.handlers \ {<<p, Tree>>, <<p, i>>}
    BY <1>4, <1>7
  <2>3. WindowInv(f.pwin, f.status) /\ HandlerInv(f.pwin, f.handlers, f.status)
    <3>1. WindowInv(g.pwin, g.status) /\ HandlerInv(g.pwin, g.handlers, g.status)
      BY DEF GuiInv
    <3>2. f.status[p] = s /\ \A q \in Procs : q # p => f.status[q] = g.status[q]
      BY <1>2, <1>4, <1>7
    <3>3. LetsGo(g.pwin, f.pwin, g.handlers, f.handlers, g.status, f.status, p, i)
      BY <1>7, <2>2, <3>2 DEF LetsGo
    <3> QED
      BY <1>5, <3>1, <3>3, WindowsAfter
  <2> QED
    BY <1>7, <2>1, <2>2, <2>3 DEF GuiInv
<1>8. CASE Cardinality(process_windows(h)) > 1
  <2>1. PICK j \in process_windows(h) : j # i
    <3>1. i \in process_windows(h)
      BY <1>1, <1>3 DEF process_windows
    <3>2. process_windows(h) # {i}
      BY <1>8, FS_Singleton
    <3> QED
      BY <3>1, <3>2
  <2>2. /\ \E k \in DOMAIN t.toplevels : t.toplevels[k] = i
        /\ \E m \in DOMAIN t.toplevels : t.toplevels[m] = j
    BY <1>1, <1>3, <1>4, <2>1 DEF GuiInv, ToplevelInv, Grows, process_windows
  <2>3. /\ a \in Guis /\ SameBut(t.pwin, a.pwin, i) /\ Len(a.pwin) = Len(t.pwin)
        /\ a.pwin[i].freed /\ a.pwin[i].timer = FALSE
        /\ Keeps(t.toplevels, a.toplevels, i) /\ Settled(a)
        /\ a.store = t.store /\ a.handlers = t.handlers /\ a.status = t.status
        /\ a.fate \in {t.fate, "quitting"}
    <3>1. t \in Guis /\ i \in DOMAIN t.pwin
      BY <1>3, <1>4
    <3> QED
      BY <2>1, <2>2, <3>1, Destroyed
  <2> HIDE DEF a
  <2>4. ToplevelInv(a.pwin, a.toplevels)
    BY <1>3, <1>4, <2>3 DEF GuiInv, ToplevelInv, Grows, Keeps, SameBut
  <2>5. r = a
    BY <1>1, <1>2, <1>3, <1>8 DEF status_changed_cb, a, t, Ends
  <2>6. GuiInv(a) /\ <<p, Tree>> \notin a.handlers
    BY <1>4, <1>7, <2>3, <2>4 DEF Shows
  <2> QED
    BY <1>1, <1>4, <2>3, <2>5, <2>6 DEF h
<1>9. CASE ~(Cardinality(process_windows(h)) > 1)
  <2>1. IsEmptied(t, d, p, i)
    <3>1. t \in Guis /\ i \in DOMAIN t.pwin
      BY <1>3, <1>4
    <3> QED
      BY <3>1, Dropped
  <2> HIDE DEF d
  <2>2. ~d.pwin[i].freed /\ ~d.pwin[i].report
    BY <1>3, <1>4, <2>1 DEF IsEmptied
  <2>3. ToplevelInv(d.pwin, d.toplevels)
    BY <1>3, <1>4, <2>1 DEF IsEmptied, GuiInv, ToplevelInv, Grows, SameBut
  <2>4. r = d
    BY <1>1, <1>2, <1>3, <1>9 DEF status_changed_cb, d, t, Emptied, Ends
  <2>5. GuiInv(d) /\ <<p, Tree>> \notin d.handlers
    BY <1>4, <1>7, <2>1, <2>2, <2>3 DEF IsEmptied, Shows
  <2>6. Settled(g) => Settled(d)
    BY <1>4, <2>1 DEF IsEmptied, Settled, Visible, Grows
  <2> QED
    BY <1>1, <1>4, <2>1, <2>4, <2>5, <2>6 DEF IsEmptied, h
<1> QED
  BY <1>8, <1>9

\* r is g with the status of p set to s; if a process has ended there may be no more
\* than that left to say.
IsSet(g, r, p, s) ==
  /\ GuiInv(r) /\ Len(r.pwin) = Len(g.pwin)
  /\ r.status = [g.status EXCEPT ![p] = s]
  /\ r.fate \in {"up", "quitting"}
  /\ Settled(g) => Settled(r)

\* The status of a process that a window goes on showing reaches its row.
LEMMA Restated ==
  ASSUME NEW g, GuiInv(g), g.fate = "up", NEW p \in Procs, NEW i,
         NEW s \in Statuses \ ({"none"} \cup Ends),
         Shows(g.pwin, i), g.pwin[i].process = p
  PROVE  IsSet(g, tree_status_changed_cb([g EXCEPT !.status[p] = s], p), p, s)
<1> DEFINE h == [g EXCEPT !.status[p] = s]
           text == process_get_status_text(s)
           r == tree_status_changed_cb(h, p)
<1>1. /\ h \in Guis /\ h.pwin = g.pwin /\ h.store = g.store /\ h.handlers = g.handlers
      /\ h.toplevels = g.toplevels /\ h.shown = g.shown /\ h.fate = g.fate
      /\ h.status = [g.status EXCEPT ![p] = s]
  BY DEF GuiInv, Guis
<1>2. h.status[p] = s /\ \A q \in Procs : q # p => h.status[q] = g.status[q]
  BY <1>1 DEF GuiInv, Guis
<1>3. g.pwin \in Seq(WindowRecords) /\ g.store \in Seq(RowRecords)
  BY DEF GuiInv, Guis
<1>4. text \in Statuses
  BY DEF process_get_status_text, Statuses
<1> HIDE DEF h
<1>5. PICK k \in DOMAIN h.store :
        /\ h.store[k].pwin = i /\ find_by_process(h, p) = {k} /\ First({k}) = k
  <2>1. h \in Guis /\ RowsMatch(h.pwin, h.store) /\ OneEach(h.pwin) /\ Shows(h.pwin, i)
    BY <1>1 DEF GuiInv, RowInv, WindowInv
  <2>2. \E k \in DOMAIN h.store : /\ h.store[k].pwin = i
                                 /\ find_by_process(h, h.pwin[i].process) = {k}
                                 /\ First({k}) = k
    BY <2>1, RowFound
  <2>3. h.pwin[i].process = p
    BY <1>1
  <2> QED
    BY <2>2, <2>3
<1> DEFINE row == [g.store[k] EXCEPT !.text = text]
           R == [g.store EXCEPT ![k] = row]
<1>6. /\ row \in RowRecords /\ row.pwin = i /\ row.text = text
  <2>1. g.store[k] \in RowRecords
    BY <1>1, <1>3
  <2> QED
    BY <1>1, <1>4, <1>5, <2>1 DEF RowRecords
<1>7. /\ R \in Seq(RowRecords) /\ DOMAIN R = DOMAIN g.store /\ R[k] = row
      /\ \A j \in DOMAIN g.store : j # k => R[j] = g.store[j]
  BY <1>1, <1>3, <1>6, Replaced
<1>8. r = [h EXCEPT !.store = R]
  <2>1. h.status[h.pwin[h.store[k].pwin].process] = s
    BY <1>1, <1>2, <1>5
  <2>2. r = update_process(h, k)
    BY <1>5 DEF tree_status_changed_cb
  <2>3. r = [h EXCEPT !.store[k].text = text]
    BY <2>1, <2>2 DEF update_process
  <2> QED
    BY <1>1, <2>3
<1> HIDE DEF R, row, text, r
<1>9. /\ r \in Guis /\ r.pwin = g.pwin /\ r.store = R /\ r.handlers = g.handlers
      /\ r.toplevels = g.toplevels /\ r.shown = g.shown /\ r.fate = g.fate
      /\ r.status = h.status
  BY <1>1, <1>7, <1>8 DEF Guis
<1>10. \A j \in DOMAIN g.pwin : Shows(g.pwin, j) => g.pwin[j].process \in Procs
  <2>1. \A j \in DOMAIN g.pwin : g.pwin[j] \in WindowRecords
    BY <1>3
  <2> QED
    BY <2>1 DEF WindowRecords, Shows
<1>11. \A j \in DOMAIN g.pwin : Shows(g.pwin, j) /\ j # i => g.pwin[j].process \in Procs \ {p}
  BY <1>10 DEF GuiInv, WindowInv, OneEach, Shows
<1>12. RowsMatch(g.pwin, R)
  <2>1. RowsMatch(g.pwin, g.store) /\ \A j \in DOMAIN R : R[j].pwin = g.store[j].pwin
    BY <1>1, <1>5, <1>6, <1>7 DEF GuiInv, RowInv
  <2> QED
    BY <1>7, <2>1 DEF RowsMatch
<1>13. RowInv(g.pwin, R, h.status)
  <2>1. ASSUME NEW j \in DOMAIN R
        PROVE  R[j].text = process_get_status_text(h.status[g.pwin[R[j].pwin].process])
    <3>1. CASE j = k
      BY <1>2, <1>6, <1>7, <3>1 DEF text
    <3>2. CASE j # k
      <4>1. R[j] = g.store[j] /\ j \in DOMAIN g.store
        BY <1>7, <3>2
      <4>2. Shows(g.pwin, R[j].pwin) /\ R[j].pwin # i
        BY <1>1, <1>5, <1>6, <1>7, <1>12, <3>2 DEF RowsMatch
      <4>3. g.pwin[R[j].pwin].process \in Procs \ {p}
        BY <1>11, <4>2 DEF Shows
      <4>4. g.store[j].text = process_get_status_text(g.status[g.pwin[g.store[j].pwin].process])
        BY <4>1 DEF GuiInv, RowInv
      <4> QED
        BY <1>2, <4>1, <4>3, <4>4
    <3> QED
      BY <3>1, <3>2
  <2> QED
    BY <1>12, <2>1 DEF RowInv
<1>14. WindowInv(g.pwin, h.status)
  BY <1>2, <1>11 DEF GuiInv, WindowInv
<1>15. HandlerInv(g.pwin, g.handlers, h.status)
  <2>1. g.status[p] \notin Ends
    BY DEF GuiInv, WindowInv, Shows
  <2> QED
    BY <1>2, <2>1 DEF GuiInv, HandlerInv
<1>16. GuiInv(r)
  BY <1>9, <1>13, <1>14, <1>15 DEF GuiInv
<1> QED
  BY <1>1, <1>9, <1>16 DEF IsSet, r, h, Settled, Visible

\* Nothing shows the process: its status is all that changes.
LEMMA Unshown ==
  ASSUME NEW g, GuiInv(g), g.fate = "up", NEW p \in Procs, NEW s \in Statuses \ {"none"},
         \A j \in DOMAIN g.pwin : <<p, j>> \notin g.handlers
  PROVE  /\ IsSet(g, [g EXCEPT !.status[p] = s], p, s)
         /\ find_by_process([g EXCEPT !.status[p] = s], p) = {}
<1> DEFINE h == [g EXCEPT !.status[p] = s]
<1>1. /\ h \in Guis /\ h.pwin = g.pwin /\ h.store = g.store /\ h.handlers = g.handlers
      /\ h.toplevels = g.toplevels /\ h.shown = g.shown /\ h.fate = g.fate
      /\ h.status = [g.status EXCEPT ![p] = s]
  BY DEF GuiInv, Guis
<1>2. h.status[p] = s /\ \A q \in Procs : q # p => h.status[q] = g.status[q]
  BY <1>1 DEF GuiInv, Guis
<1> HIDE DEF h
<1>3. \A j \in DOMAIN g.pwin : Shows(g.pwin, j) => g.pwin[j].process \in Procs \ {p}
  <2>1. \A j \in DOMAIN g.pwin : g.pwin[j] \in WindowRecords
    BY DEF GuiInv, Guis
  <2> QED
    BY <2>1 DEF WindowRecords, Shows, GuiInv, HandlerInv
<1>4. RowInv(g.pwin, g.store, h.status)
  <2>1. RowInv(g.pwin, g.store, g.status)
    BY DEF GuiInv
  <2>2. \A k \in DOMAIN g.store : Shows(g.pwin, g.store[k].pwin)
    BY <2>1 DEF RowInv, RowsMatch
  <2>3. \A k \in DOMAIN g.store : g.pwin[g.store[k].pwin].process \in Procs \ {p}
    BY <1>3, <2>2 DEF Shows
  <2> QED
    BY <1>2, <2>1, <2>3 DEF RowInv
<1>5. WindowInv(g.pwin, h.status)
  BY <1>2, <1>3 DEF GuiInv, WindowInv
<1>6. HandlerInv(g.pwin, g.handlers, h.status)
  BY <1>2 DEF GuiInv, HandlerInv
<1>7. GuiInv(h)
  BY <1>1, <1>4, <1>5, <1>6 DEF GuiInv
<1>8. find_by_process(h, p) = {}
  BY <1>1, <1>3, NoRow DEF GuiInv, RowInv
<1> QED
  BY <1>1, <1>7, <1>8 DEF IsSet, h, Settled, Visible

\* The handlers of a process that has ended may lead to a window that was freed;
\* otherwise process_set_status keeps everything together.
LEMMA SetStatus ==
  ASSUME NEW g, GuiInv(g), g.fate = "up", NEW p \in Procs, NEW s \in Statuses \ {"none"}
  PROVE  LET r == process_set_status(g, p, s) IN
         \/ IsSet(g, r, p, s)
         \/ r \in Guis /\ r.fate = "crashed" /\ g.status[p] \in Ends
<1> DEFINE h == [g EXCEPT !.status[p] = s]
           i == WindowOf(h, p)
           w == IF Windowed(h, p) THEN status_changed_cb(h, p, i) ELSE h
           r == process_set_status(g, p, s)
<1>1. /\ h \in Guis /\ h.pwin = g.pwin /\ h.handlers = g.handlers /\ h.fate = "up"
      /\ h.status[p] = s
  BY DEF GuiInv, Guis
<1>2. CASE g.status[p] = s
  <2>1. r = g
    BY <1>2 DEF process_set_status
  <2>2. g.status = [g.status EXCEPT ![p] = s]
    BY <1>2 DEF GuiInv, Guis
  <2> QED
    BY <2>1, <2>2 DEF IsSet
<1>3. CASE g.status[p] # s /\ ~Windowed(h, p)
  <2>1. \A j \in DOMAIN g.pwin : <<p, j>> \notin g.handlers
    BY <1>1, <1>3 DEF Windowed
  <2>2. IsSet(g, h, p, s) /\ find_by_process(h, p) = {}
    BY <2>1, Unshown
  <2>3. r = IF <<p, Tree>> \in h.handlers /\ h.fate # "crashed"
            THEN tree_status_changed_cb(h, p) ELSE h
    BY <1>3 DEF process_set_status
  <2>4. tree_status_changed_cb(h, p) = h
    BY <2>2 DEF tree_status_changed_cb
  <2> QED
    BY <2>2, <2>3, <2>4
<1>4. CASE g.status[p] # s /\ Windowed(h, p)
  <2>1. i \in DOMAIN g.pwin /\ <<p, i>> \in g.handlers
    BY <1>1, <1>4 DEF Windowed, WindowOf
  <2>2. i # Tree
    BY <2>1 DEF GuiInv, Guis, Tree
  <2>3. r = IF <<p, Tree>> \in w.handlers /\ w.fate # "crashed"
            THEN tree_status_changed_cb(w, p) ELSE w
    BY <1>4 DEF process_set_status
  <2>4. w = status_changed_cb(h, p, i)
    BY <1>4
  <2> HIDE DEF i, w
  <2>5. CASE g.pwin[i].freed
    <3>1. w = Crash(h)
      BY <1>1, <2>4, <2>5 DEF status_changed_cb
    <3>2. w \in Guis /\ w.fate = "crashed"
      BY <1>1, <3>1 DEF Crash, Guis
    <3>3. g.status[p] \in Ends
      BY <2>1, <2>2, <2>5 DEF GuiInv, HandlerInv
    <3> QED
      BY <2>3, <3>2, <3>3
  <2>6. CASE ~g.pwin[i].freed
    <3>1. Shows(g.pwin, i) /\ g.pwin[i].process = p
      BY <2>1, <2>2, <2>6, ShownIs DEF GuiInv
    <3>2. CASE s \in Ends
      <4>1. /\ GuiInv(w) /\ Len(w.pwin) = Len(g.pwin)
            /\ <<p, Tree>> \notin w.handlers
            /\ w.status = [g.status EXCEPT ![p] = s]
            /\ w.fate \in {"up", "quitting"}
            /\ Settled(g) => Settled(w)
        BY <2>4, <3>1, <3>2, Ending
      <4> QED
        BY <2>3, <4>1 DEF IsSet
    <3>3. CASE s \notin Ends
      <4>1. w = h
        BY <1>1, <2>4, <2>6, <3>3 DEF status_changed_cb, Ends
      <4>2. <<p, Tree>> \in g.handlers
        BY <2>1, <3>1 DEF GuiInv, HandlerInv
      <4>3. r = tree_status_changed_cb(h, p)
        BY <1>1, <2>3, <4>1, <4>2
      <4>4. IsSet(g, r, p, s)
        BY <3>1, <3>3, <4>3, Restated
      <4> QED
        BY <4>4
    <3> QED
      BY <3>2, <3>3
  <2> QED
    BY <2>5, <2>6
<1> QED
  BY <1>2, <1>3, <1>4

-----------------------------------------------------------------------------
(* New windows, and processes in them.                                     *)

IsNew(g, n) ==
  /\ GuiInv(n) /\ Len(n.pwin) = Len(g.pwin) + 1
  /\ ~n.pwin[Len(g.pwin) + 1].freed /\ n.pwin[Len(g.pwin) + 1].process = NULL
  /\ n.toplevels = Append(g.toplevels, Len(g.pwin) + 1) /\ n.shown = g.shown
  /\ n.handlers = g.handlers /\ n.status = g.status /\ n.fate = g.fate
  /\ Settled(g) => Settled(n)

LEMMA NewWindow ==
  ASSUME NEW g, GuiInv(g)
  PROVE  IsNew(g, process_window_new(g))
<1> DEFINE w == [process |-> NULL, timer |-> FALSE, report |-> FALSE, freed |-> FALSE]
           i == Len(g.pwin) + 1
           V == Append(g.pwin, w)
           U == Append(g.toplevels, i)
           n == process_window_new(g)
<1>1. g.pwin \in Seq(WindowRecords) /\ g.toplevels \in Seq(Nat)
  BY DEF GuiInv, Guis
<1>2. w \in WindowRecords /\ i \in Nat
  BY <1>1 DEF WindowRecords
<1>3. /\ V \in Seq(WindowRecords) /\ Len(V) = Len(g.pwin) + 1
      /\ DOMAIN V = DOMAIN g.pwin \cup {i} /\ i \notin DOMAIN g.pwin
      /\ \A k \in DOMAIN g.pwin : V[k] = g.pwin[k]
      /\ V[i] = w
  BY <1>1, <1>2, Appended
<1>4. /\ U \in Seq(Nat) /\ U # <<>> /\ Len(U) = Len(g.toplevels) + 1
      /\ DOMAIN U = DOMAIN g.toplevels \cup {Len(g.toplevels) + 1}
      /\ \A k \in DOMAIN g.toplevels : U[k] = g.toplevels[k]
      /\ U[Len(g.toplevels) + 1] = i
      /\ g.toplevels # <<>> => Head(U) = Head(g.toplevels)
  BY <1>1, <1>2, Appended
<1>5. n = [g EXCEPT !.pwin = V, !.toplevels = U]
  BY DEF process_window_new
<1>6. w.process = NULL /\ w.timer = FALSE /\ w.report = FALSE /\ w.freed = FALSE
  OBVIOUS
<1> HIDE DEF V, U, n, w
<1>7. /\ n \in Guis /\ n.pwin = V /\ n.toplevels = U /\ n.shown = g.shown /\ n.store = g.store
      /\ n.handlers = g.handlers /\ n.status = g.status /\ n.fate = g.fate
  BY <1>3, <1>4, <1>5 DEF GuiInv, Guis
<1>8. ~Shows(V, i) /\ \A k \in DOMAIN g.pwin : Shows(V, k) = Shows(g.pwin, k)
  BY <1>3, <1>6 DEF Shows
<1>9. RowInv(V, g.store, g.status)
  <2>1. \A k \in DOMAIN g.store : g.store[k].pwin \in DOMAIN g.pwin
    BY DEF GuiInv, RowInv, RowsMatch, Shows
  <2> QED
    BY <1>3, <1>8, <2>1 DEF GuiInv, RowInv, RowsMatch
<1>10. WindowInv(V, g.status)
  <2>1. OneEach(V)
    BY <1>3, <1>8 DEF GuiInv, WindowInv, OneEach
  <2>2. ASSUME NEW j \in DOMAIN V
        PROVE  /\ V[j].timer = Shows(V, j)
               /\ ~V[j].freed /\ V[j].process = NULL => ~V[j].report
               /\ Shows(V, j) => g.status[V[j].process] \notin {"none"} \cup Ends
    <3>1. CASE j = i
      <4>1. Shows(V, i) = FALSE
        BY <1>8 DEF Shows
      <4> QED
        BY <1>3, <1>6, <3>1, <4>1
    <3>2. CASE j # i
      BY <1>3, <1>8, <3>2 DEF GuiInv, WindowInv
    <3> QED
      BY <3>1, <3>2
  <2> QED
    BY <2>1, <2>2, Zenon DEF WindowInv
<1>11. HandlerInv(V, g.handlers, g.status)
  <2>1. g.handlers \subseteq Procs \X ({Tree} \cup DOMAIN g.pwin)
    BY DEF GuiInv, HandlerInv
  <2>2. \A p \in Procs : <<p, i>> \in g.handlers => i = Tree
    BY <1>3, <2>1
  <2>3. i # Tree
    BY <1>1 DEF Tree
  <2> QED
    BY <1>3, <1>8, <2>1, <2>2, <2>3 DEF GuiInv, HandlerInv
<1>12. ToplevelInv(V, U)
  BY <1>1, <1>3, <1>4 DEF GuiInv, ToplevelInv
<1>13. GuiInv(n)
  BY <1>7, <1>9, <1>10, <1>11, <1>12 DEF GuiInv
<1>14. Settled(g) => Settled(n)
  BY <1>4, <1>7 DEF Settled, Visible
<1> QED
  BY <1>3, <1>6, <1>7, <1>13, <1>14 DEF IsNew, n, U

IsInit(g, r) ==
  /\ GuiInv(r) /\ Len(r.pwin) = Len(g.pwin) /\ r.shown = g.shown
  /\ r.status = g.status /\ r.fate = g.fate
  /\ Settled(g) => Settled(r)

\* A process that nothing is connected to gets a window that shows none, and a row.
LEMMA InitProcess ==
  ASSUME NEW g, GuiInv(g), NEW p \in Procs, NEW i, i \in DOMAIN g.pwin,
         ~g.pwin[i].freed, g.pwin[i].process = NULL,
         g.status[p] \notin {"none"} \cup Ends,
         \A j \in {Tree} \cup DOMAIN g.pwin : <<p, j>> \notin g.handlers
  PROVE  IsInit(g, init_process(g, i, p))
<1> DEFINE w == [g.pwin[i] EXCEPT !.process = p, !.timer = TRUE]
           V == [g.pwin EXCEPT ![i] = w]
           a == [g EXCEPT !.pwin = V, !.handlers = @ \cup {<<p, i>>}]
           e == ensure_tree_window(a)
           first == [pwin |-> i, parent |-> Tree, text |-> ""]
           F == Append(g.store, first)
           text == process_get_status_text(g.status[p])
           row == [first EXCEPT !.text = text]
           m == Len(g.store) + 1
           R == [F EXCEPT ![m] = row]
           r == init_process(g, i, p)
<1>1. /\ g \in Guis /\ g.pwin \in Seq(WindowRecords) /\ g.store \in Seq(RowRecords)
      /\ g.status \in [Procs -> Statuses] /\ i \in Nat
  BY DEF GuiInv, Guis
<1>2. w \in WindowRecords /\ w.process = p /\ w.timer = TRUE /\ w.freed = FALSE
  <2>1. g.pwin[i] \in WindowRecords
    BY <1>1
  <2> QED
    BY <2>1 DEF WindowRecords
<1>3. /\ V \in Seq(WindowRecords) /\ SameBut(g.pwin, V, i) /\ V[i] = w
      /\ Len(V) = Len(g.pwin) /\ DOMAIN V = DOMAIN g.pwin
  BY <1>1, <1>2, Replaced DEF SameBut
<1>4. init_process(g, i, p) = tree_window_add(a, i)
  BY <1>1 DEF init_process, Guis
<1> HIDE DEF w, V
<1>5. /\ a \in Guis /\ a.pwin = V /\ a.handlers = g.handlers \cup {<<p, i>>}
      /\ a.shown = g.shown /\ a.store = g.store /\ a.toplevels = g.toplevels
      /\ a.status = g.status /\ a.fate = g.fate
  <2> DEFINE H == g.handlers \cup {<<p, i>>}
  <2>1. H \in SUBSET (Procs \X Nat)
    BY <1>1 DEF Guis
  <2>2. a = [g EXCEPT !.pwin = V, !.handlers = H]
    BY <1>1 DEF Guis, a
  <2> HIDE DEF H, a
  <2>3. /\ a \in Guis /\ a.pwin = V /\ a.handlers = H
        /\ a.shown = g.shown /\ a.store = g.store /\ a.toplevels = g.toplevels
        /\ a.status = g.status /\ a.fate = g.fate
    BY <1>1, <1>3, <2>1, <2>2 DEF Guis
  <2> QED
    BY <2>3 DEF H
<1> HIDE DEF a
<1>6. /\ e \in Guis /\ e.pwin = V /\ e.shown = g.shown /\ e.store = g.store
      /\ e.handlers = g.handlers \cup {<<p, i>>} /\ e.status = g.status /\ e.fate = g.fate
      /\ Grows(g.toplevels, e.toplevels) /\ e.toplevels # <<>>
  BY <1>5, EnsureTree
<1> HIDE DEF e
<1>7. \A j \in DOMAIN g.pwin : Shows(g.pwin, j) => j # i /\ g.pwin[j].process # p
  BY DEF GuiInv, HandlerInv, Shows
<1>8. find_by_process(e, p) = {}
  <2>1. \A k \in DOMAIN g.store : Shows(g.pwin, g.store[k].pwin)
    BY DEF GuiInv, RowInv, RowsMatch
  <2> QED
    BY <1>3, <1>6, <1>7, <2>1 DEF find_by_process, Shows, SameBut
<1>first. first.pwin = i /\ row.pwin = i /\ row.text = text
  OBVIOUS
<1>9. first \in RowRecords /\ row \in RowRecords /\ text \in Statuses
  BY <1>1 DEF RowRecords, Tree, Statuses, process_get_status_text
<1> HIDE DEF first, row
<1>10. /\ F \in Seq(RowRecords) /\ Len(F) = m
       /\ DOMAIN F = DOMAIN g.store \cup {m} /\ m \notin DOMAIN g.store
       /\ \A k \in DOMAIN g.store : F[k] = g.store[k]
       /\ F[m] = first
  BY <1>1, <1>9, Appended
<1>11. /\ R \in Seq(RowRecords) /\ DOMAIN R = DOMAIN F /\ R[m] = row
       /\ \A k \in DOMAIN F : k # m => R[k] = F[k]
  BY <1>9, <1>10, Replaced
<1>12. r = [e EXCEPT !.store = R, !.handlers = @ \cup {<<p, Tree>>}]
  <2> DEFINE H == e.handlers \cup {<<p, Tree>>}
             added == [e EXCEPT !.store = F, !.handlers = H]
  <2>1. e.pwin[i].process = p
    BY <1>2, <1>3, <1>6
  <2>2. r = update_process(added, Len(added.store))
    <3> DEFINE parent == IF find_by_process(e, p) = {} THEN Tree
                         ELSE e.store[First(find_by_process(e, p))].pwin
               more == [e EXCEPT !.store = Append(@, [pwin |-> i, parent |-> parent, text |-> ""]),
                                 !.handlers = @ \cup {<<p, Tree>>}]
    <3>1. tree_window_add(a, i) = update_process(more, Len(more.store))
      BY <2>1, Zenon DEF tree_window_add, e
    <3>2. parent = Tree
      BY <1>8
    <3>3. more = added
      BY <1>6, <3>2 DEF Guis, F, first
    <3> QED
      BY <1>4, <3>1, <3>3
  <2> HIDE DEF H, F
  <2>3. /\ added.store = F /\ added.pwin = e.pwin /\ added.status = g.status
        /\ Len(added.store) = m
    BY <1>6, <1>10 DEF Guis
  <2> HIDE DEF added
  <2>4. added.store[m].pwin = i
    BY <1>first, <1>10, <2>3
  <2>5. r = [added EXCEPT !.store[m].text = text]
    BY <2>1, <2>2, <2>3, <2>4 DEF update_process
  <2>6. [F[m] EXCEPT !.text = text] = row
    BY <1>10 DEF row
  <2>7. [F EXCEPT ![m].text = text] = R
    BY <1>10, <2>6
  <2>8. r = [added EXCEPT !.store = R]
    BY <2>3, <2>5, <2>7
  <2> QED
    BY <1>6, <2>8 DEF Guis, added, H
<1> HIDE DEF r, R, F
<1>13. /\ r \in Guis /\ r.pwin = V /\ r.shown = g.shown /\ r.store = R
       /\ r.handlers = g.handlers \cup {<<p, i>>, <<p, Tree>>} /\ r.status = g.status
       /\ r.fate = g.fate /\ r.toplevels = e.toplevels
  <2> DEFINE H == e.handlers \cup {<<p, Tree>>}
  <2>1. H \in SUBSET (Procs \X Nat) /\ H = g.handlers \cup {<<p, i>>, <<p, Tree>>}
    BY <1>1, <1>6 DEF Guis, Tree
  <2>2. r = [e EXCEPT !.store = R, !.handlers = H]
    BY <1>6, <1>12 DEF Guis
  <2> HIDE DEF H
  <2> QED
    BY <1>6, <1>11, <2>1, <2>2 DEF Guis
<1>14. /\ Shows(V, i) = TRUE
       /\ \A j \in DOMAIN g.pwin : j # i => V[j] = g.pwin[j] /\ Shows(V, j) = Shows(g.pwin, j)
  BY ControlAssumption, <1>2, <1>3 DEF Shows, SameBut
<1>15. RowInv(V, R, g.status)
  <2>1. \A k \in DOMAIN g.store : R[k] = g.store[k] /\ k # m /\ k \in DOMAIN R
    BY <1>10, <1>11
  <2>2. \A k \in DOMAIN g.store :
          /\ Shows(g.pwin, g.store[k].pwin)
          /\ g.store[k].text = process_get_status_text(g.status[g.pwin[g.store[k].pwin].process])
    BY DEF GuiInv, RowInv, RowsMatch
  <2>3. \A k \in DOMAIN g.store : g.store[k].pwin # i /\ g.store[k].pwin \in DOMAIN g.pwin
    BY <1>7, <2>2 DEF Shows
  <2>4. \A k \in DOMAIN R : k = m \/ k \in DOMAIN g.store
    BY <1>10, <1>11
  <2>5. row.pwin = i /\ row.text = text
    BY <1>first
  <2>6. RowsMatch(V, R)
    <3>1. \A k \in DOMAIN R : Shows(V, R[k].pwin)
      BY <1>11, <1>14, <2>1, <2>2, <2>3, <2>4, <2>5
    <3>2. \A j \in DOMAIN V : Shows(V, j) => \E k \in DOMAIN R : R[k].pwin = j
      <4>1. m \in DOMAIN R
        BY <1>10, <1>11
      <4>2. \A j \in DOMAIN g.pwin : Shows(g.pwin, j) => \E k \in DOMAIN g.store : g.store[k].pwin = j
        BY DEF GuiInv, RowInv, RowsMatch
      <4> QED
        BY <1>3, <1>11, <1>14, <2>1, <2>5, <4>1, <4>2
    <3>3. \A j, k \in DOMAIN R : R[j].pwin = R[k].pwin => j = k
      <4>1. \A j, k \in DOMAIN g.store : g.store[j].pwin = g.store[k].pwin => j = k
        BY DEF GuiInv, RowInv, RowsMatch
      <4> QED
        BY <1>11, <2>1, <2>3, <2>4, <2>5, <4>1
    <3> QED
      BY <3>1, <3>2, <3>3 DEF RowsMatch
  <2>7. ASSUME NEW k \in DOMAIN R
        PROVE  R[k].text = process_get_status_text(g.status[V[R[k].pwin].process])
    <3>1. CASE k = m
      BY <1>2, <1>3, <1>11, <2>5, <3>1
    <3>2. CASE k \in DOMAIN g.store
      BY <1>14, <2>1, <2>2, <2>3, <3>2
    <3> QED
      BY <2>4, <3>1, <3>2
  <2> QED
    BY <2>6, <2>7 DEF RowInv
<1>16. WindowInv(V, g.status)
  <2>1. OneEach(V)
    BY <1>2, <1>3, <1>7, <1>14 DEF GuiInv, WindowInv, OneEach
  <2>2. ASSUME NEW j \in DOMAIN V
        PROVE  /\ V[j].timer = Shows(V, j)
               /\ ~V[j].freed /\ V[j].process = NULL => ~V[j].report
               /\ Shows(V, j) => g.status[V[j].process] \notin {"none"} \cup Ends
    <3>1. CASE j = i
      BY ControlAssumption, <1>2, <1>3, <1>14, <3>1
    <3>2. CASE j # i
      BY <1>3, <1>14, <3>2 DEF GuiInv, WindowInv
    <3> QED
      BY <3>1, <3>2
  <2> QED
    BY <2>1, <2>2, Zenon DEF WindowInv
<1>17. HandlerInv(V, r.handlers, g.status)
  <2>1. r.handlers \subseteq Procs \X ({Tree} \cup DOMAIN V)
    BY <1>3, <1>13 DEF GuiInv, HandlerInv
  <2>2. ASSUME NEW q \in Procs, NEW j \in {Tree} \cup DOMAIN V, <<q, j>> \in r.handlers
        PROVE  /\ g.status[q] # "none"
               /\ j # Tree => IF V[j].freed THEN g.status[q] \in Ends ELSE V[j].process = q
    <3>1. CASE <<q, j>> \in g.handlers
      <4>1. /\ g.status[q] # "none"
            /\ j # Tree => IF g.pwin[j].freed THEN g.status[q] \in Ends ELSE g.pwin[j].process = q
        BY <1>3, <3>1 DEF GuiInv, HandlerInv
      <4>2. j # i
        BY ControlAssumption, <1>3, <4>1 DEF GuiInv, Guis, Tree
      <4> QED
        BY <1>3, <1>14, <4>1, <4>2
    <3>2. CASE <<q, j>> \notin g.handlers
      <4>1. q = p /\ j \in {i, Tree}
        BY <1>13, <2>2, <3>2
      <4> QED
        BY <1>2, <1>3, <4>1
    <3> QED
      BY <3>1, <3>2
  <2>3. ASSUME NEW j \in DOMAIN V, Shows(V, j)
        PROVE  {<<V[j].process, j>>, <<V[j].process, Tree>>} \subseteq r.handlers
    <3>1. CASE j = i
      BY <1>2, <1>3, <1>13, <3>1
    <3>2. CASE j # i
      BY <1>3, <1>13, <1>14, <2>3, <3>2 DEF GuiInv, HandlerInv
    <3> QED
      BY <3>1, <3>2
  <2> QED
    BY <2>1, <2>2, <2>3 DEF HandlerInv
<1>18. ToplevelInv(V, e.toplevels)
  BY <1>3, <1>6, <1>14 DEF GuiInv, ToplevelInv, Grows
<1>19. GuiInv(r)
  BY <1>13, <1>15, <1>16, <1>17, <1>18 DEF GuiInv
<1>20. Settled(g) => Settled(r)
  BY <1>6, <1>13 DEF Settled, Visible, Grows
<1> QED
  BY <1>3, <1>13, <1>19, <1>20 DEF IsInit, r

\* generate_cb and process_window_reset: a report comes and goes.
LEMMA SetReport ==
  ASSUME NEW g, GuiInv(g), NEW i \in DOMAIN g.pwin, NEW b \in BOOLEAN,
         b => g.pwin[i].process # NULL
  PROVE  LET r == [g EXCEPT !.pwin[i].report = b]
         IN IsInit(g, r)
<1> DEFINE w == [g.pwin[i] EXCEPT !.report = b]
           V == [g.pwin EXCEPT ![i] = w]
           r == [g EXCEPT !.pwin[i].report = b]
<1>1. g \in Guis /\ g.pwin \in Seq(WindowRecords)
  BY DEF GuiInv, Guis
<1>2. /\ w \in WindowRecords /\ w.process = g.pwin[i].process /\ w.timer = g.pwin[i].timer
      /\ w.freed = g.pwin[i].freed /\ w.report = b
  <2>1. g.pwin[i] \in WindowRecords
    BY <1>1
  <2> QED
    BY <2>1 DEF WindowRecords
<1>3. /\ V \in Seq(WindowRecords) /\ SameBut(g.pwin, V, i) /\ V[i] = w
      /\ Len(V) = Len(g.pwin) /\ DOMAIN V = DOMAIN g.pwin
  BY <1>1, <1>2, Replaced DEF SameBut
<1>4. r = [g EXCEPT !.pwin = V]
  BY <1>1 DEF Guis
<1> HIDE DEF w, V, r
<1>5. /\ r \in Guis /\ r.pwin = V /\ r.handlers = g.handlers
      /\ r.shown = g.shown /\ r.store = g.store /\ r.toplevels = g.toplevels
      /\ r.status = g.status /\ r.fate = g.fate
  BY <1>1, <1>3, <1>4 DEF Guis
<1>6. \A j \in DOMAIN g.pwin :
        /\ V[j].process = g.pwin[j].process /\ V[j].freed = g.pwin[j].freed
        /\ V[j].timer = g.pwin[j].timer /\ Shows(V, j) = Shows(g.pwin, j)
  BY <1>2, <1>3 DEF SameBut, Shows
<1>7. RowInv(V, g.store, g.status)
  <2>1. \A k \in DOMAIN g.store : g.store[k].pwin \in DOMAIN g.pwin
    BY DEF GuiInv, RowInv, RowsMatch, Shows
  <2> QED
    BY <1>3, <1>6, <2>1 DEF GuiInv, RowInv, RowsMatch
<1>8. WindowInv(V, g.status)
  <2>1. \A j \in DOMAIN V : ~V[j].freed /\ V[j].process = NULL => ~V[j].report
    BY <1>2, <1>3, <1>6 DEF SameBut, GuiInv, WindowInv
  <2> QED
    BY <1>3, <1>6, <2>1 DEF GuiInv, WindowInv, OneEach
<1>9. HandlerInv(V, g.handlers, g.status)
  BY <1>3, <1>6 DEF GuiInv, HandlerInv, Tree
<1>10. ToplevelInv(V, g.toplevels)
  BY <1>3, <1>6 DEF GuiInv, ToplevelInv
<1>11. GuiInv(r)
  BY <1>5, <1>7, <1>8, <1>9, <1>10 DEF GuiInv
<1> QED
  BY <1>3, <1>5, <1>11 DEF IsInit, Settled, Visible, r

-----------------------------------------------------------------------------
(* From functions to steps.                                                *)

\* What every function that memprof survives does with the windows.
Follows(g, r) ==
  /\ GuiInv(r) /\ r.fate \in {"up", "quitting"} /\ Len(r.pwin) >= Len(g.pwin)
  /\ Settled(g) => Settled(r)
  /\ \A q \in Procs : g.status[q] # "none" => r.status[q] # "none"

\* The two ways in which memprof comes to use a window that is gone.
Excused == prompt # NoPrompt \/ \E p \in Procs : gui.status[p] = "DETACHED"

MayFollow(g) ==
  \/ g \in Guis /\ g.fate = "crashed" /\ Excused
  \/ Follows(gui, g) /\ Len(g.pwin) <= MaxWindows

\* What a step has to leave behind.
Stepped == IInv' /\ (memprof # "crashed" /\ memprof' = "crashed" => Excused)

LEMMA Lengths == ASSUME NEW g, GuiInv(g)
                 PROVE  Len(g.pwin) \in Nat /\ DOMAIN g.pwin = 1 .. Len(g.pwin)
  BY DEF GuiInv, Guis

LEMMA SetFollows ==
  ASSUME NEW g, GuiInv(g), NEW r, NEW p \in Procs, NEW s \in Statuses \ {"none"}, IsSet(g, r, p, s)
  PROVE  Follows(g, r)
<1>1. \A q \in Procs : r.status[q] = IF q = p THEN s ELSE g.status[q]
  BY DEF IsSet, GuiInv, Guis
<1>2. Len(r.pwin) >= Len(g.pwin)
  BY Lengths DEF IsSet
<1> QED
  BY <1>1, <1>2 DEF IsSet, Follows

LEMMA NewFollows ==
  ASSUME NEW g, GuiInv(g), g.fate \in {"up", "quitting"}, NEW r, IsNew(g, r)
  PROVE  Follows(g, r)
<1>1. Len(r.pwin) >= Len(g.pwin)
  BY Lengths DEF IsNew
<1> QED
  BY <1>1 DEF IsNew, Follows

LEMMA InitFollows ==
  ASSUME NEW g, GuiInv(g), g.fate \in {"up", "quitting"}, NEW r, IsInit(g, r)
  PROVE  Follows(g, r)
<1>1. Len(r.pwin) >= Len(g.pwin)
  BY Lengths DEF IsInit
<1> QED
  BY <1>1 DEF IsInit, Follows

LEMMA FollowsOn ==
  ASSUME NEW g, GuiInv(g), NEW r, Follows(g, r), NEW t, Follows(r, t)
  PROVE  Follows(g, t)
<1>1. Len(t.pwin) >= Len(g.pwin)
  BY Lengths DEF Follows
<1> QED
  BY <1>1 DEF Follows

LEMMA FollowsSelf ==
  ASSUME NEW g, GuiInv(g), g.fate \in {"up", "quitting"}
  PROVE  Follows(g, g)
  BY Lengths DEF Follows

\* A window is shown; or hidden, and memprof may quit.
LEMMA ShowFollows ==
  ASSUME NEW g, GuiInv(g), g.fate \in {"up", "quitting"}, NEW w \in Nat
  PROVE  /\ Follows(g, process_window_show(g, w))
         /\ process_window_show(g, w).pwin = g.pwin
         /\ process_window_show(g, w).fate = g.fate
<1> DEFINE v == process_window_show(g, w)
<1>1. /\ v \in Guis /\ v.pwin = g.pwin /\ v.store = g.store
      /\ v.handlers = g.handlers /\ v.status = g.status /\ v.toplevels = g.toplevels
      /\ v.fate = g.fate /\ v.shown = g.shown \cup {w}
  BY ShowWindow DEF GuiInv
<1> HIDE DEF v
<1>2. GuiInv(v) /\ Len(v.pwin) >= Len(g.pwin)
  BY <1>1, Lengths DEF GuiInv
<1>3. Settled(g) => Settled(v)
  BY <1>1 DEF Settled, Visible
<1>4. Follows(g, v)
  BY <1>1, <1>2, <1>3 DEF Follows
<1> QED
  BY <1>1, <1>4 DEF v

LEMMA TreeFollows ==
  ASSUME NEW g, GuiInv(g), g.fate \in {"up", "quitting"}
  PROVE  LET t == tree_window_show(g) IN
         /\ Follows(g, t) /\ t.pwin = g.pwin /\ t.handlers = g.handlers
         /\ t.status = g.status /\ t.fate = g.fate
<1> DEFINE e == ensure_tree_window(g)
<1>1. /\ e \in Guis /\ e.pwin = g.pwin /\ e.shown = g.shown /\ e.store = g.store
      /\ e.handlers = g.handlers /\ e.status = g.status /\ e.fate = g.fate
      /\ Grows(g.toplevels, e.toplevels) /\ e.toplevels # <<>>
  BY EnsureTree DEF GuiInv
<1>2. tree_window_show(g) = process_window_show(e, Tree)
  BY DEF tree_window_show
<1> HIDE DEF e
<1>3. ToplevelInv(e.pwin, e.toplevels)
  BY <1>1 DEF GuiInv, ToplevelInv, Grows
<1>4. GuiInv(e) /\ Len(e.pwin) >= Len(g.pwin)
  BY <1>1, <1>3, Lengths DEF GuiInv
<1>5. Settled(g) => Settled(e)
  BY <1>1 DEF Settled, Visible, Grows
<1>6. Follows(g, e)
  BY <1>1, <1>4, <1>5 DEF Follows
<1>7. Tree \in Nat
  BY DEF Tree
<1> QED
  BY <1>1, <1>2, <1>4, <1>6, <1>7, ShowWindow, ShowFollows, FollowsOn

LEMMA HideFollows ==
  ASSUME NEW g, GuiInv(g), g.fate \in {"up", "quitting"}, NEW w
  PROVE  Follows(g, hide_and_check_quit(g, w)) /\ hide_and_check_quit(g, w).pwin = g.pwin
<1> DEFINE h == [g EXCEPT !.shown = @ \ {w}]
           c == check_quit(h)
<1>1. /\ h \in Guis /\ h.pwin = g.pwin /\ h.store = g.store
      /\ h.handlers = g.handlers /\ h.status = g.status /\ h.toplevels = g.toplevels
      /\ h.fate = g.fate
  BY DEF GuiInv, Guis
<1>2. hide_and_check_quit(g, w) = c
  BY DEF hide_and_check_quit
<1> HIDE DEF h
<1>3. /\ c \in Guis /\ c.pwin = g.pwin /\ c.store = g.store
      /\ c.handlers = g.handlers /\ c.status = g.status /\ c.toplevels = g.toplevels
      /\ c.fate \in {g.fate, "quitting"}
      /\ h.toplevels # <<>> => Settled(c)
  BY <1>1, CheckQuit
<1> HIDE DEF c
<1>4. GuiInv(c) /\ Len(c.pwin) >= Len(g.pwin)
  BY <1>3, Lengths DEF GuiInv
<1>5. Settled(g) => Settled(c)
  BY <1>1, <1>3 DEF Settled, Visible
<1> QED
  BY <1>2, <1>3, <1>4, <1>5 DEF Follows

\* The prompt after a step is about a window there is, or there is none.
PromptKept ==
  /\ prompt' \in [kind : {"none", "run", "detach", "kill", "menu"}, win : Nat]
  /\ prompt'.kind = "none" => prompt'.win = Tree
  /\ prompt'.kind # "none" => prompt'.win \in DOMAIN gui.pwin
  /\ memprof' = "crashed" => prompt' = NoPrompt

LEMMA NoWindowsInv ==
  /\ GuiInv(NoWindows) /\ NoWindows.fate = "up" /\ Len(NoWindows.pwin) = 0
  /\ NoPrompt \in [kind : {"none", "run", "detach", "kill", "menu"}, win : Nat]
  /\ NoPrompt.kind = "none" /\ NoPrompt.win = Tree
<1> DEFINE g == NoWindows
<1>1. /\ g \in Guis /\ g.pwin = <<>> /\ g.store = <<>> /\ g.toplevels = <<>>
      /\ g.handlers = {} /\ g.fate = "up"
  BY DEF NoWindows, Guis, Statuses
<1> HIDE DEF g
<1>2. RowInv(g.pwin, g.store, g.status)
  BY <1>1 DEF RowInv, RowsMatch
<1>3. WindowInv(g.pwin, g.status)
  BY <1>1 DEF WindowInv, OneEach
<1>4. HandlerInv(g.pwin, g.handlers, g.status)
  BY <1>1 DEF HandlerInv
<1>5. ToplevelInv(g.pwin, g.toplevels)
  BY <1>1 DEF ToplevelInv
<1>6. /\ NoPrompt \in [kind : {"none", "run", "detach", "kill", "menu"}, win : Nat]
      /\ NoPrompt.kind = "none" /\ NoPrompt.win = Tree
  BY DEF NoPrompt, Tree
<1> QED
  BY <1>1, <1>2, <1>3, <1>4, <1>5, <1>6 DEF GuiInv, g

LEMMA BecomesKeeps ==
  ASSUME GuiStateInv, memprof \in Running, NEW g, MayFollow(g), Becomes(g), PromptKept
  PROVE  /\ GuiStateInv'
         /\ memprof' \in {memprof, "quitting", "crashed"}
         /\ memprof' = "crashed" => Excused
         /\ memprof' # "crashed" =>
              \A q \in Procs : gui.status[q] # "none" => gui'.status[q] # "none"
<1>1. /\ GuiInv(gui) /\ gui.fate = "up" /\ Len(gui.pwin) <= MaxWindows
      /\ memprof = "up" => Visible(gui)
  BY DEF GuiStateInv
<1>2. memprof # "crashed" /\ memprof \in {"up", "quitting"}
  BY DEF Running
<1>3. CASE g.fate = "crashed"
  <2>1. gui' = NoWindows /\ memprof' = "crashed" /\ prompt' = NoPrompt
    BY <1>3 DEF Becomes, PromptKept
  <2>2. Excused
    BY <1>3 DEF MayFollow, Follows
  <2>3. GuiStateInv'
    BY <2>1, NoWindowsInv, WindowsAssumption DEF GuiStateInv, PromptInv
  <2> QED
    BY <2>1, <2>2, <2>3
<1>4. CASE g.fate # "crashed"
  <2> DEFINE h == [g EXCEPT !.fate = "up"]
  <2>1. Follows(gui, g) /\ Len(g.pwin) <= MaxWindows /\ g.fate \in {"up", "quitting"}
    BY <1>4 DEF MayFollow, Follows
  <2>2. gui' = h /\ memprof' = IF g.fate = "quitting" THEN "quitting" ELSE memprof
    BY <1>4, <2>1 DEF Becomes
  <2>3. /\ h \in Guis /\ h.pwin = g.pwin /\ h.store = g.store /\ h.toplevels = g.toplevels
        /\ h.handlers = g.handlers /\ h.status = g.status /\ h.shown = g.shown /\ h.fate = "up"
    BY <2>1 DEF Follows, GuiInv, Guis
  <2> HIDE DEF h
  <2>4. GuiInv(h)
    BY <2>1, <2>3 DEF Follows, GuiInv
  <2>5. memprof' = "up" => Visible(h)
    <3>1. memprof' = "up" => g.fate = "up" /\ Visible(gui)
      BY <1>1, <2>1, <2>2
    <3>2. Settled(gui) => Settled(g)
      BY <2>1 DEF Follows
    <3> QED
      BY <2>3, <3>1, <3>2 DEF Settled, Visible
  <2>6. PromptInv'
    <3>1. DOMAIN gui.pwin \subseteq DOMAIN h.pwin
      BY <1>1, <2>1, <2>3, Lengths DEF Follows
    <3> QED
      BY <2>2, <3>1 DEF PromptKept, PromptInv
  <2>7. memprof' \in Running
    BY <1>2, <2>2 DEF Running
  <2>8. GuiStateInv'
    BY <2>1, <2>2, <2>3, <2>4, <2>5, <2>6, <2>7 DEF GuiStateInv
  <2>9. \A q \in Procs : gui.status[q] # "none" => gui'.status[q] # "none"
    BY <2>1, <2>2, <2>3 DEF Follows
  <2> QED
    BY <1>2, <2>2, <2>8, <2>9
<1> QED
  BY <1>3, <1>4

\* A step of the windows that leaves what Control has alone.
LEMMA OnlyWindowsKeeps ==
  ASSUME IInv, memprof \in Running, NEW g, MayFollow(g), OnlyWindows(g), PromptKept
  PROVE  Stepped
<1>1. /\ GuiStateInv'
      /\ memprof' \in {memprof, "quitting", "crashed"}
      /\ memprof' = "crashed" => Excused
      /\ memprof' # "crashed" =>
           \A q \in Procs : gui.status[q] # "none" => gui'.status[q] # "none"
  BY BecomesKeeps DEF IInv, OnlyWindows
<1>2. UNCHANGED <<sockets, socket_path, retry_count, socket_paths, term, child>>
  BY DEF OnlyWindows, bootVars
<1>3. memprof' \in Running \cup {"crashed"} /\ memprof' # "exited"
  BY <1>1 DEF Running
<1>4. ControlTypeOK'
  BY <1>2, <1>3 DEF IInv, ControlInv, ControlTypeOK, Ended
<1>5. ControlInv'
  BY <1>1, <1>2, <1>3, <1>4 DEF IInv, ControlInv, CleanExit, Running, Booting, Ended
<1> QED
  BY <1>1, <1>5 DEF IInv, Stepped

\* A callback of a process, in the main loop or in a dialog's.
LEMMA EventKeeps ==
  ASSUME IInv, NEW g, MayFollow(g), Event(g)
  PROVE  Stepped
<1>1. memprof \in Running /\ Prompts(IF Orphaned(g) THEN NoPrompt ELSE prompt)
  BY DEF Event
<1>2. PromptInv
  BY DEF IInv, GuiStateInv
<1>3. PromptKept
  <2>1. prompt' \in {prompt, NoPrompt} /\ (memprof' = "crashed" => prompt' = NoPrompt)
    BY <1>1 DEF Prompts
  <2> QED
    BY <1>2, <2>1, NoWindowsInv DEF PromptInv, PromptKept
<1>4. CASE OnlyWindows(g)
  BY <1>1, <1>3, <1>4, OnlyWindowsKeeps
<1>5. CASE Orphaned(g) /\ OnlyWindows(Crash(g))
  <2>1. g \in Guis
    BY DEF MayFollow, Follows, GuiInv
  <2>2. Crash(g) \in Guis /\ Crash(g).fate = "crashed"
    BY <2>1 DEF Crash, Guis
  <2>3. Excused
    BY <1>5, NoWindowsInv DEF Orphaned, Excused
  <2>4. MayFollow(Crash(g))
    BY <2>2, <2>3 DEF MayFollow
  <2> QED
    BY <1>1, <1>3, <1>5, <2>4, OnlyWindowsKeeps
<1> QED
  BY <1>4, <1>5 DEF Event

\* What the user does to the windows, and what he answers.
LEMMA ClickKeeps ==
  ASSUME IInv, NEW g, Follows(gui, g), Len(g.pwin) <= MaxWindows, Click(g)
  PROVE  Stepped
<1>1. memprof \in Running /\ prompt = NoPrompt /\ prompt' = NoPrompt /\ OnlyWindows(g)
  BY DEF Click, Running
<1>2. MayFollow(g) /\ PromptKept
  BY <1>1, NoWindowsInv DEF MayFollow, PromptKept
<1> QED
  BY <1>1, <1>2, OnlyWindowsKeeps

LEMMA AnswersKeeps ==
  ASSUME IInv, memprof \in Running, NEW g, MayFollow(g), Answers(g)
  PROVE  Stepped
<1>1. prompt' = NoPrompt /\ OnlyWindows(g)
  BY DEF Answers
<1>2. PromptKept
  BY <1>1, NoWindowsInv DEF PromptKept
<1> QED
  BY <1>1, <1>2, OnlyWindowsKeeps

\* A dialog or a menu opens, about a window.
LEMMA AsksKeeps ==
  ASSUME IInv, memprof \in Running, NEW i \in DOMAIN gui.pwin,
         NEW kind \in {"run", "detach", "kill", "menu"},
         prompt' = [kind |-> kind, win |-> i], UNCHANGED <<gui, controlVars>>
  PROVE  Stepped
<1>1. i \in Nat
  BY Lengths DEF IInv, GuiStateInv
<1>2. PromptInv'
  BY <1>1 DEF PromptInv
<1>3. GuiStateInv'
  BY <1>2 DEF IInv, GuiStateInv, controlVars, Running
<1>4. ControlInv'
  BY DEF IInv, ControlInv, ControlTypeOK, CleanExit, controlVars, bootVars
<1> QED
  BY <1>3, <1>4 DEF IInv, Stepped, controlVars

-----------------------------------------------------------------------------
(* The steps of processes.                                                 *)

\* Nothing is connected to a process that is not there yet.
LEMMA FreshFree ==
  ASSUME NEW g, GuiInv(g), NEW p \in Procs, g.status[p] = "none"
  PROVE  \A j \in {Tree} \cup DOMAIN g.pwin : <<p, j>> \notin g.handlers
  BY DEF GuiInv, HandlerInv

\* process_set_status in a callback.
LEMMA StatusFollows ==
  ASSUME NEW g, Follows(gui, g), g.fate = "up", GuiInv(gui), Len(g.pwin) <= MaxWindows,
         NEW p \in Procs, NEW s \in Statuses \ {"none"}, g.status[p] \in Ends => Excused
  PROVE  MayFollow(process_set_status(g, p, s))
<1> DEFINE r == process_set_status(g, p, s)
<1>1. GuiInv(g)
  BY DEF Follows
<1>2. IsSet(g, r, p, s) \/ (r \in Guis /\ r.fate = "crashed" /\ g.status[p] \in Ends)
  BY <1>1, SetStatus
<1> HIDE DEF r
<1>3. ASSUME IsSet(g, r, p, s) PROVE MayFollow(r)
  <2>1. Follows(g, r) /\ Len(r.pwin) = Len(g.pwin)
    BY <1>1, <1>3, SetFollows DEF IsSet
  <2> QED
    BY <2>1, FollowsOn DEF MayFollow
<1>4. ASSUME r \in Guis /\ r.fate = "crashed" /\ g.status[p] \in Ends PROVE MayFollow(r)
  BY <1>4 DEF MayFollow
<1> QED
  BY <1>2, <1>3, <1>4 DEF r

\* A process that nothing is connected to yet gets a window of its own.
GetsWindow(g, r) ==
  /\ Follows(g, r) /\ Len(r.pwin) = Len(g.pwin) + 1
  /\ r.status = g.status /\ r.fate = g.fate

LEMMA CreatedFollows ==
  ASSUME NEW g, GuiInv(g), g.fate = "up", NEW p \in Procs,
         g.status[p] \notin {"none"} \cup Ends,
         \A j \in {Tree} \cup DOMAIN g.pwin : <<p, j>> \notin g.handlers
  PROVE  GetsWindow(g, process_created_cb(g, p))
<1> DEFINE n == process_window_new(g)
           i == Len(g.pwin) + 1
           m == init_process(n, i, p)
           t == tree_window_show(m)
<1>1. IsNew(g, n)
  BY NewWindow
<1> HIDE DEF n
<1>2. i \in DOMAIN n.pwin /\ GuiInv(n) /\ n.fate = "up" /\ n.status = g.status
  BY <1>1, Lengths DEF IsNew
<1>3. \A j \in {Tree} \cup DOMAIN n.pwin : <<p, j>> \notin n.handlers
  <2>1. DOMAIN n.pwin = DOMAIN g.pwin \cup {i} /\ i \notin DOMAIN g.pwin /\ i # Tree
    BY <1>1, <1>2, Lengths DEF IsNew, Tree
  <2>2. <<p, i>> \notin g.handlers
    BY <2>1 DEF GuiInv, HandlerInv
  <2> QED
    BY <1>1, <2>1, <2>2 DEF IsNew
<1>4. IsInit(n, m)
  BY <1>1, <1>2, <1>3, InitProcess DEF IsNew
<1> HIDE DEF m
<1>5. GuiInv(m) /\ m.fate = "up" /\ m.status = g.status /\ Len(m.pwin) = i
  BY <1>1, <1>2, <1>4 DEF IsInit, IsNew
<1>6. Follows(m, t) /\ t.pwin = m.pwin /\ t.status = m.status /\ t.fate = m.fate
  BY <1>5, TreeFollows
<1>7. process_created_cb(g, p) = t
  BY DEF process_created_cb, t, m, n
<1> HIDE DEF t
<1>8. Follows(g, n) /\ Follows(n, m)
  BY <1>1, <1>2, <1>4, NewFollows, InitFollows
<1>9. Follows(g, m)
  BY <1>8, FollowsOn
<1>10. Follows(g, t)
  BY <1>6, <1>9, FollowsOn
<1> QED
  BY <1>5, <1>6, <1>7, <1>10 DEF GetsWindow

LEMMA CreatedKeeps ==
  ASSUME IInv, NEW p \in Procs, Created(p)
  PROVE  Stepped
<1> DEFINE g == [gui EXCEPT !.status[p] = "INIT"]
           c == process_created_cb(g, p)
           r == process_set_status(c, p, "RUNNING")
<1>1. GuiInv(gui) /\ gui.fate = "up" /\ Len(gui.pwin) < MaxWindows /\ gui.status[p] = "none"
  BY DEF IInv, GuiStateInv, Created, Fresh
<1>2. \A j \in {Tree} \cup DOMAIN gui.pwin : <<p, j>> \notin gui.handlers
  BY <1>1, FreshFree
<1>3. "INIT" \in Statuses \ {"none"} /\ "INIT" \notin {"none"} \cup Ends
  BY DEF Statuses, Ends
<1>4. IsSet(gui, g, p, "INIT")
  BY <1>1, <1>2, <1>3, Unshown
<1>5. /\ g.pwin = gui.pwin /\ g.handlers = gui.handlers /\ g.fate = "up" /\ g.status[p] = "INIT"
  BY <1>1 DEF GuiInv, Guis
<1>6. Event(r)
  BY DEF Created
<1> HIDE DEF g
<1>7. GetsWindow(g, c)
  BY <1>2, <1>3, <1>4, <1>5, CreatedFollows DEF IsSet
<1> HIDE DEF c
<1>8. Follows(gui, c) /\ c.fate = "up" /\ c.status[p] = "INIT" /\ Len(c.pwin) <= MaxWindows
  <2>1. Follows(gui, g)
    BY <1>1, <1>3, <1>4, SetFollows
  <2>2. Len(gui.pwin) \in Nat /\ MaxWindows \in Nat
    BY <1>1, Lengths, WindowsAssumption
  <2> QED
    BY <1>1, <1>5, <1>7, <2>1, <2>2, FollowsOn DEF GetsWindow
<1>9. MayFollow(r)
  <2>1. "RUNNING" \in Statuses \ {"none"}
    BY DEF Statuses
  <2> QED
    BY <1>1, <1>3, <1>8, <2>1, StatusFollows
<1> HIDE DEF r
<1> QED
  BY <1>6, <1>9, EventKeeps

\* reset_cb and reset_profile_cb.
LEMMA ResetFollows ==
  ASSUME NEW g, GuiInv(g), g.fate = "up", NEW i \in DOMAIN g.pwin
  PROVE  LET r == process_window_reset(g, i) IN
         Follows(g, r) /\ Len(r.pwin) = Len(g.pwin) /\ r.status = g.status /\ r.fate = "up"
<1> DEFINE r == process_window_reset(g, i)
<1>1. IsInit(g, r)
  BY SetReport DEF process_window_reset
<1> HIDE DEF r
<1>2. Follows(g, r)
  BY <1>1, InitFollows
<1> QED
  BY <1>1, <1>2 DEF IsInit, r

LEMMA ConnectedKeeps ==
  ASSUME IInv, NEW p \in Procs, Connected(p)
  PROVE  Stepped
<1> DEFINE i == WindowOf(gui, p)
           g == IF ~Windowed(gui, p) THEN gui
                ELSE IF gui.pwin[i].freed THEN Crash(gui) ELSE process_window_reset(gui, i)
           r == IF g.fate = "crashed" THEN g ELSE process_set_status(g, p, "RUNNING")
<1>1. GuiInv(gui) /\ gui.fate = "up" /\ Len(gui.pwin) <= MaxWindows
  BY DEF IInv, GuiStateInv
<1>2. gui.status[p] \in {"STARTING", "RUNNING", "DETACHED"}
  BY DEF Connected, CanConnect
<1>3. gui.status[p] \in Ends => Excused
  BY <1>2 DEF Ends, Excused
<1>4. Event(r)
  BY DEF Connected
<1>5. Windowed(gui, p) => i \in DOMAIN gui.pwin /\ <<p, i>> \in gui.handlers /\ i # Tree
  <2>1. Windowed(gui, p) => i \in DOMAIN gui.pwin /\ <<p, i>> \in gui.handlers
    BY DEF Windowed, WindowOf
  <2> QED
    BY <1>1, <2>1, Lengths DEF Tree
<1> HIDE DEF i
<1>6. CASE Windowed(gui, p) /\ gui.pwin[i].freed
  <2>1. gui.status[p] \in Ends
    BY <1>1, <1>5, <1>6 DEF GuiInv, HandlerInv
  <2>2. g = Crash(gui) /\ g \in Guis /\ g.fate = "crashed"
    BY <1>1, <1>6 DEF Crash, GuiInv, Guis
  <2>3. MayFollow(r)
    BY <1>3, <2>1, <2>2 DEF MayFollow
  <2> QED
    BY <1>4, <2>3, EventKeeps
<1>7. CASE ~Windowed(gui, p) \/ ~gui.pwin[i].freed
  <2>1. Follows(gui, g) /\ Len(g.pwin) = Len(gui.pwin) /\ g.status = gui.status /\ g.fate = "up"
    BY <1>1, <1>5, <1>7, FollowsSelf, ResetFollows
  <2>2. "RUNNING" \in Statuses \ {"none"}
    BY DEF Statuses
  <2> HIDE DEF g
  <2>3. MayFollow(process_set_status(g, p, "RUNNING"))
    BY <1>1, <1>3, <2>1, <2>2, StatusFollows
  <2>4. MayFollow(r)
    BY <2>1, <2>3
  <2> QED
    BY <1>4, <2>4, EventKeeps
<1> QED
  BY <1>6, <1>7

LEMMA EndsKeep ==
  ASSUME IInv, NEW p \in Procs, ReadExit(p) \/ InputEOF(p)
  PROVE  Stepped
<1>1. GuiInv(gui) /\ gui.fate = "up" /\ Len(gui.pwin) <= MaxWindows /\ Follows(gui, gui)
  BY FollowsSelf DEF IInv, GuiStateInv
<1>2. gui.status[p] \in Ends => Excused
  BY DEF ReadExit, InputEOF, Ends, Excused
<1>3. PICK s \in {"EXITING", "DEFUNCT"} : Event(process_set_status(gui, p, s))
  BY DEF ReadExit, InputEOF
<1>4. s \in Statuses \ {"none"}
  BY DEF Statuses
<1>5. MayFollow(process_set_status(gui, p, s))
  BY <1>1, <1>2, <1>4, StatusFollows
<1> QED
  BY <1>3, <1>5, EventKeeps

LEMMA ProcessStepKeeps == IInv /\ ProcessStep => Stepped
<1> SUFFICES ASSUME IInv, NEW p \in Procs,
                    Created(p) \/ Connected(p) \/ ReadExit(p) \/ InputEOF(p)
             PROVE  Stepped
  BY DEF ProcessStep
<1> QED
  BY CreatedKeeps, ConnectedKeeps, EndsKeep

-----------------------------------------------------------------------------
(* The user's steps.                                                       *)

LEMMA UserStepKeeps == IInv /\ UserStep => Stepped
<1> SUFFICES ASSUME IInv, UserStep PROVE Stepped
  OBVIOUS
<1>1. /\ GuiInv(gui) /\ gui.fate = "up" /\ Len(gui.pwin) <= MaxWindows
      /\ Follows(gui, gui) /\ Len(gui.pwin) \in Nat /\ DOMAIN gui.pwin = 1 .. Len(gui.pwin)
  BY FollowsSelf, Lengths DEF IInv, GuiStateInv
<1>2. ASSUME NEW w \in {Tree} \cup DOMAIN gui.pwin, close_cb(w) PROVE Stepped
  <2>1. Follows(gui, hide_and_check_quit(gui, w)) /\ hide_and_check_quit(gui, w).pwin = gui.pwin
    BY <1>1, HideFollows
  <2> QED
    BY <1>1, <1>2, <2>1, ClickKeeps DEF close_cb
<1>3. ASSUME NEW i \in DOMAIN gui.pwin, exit_cb(i) PROVE Stepped
  <2> DEFINE g == [gui EXCEPT !.fate = "quitting"]
  <2>1. /\ g \in Guis /\ g.pwin = gui.pwin /\ g.store = gui.store /\ g.handlers = gui.handlers
        /\ g.toplevels = gui.toplevels /\ g.status = gui.status /\ g.fate = "quitting"
    BY <1>1 DEF GuiInv, Guis
  <2>2. Click(g)
    BY <1>3 DEF exit_cb
  <2> HIDE DEF g
  <2>3. Follows(gui, g)
    BY <1>1, <2>1 DEF Follows, GuiInv, Settled
  <2> QED
    BY <1>1, <2>1, <2>2, <2>3, ClickKeeps
<1>4. ASSUME NEW i \in DOMAIN gui.pwin, process_tree_cb(i) PROVE Stepped
  BY <1>1, <1>4, TreeFollows, ClickKeeps DEF process_tree_cb
<1>5. ASSUME NEW i \in DOMAIN gui.pwin, generate_cb(i) PROVE Stepped
  <2> DEFINE g == [gui EXCEPT !.pwin[i].report = TRUE]
  <2>1. gui.pwin[i].process # NULL /\ Click(g)
    BY <1>5 DEF generate_cb
  <2>2. IsInit(gui, g)
    BY <1>1, <2>1, SetReport
  <2> HIDE DEF g
  <2>3. Follows(gui, g) /\ Len(g.pwin) = Len(gui.pwin)
    BY <1>1, <2>2, InitFollows DEF IsInit
  <2> QED
    BY <1>1, <2>1, <2>3, ClickKeeps
<1>6. ASSUME NEW i \in DOMAIN gui.pwin, reset_profile_cb(i) PROVE Stepped
  BY <1>1, <1>6, ResetFollows, ClickKeeps DEF reset_profile_cb
<1>7. ASSUME NEW i \in DOMAIN gui.pwin, run_cb(i) \/ detach_cb(i) \/ kill_cb(i) PROVE Stepped
  <2>1. PICK kind \in {"run", "detach", "kill", "menu"} : Opens(kind, i)
    BY <1>7 DEF run_cb, detach_cb, kill_cb, KillPrompt
  <2> QED
    BY <2>1, AsksKeeps DEF Opens, Running
<1>8. ASSUME NEW k \in DOMAIN gui.store, row_activated_cb(k) \/ button_press_cb(k) PROVE Stepped
  <2> DEFINE i == gui.store[k].pwin
  <2>1. i \in DOMAIN gui.pwin /\ i \in Nat
    BY <1>1 DEF GuiInv, RowInv, RowsMatch, Shows
  <2>2. Click(process_window_show(gui, i)) \/ Opens("menu", i)
    BY <1>8 DEF row_activated_cb, button_press_cb
  <2> HIDE DEF i
  <2>3. CASE Click(process_window_show(gui, i))
    BY <1>1, <2>1, <2>3, ShowFollows, ClickKeeps
  <2>4. CASE Opens("menu", i)
    BY <2>1, <2>4, AsksKeeps DEF Opens, Running
  <2> QED
    BY <2>2, <2>3, <2>4
<1> QED
  BY <1>2, <1>3, <1>4, <1>5, <1>6, <1>7, <1>8 DEF UserStep

-----------------------------------------------------------------------------
(* A program is run.                                                       *)

\* run_file uses the window, which it may find freed; without that there is one
\* window more at the most.
IsRun(g, r, i, p) ==
  \/ g.pwin[i].freed /\ r \in Guis /\ r.fate = "crashed"
  \/ /\ ~g.pwin[i].freed
     /\ Follows(g, r) /\ r.fate = "up" /\ r.status[p] = "STARTING"
     /\ Len(r.pwin) = IF g.pwin[i].process = NULL THEN Len(g.pwin) ELSE Len(g.pwin) + 1

LEMMA RunFollows ==
  ASSUME NEW g, GuiInv(g), g.fate = "up", NEW i \in DOMAIN g.pwin, NEW p \in Procs,
         g.status[p] = "none"
  PROVE  IsRun(g, run_file(g, i, p), i, p)
<1> DEFINE h == process_set_status(g, p, "STARTING")
           n == process_window_new(h)
           new == tree_window_show(n)
           k == Len(new.pwin)
           own == init_process(h, i, p)
           other == init_process(new, k, p)
           r == run_file(g, i, p)
<1>1. \A j \in {Tree} \cup DOMAIN g.pwin : <<p, j>> \notin g.handlers
  BY FreshFree
<1>2. "STARTING" \in Statuses \ {"none"} /\ "STARTING" \notin {"none"} \cup Ends
  BY DEF Statuses, Ends
<1>3. h = [g EXCEPT !.status[p] = "STARTING"]
  <2> DEFINE f == [g EXCEPT !.status[p] = "STARTING"]
  <2>1. f.pwin = g.pwin /\ f.handlers = g.handlers
    BY DEF GuiInv, Guis
  <2> HIDE DEF f
  <2>2. ~Windowed(f, p) /\ <<p, Tree>> \notin f.handlers
    BY <1>1, <2>1 DEF Windowed
  <2> QED
    BY <2>2 DEF process_set_status, f
<1>4. /\ h.pwin = g.pwin /\ h.handlers = g.handlers /\ h.fate = "up"
      /\ h.status[p] = "STARTING"
  BY <1>3 DEF GuiInv, Guis
<1>5. IsSet(g, h, p, "STARTING")
  BY <1>1, <1>2, <1>3, Unshown
<1> HIDE DEF h
<1>6. GuiInv(h) /\ Follows(g, h) /\ i \in DOMAIN h.pwin /\ i \in Nat
  BY <1>2, <1>4, <1>5, SetFollows, Lengths DEF IsSet
<1>7. CASE g.pwin[i].freed
  <2>1. r = Crash(g)
    BY <1>7 DEF run_file
  <2>2. r \in Guis /\ r.fate = "crashed"
    BY <2>1 DEF Crash, GuiInv, Guis
  <2> QED
    BY <1>7, <2>2 DEF IsRun
<1>8. CASE ~g.pwin[i].freed /\ g.pwin[i].process = NULL
  <2>1. r = process_window_show(own, i)
    BY <1>8 DEF run_file, h
  <2>2. IsInit(h, own)
    BY <1>1, <1>2, <1>4, <1>6, <1>8, InitProcess
  <2> HIDE DEF own, r
  <2>3. Follows(h, own) /\ GuiInv(own) /\ own.fate = "up" /\ own.status = h.status
    BY <1>4, <1>6, <2>2, InitFollows DEF IsInit
  <2>4. Follows(own, r) /\ r.pwin = own.pwin /\ r.fate = "up" /\ r.status = own.status
    BY <1>6, <2>1, <2>3, ShowFollows, ShowWindow DEF GuiInv
  <2>5. Follows(g, own)
    BY <1>6, <2>3, FollowsOn
  <2>6. Follows(g, r)
    BY <2>4, <2>5, FollowsOn
  <2> QED
    BY <1>4, <1>8, <2>2, <2>3, <2>4, <2>6 DEF IsInit, IsRun, r
<1>9. CASE ~g.pwin[i].freed /\ g.pwin[i].process # NULL
  <2>1. r = process_window_show(other, k)
    BY <1>9 DEF run_file, h
  <2>2. IsNew(h, n)
    BY <1>6, NewWindow
  <2> HIDE DEF n
  <2>3. GuiInv(n) /\ n.fate = "up" /\ n.status = h.status /\ n.handlers = h.handlers
    BY <1>4, <2>2 DEF IsNew
  <2>4. /\ Follows(n, new) /\ new.pwin = n.pwin /\ new.handlers = n.handlers
        /\ new.status = n.status /\ new.fate = n.fate
    BY <2>3, TreeFollows
  <2> HIDE DEF new
  <2>5. /\ k = Len(g.pwin) + 1 /\ k \in DOMAIN new.pwin /\ k \in Nat /\ GuiInv(new)
        /\ ~new.pwin[k].freed /\ new.pwin[k].process = NULL
    BY <1>4, <2>2, <2>4, Lengths DEF IsNew, Follows
  <2>6. \A j \in {Tree} \cup DOMAIN new.pwin : <<p, j>> \notin new.handlers
    <3>1. DOMAIN new.pwin = DOMAIN g.pwin \cup {k} /\ k \notin DOMAIN g.pwin /\ k # Tree
      <4>1. Len(new.pwin) = Len(g.pwin) + 1
        BY <2>5
      <4> QED
        BY <2>5, <4>1, Lengths DEF Tree
    <3>2. <<p, k>> \notin g.handlers
      BY <3>1 DEF GuiInv, HandlerInv
    <3> QED
      BY <1>1, <1>4, <2>3, <2>4, <3>1, <3>2
  <2> HIDE DEF k
  <2>7. IsInit(new, other)
    BY <1>2, <1>4, <2>3, <2>4, <2>5, <2>6, InitProcess
  <2> HIDE DEF other, r
  <2>8. Follows(new, other) /\ GuiInv(other) /\ other.fate = "up" /\ other.status = h.status
    BY <2>3, <2>4, <2>5, <2>7, InitFollows DEF IsInit
  <2>9. Follows(other, r) /\ r.pwin = other.pwin /\ r.fate = "up" /\ r.status = other.status
    BY <2>1, <2>5, <2>8, ShowFollows, ShowWindow DEF GuiInv
  <2>10. Follows(g, r)
    <3>1. Follows(h, n)
      BY <1>4, <1>6, <2>2, NewFollows
    <3>2. Follows(g, n)
      BY <1>6, <3>1, FollowsOn
    <3>3. Follows(g, new)
      BY <2>4, <3>2, FollowsOn
    <3>4. Follows(g, other)
      BY <2>8, <3>3, FollowsOn
    <3> QED
      BY <2>9, <3>4, FollowsOn
  <2>11. Len(r.pwin) = Len(g.pwin) + 1
    BY <2>5, <2>7, <2>9 DEF IsInit, k
  <2> QED
    BY <1>4, <1>9, <2>8, <2>9, <2>10, <2>11 DEF IsRun, r
<1> QED
  BY <1>7, <1>8, <1>9

\* The child that is forked belongs to a process that had none.
LEMMA RunAnswerKeeps == IInv /\ RunAnswer => Stepped
<1> SUFFICES ASSUME IInv, RunAnswer PROVE Stepped
  OBVIOUS
<1>1. /\ memprof \in Running /\ prompt.kind = "run" /\ Len(gui.pwin) < MaxWindows
      /\ prompt' = NoPrompt /\ UNCHANGED <<bootVars, term>>
  BY DEF RunAnswer
<1>2. PICK p \in Procs : Fresh(p) /\ fork(p) /\ Becomes(run_file(gui, prompt.win, p))
  BY DEF RunAnswer
<1> DEFINE i == prompt.win
           g == run_file(gui, i, p)
<1>3. /\ GuiInv(gui) /\ gui.fate = "up" /\ i \in DOMAIN gui.pwin /\ gui.status[p] = "none"
  BY <1>1, <1>2 DEF IInv, GuiStateInv, PromptInv, Fresh
<1>4. Excused
  BY <1>1, NoWindowsInv DEF Excused
<1>5. IsRun(gui, g, i, p)
  BY <1>3, RunFollows
<1>6. Becomes(g)
  BY <1>2
<1> HIDE DEF g, i
<1>7. Len(gui.pwin) \in Nat /\ MaxWindows \in Nat
  BY <1>3, Lengths, WindowsAssumption
<1>8. MayFollow(g) /\ (g.fate # "crashed" => g.status[p] # "none")
  BY <1>1, <1>4, <1>5, <1>7 DEF IsRun, MayFollow
<1>9. PromptKept
  BY <1>1, NoWindowsInv DEF PromptKept
<1>10. /\ GuiStateInv'
       /\ memprof' \in {memprof, "quitting", "crashed"}
       /\ memprof' = "crashed" => Excused
       /\ memprof' # "crashed" =>
            \A q \in Procs : gui.status[q] # "none" => gui'.status[q] # "none"
  BY <1>1, <1>6, <1>8, <1>9, BecomesKeeps DEF IInv
<1>11. memprof' \in Running \cup {"crashed"} /\ memprof' # "exited"
  BY <1>1, <1>10 DEF Running
<1>12. child[p] = "none"
  BY <1>1, <1>3 DEF IInv, ControlInv, ControlTypeOK
<1>13. /\ child' \in [Procs -> {"none", "forked", "caught", "exited"}]
       /\ child'[p] \in {"forked", "caught"}
       /\ \A q \in Procs : q # p => child'[q] = child[q]
  BY <1>2 DEF fork, IInv, ControlInv, ControlTypeOK
<1>14. UNCHANGED <<sockets, socket_path, retry_count, socket_paths, term>>
  BY <1>1 DEF bootVars
<1>15. memprof' # "crashed" => gui'.status[p] # "none"
  <2>1. ASSUME memprof' # "crashed" PROVE g.fate # "crashed"
    BY <1>6, <2>1 DEF Becomes
  <2>2. g \in Guis
    BY <1>8 DEF MayFollow, Follows, GuiInv
  <2>3. ASSUME g.fate # "crashed" PROVE gui'.status = g.status
    BY <1>6, <2>2, <2>3 DEF Becomes, Guis
  <2> QED
    BY <1>8, <2>1, <2>3
<1>16. ControlTypeOK'
  BY <1>11, <1>13, <1>14 DEF IInv, ControlInv, ControlTypeOK, Ended
<1>17. ControlInv'
  <2>1. (\A q \in Procs : child'[q] # "exited") => \A q \in Procs : child[q] # "exited"
    BY <1>12, <1>13
  <2>2. memprof' # "crashed" => \A q \in Procs : child'[q] # "none" => gui'.status[q] # "none"
    BY <1>1, <1>10, <1>13, <1>15 DEF IInv, ControlInv
  <2> QED
    BY <1>1, <1>10, <1>11, <1>14, <1>16, <2>1, <2>2
       DEF IInv, ControlInv, CleanExit, Running, Booting, Ended
<1> QED
  BY <1>10, <1>17 DEF IInv, Stepped

-----------------------------------------------------------------------------
(* The other answers.                                                      *)

LEMMA DetachMay ==
  ASSUME GuiStateInv, Excused, NEW p \in Procs \cup {NULL}
  PROVE  MayFollow(process_detach(gui, p))
<1> DEFINE r == process_detach(gui, p)
<1>1. GuiInv(gui) /\ gui.fate = "up" /\ Len(gui.pwin) <= MaxWindows /\ Follows(gui, gui)
  BY FollowsSelf DEF GuiStateInv
<1>2. CASE p = NULL \/ gui.status[p] = "STARTING"
  <2>1. r = Crash(gui)
    BY <1>2 DEF process_detach
  <2>2. r \in Guis /\ r.fate = "crashed"
    BY <1>1, <2>1 DEF Crash, GuiInv, Guis
  <2> QED
    BY <2>2 DEF MayFollow
<1>3. CASE p # NULL /\ gui.status[p] # "STARTING"
  <2>1. CASE gui.status[p] \in {"DEFUNCT", "EXITING"}
    <3>1. r = gui
      BY <1>3, <2>1 DEF process_detach
    <3> QED
      BY <1>1, <3>1 DEF MayFollow
  <2>2. CASE gui.status[p] \notin {"DEFUNCT", "EXITING"}
    <3>1. r = process_set_status(gui, p, "DETACHED")
      BY <1>3, <2>2 DEF process_detach
    <3>2. "DETACHED" \in Statuses \ {"none"}
      BY DEF Statuses
    <3>3. MayFollow(process_set_status(gui, p, "DETACHED"))
      BY <1>1, <1>3, <3>2, StatusFollows
    <3> QED
      BY <3>1, <3>3
  <2> QED
    BY <2>1, <2>2
<1> QED
  BY <1>2, <1>3

\* A child of memprof that is killed before execvp() fills the pipe, or removes
\* the socket.
LEMMA KillKeeps ==
  ASSUME IInv, memprof \in Running, NEW p \in Procs, kill_child(p), prompt' = NoPrompt,
         UNCHANGED <<gui, memprof, socket_path, retry_count, socket_paths>>
  PROVE  Stepped
<1>1. GuiStateInv'
  BY NoWindowsInv DEF IInv, GuiStateInv, PromptInv
<1>2. CASE child[p] \notin {"forked", "caught"} /\ UNCHANGED <<child, term, sockets>>
  BY <1>1, <1>2 DEF IInv, ControlInv, ControlTypeOK, CleanExit, Stepped
<1>3. CASE /\ child[p] = "forked"
           /\ child' = [child EXCEPT ![p] = "caught"]
           /\ term' = [term EXCEPT !.pipe = Filled(@)]
           /\ UNCHANGED sockets
  <2>1. ControlTypeOK'
    <3>1. Filled(term.pipe) \in {"none", "empty", "byte"}
      BY DEF IInv, ControlInv, ControlTypeOK, Filled
    <3> QED
      BY <1>3, <3>1 DEF IInv, ControlInv, ControlTypeOK
  <2>2. /\ term'.cleanup = term.cleanup /\ term'.handler = term.handler
        /\ child'[p] = "caught" /\ \A q \in Procs : q # p => child'[q] = child[q]
    BY <1>3 DEF IInv, ControlInv, ControlTypeOK
  <2>3. ControlInv'
    BY <1>3, <2>1, <2>2 DEF IInv, ControlInv, CleanExit, Running, Booting, Ended
  <2> QED
    BY <1>1, <2>3 DEF IInv, Stepped
<1>4. CASE /\ child[p] = "caught"
           /\ child' = [child EXCEPT ![p] = "exited"]
           /\ sockets' = Unlinked(socket_paths)
           /\ UNCHANGED term
  <2>1. /\ sockets' \in [Paths -> {"none", "self", "other"}]
        /\ \A f \in Paths : sockets'[f] = "self" => sockets[f] = "self"
    BY <1>4 DEF IInv, ControlInv, ControlTypeOK, Unlinked
  <2>2. child' \in [Procs -> {"none", "forked", "caught", "exited"}]
    BY <1>4 DEF IInv, ControlInv, ControlTypeOK
  <2>3. child'[p] = "exited" /\ \A q \in Procs : q # p => child'[q] = child[q]
    BY <1>4 DEF IInv, ControlInv, ControlTypeOK
  <2>4. ControlTypeOK'
    BY <1>4, <2>1, <2>2 DEF IInv, ControlInv, ControlTypeOK
  <2>5. ControlInv'
    BY <1>4, <2>1, <2>3, <2>4 DEF IInv, ControlInv, CleanExit, Running, Booting, Ended
  <2> QED
    BY <1>1, <2>5 DEF IInv, Stepped
<1> QED
  BY <1>2, <1>3, <1>4 DEF kill_child

LEMMA AnswerStepKeeps == IInv /\ AnswerStep => Stepped
<1> SUFFICES ASSUME IInv, AnswerStep PROVE Stepped
  OBVIOUS
<1> DEFINE i == prompt.win
           p == gui.pwin[i].process
<1>1. /\ GuiInv(gui) /\ gui.fate = "up" /\ Len(gui.pwin) <= MaxWindows
      /\ Follows(gui, gui) /\ MayFollow(gui)
  BY FollowsSelf DEF IInv, GuiStateInv, MayFollow
<1>2. prompt.kind # "none" => Excused /\ i \in DOMAIN gui.pwin /\ p \in Procs \cup {NULL}
  <2>1. \A j \in DOMAIN gui.pwin : gui.pwin[j].process \in Procs \cup {NULL}
    <3>1. \A j \in DOMAIN gui.pwin : gui.pwin[j] \in WindowRecords
      BY <1>1 DEF GuiInv, Guis
    <3> QED
      BY <3>1 DEF WindowRecords
  <2> QED
    BY <2>1, NoWindowsInv DEF Excused, IInv, GuiStateInv, PromptInv
<1>3. CASE Dismiss
  BY <1>1, <1>3, AnswersKeeps DEF Dismiss
<1>4. CASE RunAnswer
  BY <1>4, RunAnswerKeeps
<1>5. CASE DetachAnswer
  BY <1>2, <1>5, DetachMay, AnswersKeeps DEF DetachAnswer, IInv
<1>6. CASE KillAnswer
  <2>1. memprof \in Running /\ prompt.kind = "kill" /\ process_kill(p)
    BY <1>6 DEF KillAnswer
  <2> HIDE DEF p
  <2>2. CASE /\ p \in Procs /\ kill_child(p) /\ prompt' = NoPrompt
             /\ UNCHANGED <<gui, memprof, socket_path, retry_count, socket_paths>>
    BY <2>1, <2>2, KillKeeps
  <2>3. CASE p \in {NULL} \cup Procs /\ Answers(process_detach(gui, p))
    BY <1>2, <2>1, <2>3, DetachMay, AnswersKeeps DEF IInv
  <2>4. CASE Answers(gui)
    BY <1>1, <2>1, <2>4, AnswersKeeps
  <2> QED
    BY <2>1, <2>2, <2>3, <2>4 DEF process_kill
<1>7. CASE MenuAnswer
  <2>1. memprof \in Running /\ prompt.kind = "menu" /\ i \in DOMAIN gui.pwin /\ i \in Nat /\ Excused
    BY <1>1, <1>2, <1>7, Lengths DEF MenuAnswer
  <2>2. CASE Answers(Crash(gui))
    <3>1. Crash(gui) \in Guis /\ Crash(gui).fate = "crashed"
      BY <1>1 DEF Crash, GuiInv, Guis
    <3>2. MayFollow(Crash(gui))
      BY <2>1, <3>1 DEF MayFollow
    <3> QED
      BY <2>1, <2>2, <3>2, AnswersKeeps
  <2>3. CASE Answers(process_window_show(gui, i))
    <3>1. MayFollow(process_window_show(gui, i))
      BY <1>1, <2>1, ShowFollows DEF MayFollow
    <3> QED
      BY <2>1, <2>3, <3>1, AnswersKeeps
  <2>4. CASE Answers(hide_and_check_quit(gui, i))
    <3>1. MayFollow(hide_and_check_quit(gui, i))
      BY <1>1, HideFollows DEF MayFollow
    <3> QED
      BY <2>1, <2>4, <3>1, AnswersKeeps
  <2>5. CASE /\ \E kind \in {"detach", KillPrompt(p)} : prompt' = [kind |-> kind, win |-> i]
             /\ UNCHANGED <<gui, controlVars>>
    <3>1. PICK kind \in {"run", "detach", "kill", "menu"} : prompt' = [kind |-> kind, win |-> i]
      BY <2>5 DEF KillPrompt
    <3> QED
      BY <2>1, <2>5, <3>1, AsksKeeps
  <2> QED
    BY <1>7, <2>2, <2>3, <2>4, <2>5 DEF MenuAnswer
<1> QED
  BY <1>3, <1>4, <1>5, <1>6, <1>7 DEF AnswerStep

-----------------------------------------------------------------------------
(* memprof's start and end.                                                *)

\* Once memprof has ended, or before main made a window, there are none.
LEMMA GoneKeeps ==
  ASSUME gui' = NoWindows, prompt' = NoPrompt, memprof' \notin Running
  PROVE  GuiStateInv'
<1>1. memprof' # "up"
  BY DEF Running
<1> QED
  BY <1>1, NoWindowsInv, WindowsAssumption DEF GuiStateInv, PromptInv

\* exit() and a return from main: cleanup_socket removes what was bound.
LEMMA ExitKeeps ==
  ASSUME IInv, memprof \notin Ended, exit, gui' = NoWindows, prompt' = NoPrompt,
         UNCHANGED <<socket_path, retry_count, socket_paths, term, child>>,
         memprof \in Booting => memprof = "mktemp" \/ term.terminated
  PROVE  Stepped
<1>1. memprof' = "exited" /\ sockets' = Unlinked(socket_paths)
  BY DEF exit
<1>2. GuiStateInv'
  BY <1>1, GoneKeeps DEF Running
<1>3. \A f \in Paths : sockets'[f] = IF term.cleanup /\ f \in socket_paths THEN "none" ELSE sockets[f]
  BY <1>1 DEF Unlinked
<1>4. ControlTypeOK'
  <2>1. sockets' \in [Paths -> {"none", "self", "other"}]
    BY <1>1 DEF IInv, ControlInv, ControlTypeOK, Unlinked
  <2> QED
    BY <1>1, <2>1 DEF IInv, ControlInv, ControlTypeOK, Ended
<1>5. CleanExit'
  <2>1. CASE memprof \in Booting
    <3>1. socket_paths' = {} /\ (term.terminated \/ term.pipe = "none")
      BY <2>1 DEF IInv, ControlInv
    <3> QED
      BY <1>1, <3>1 DEF CleanExit
  <2>2. CASE memprof \in Running
    <3>1. socket_paths = {socket_path} /\ term.cleanup
      BY <2>2 DEF IInv, ControlInv
    <3>2. \A f \in Paths : sockets[f] = "self" => f = socket_path
      BY DEF IInv, ControlInv
    <3> QED
      BY <1>1, <1>3, <3>1, <3>2 DEF CleanExit
  <2> QED
    BY <2>1, <2>2 DEF IInv, ControlInv, ControlTypeOK
<1>6. ControlInv'
  BY <1>1, <1>4, <1>5 DEF ControlInv, Booting, Running, Ended
<1> QED
  BY <1>1, <1>2, <1>6 DEF IInv, Stepped

LEMMA ReturnKeeps == IInv /\ Return => Stepped
<1> SUFFICES ASSUME IInv, Return PROVE Stepped
  OBVIOUS
<1>1. memprof \notin Ended /\ exit /\ gui' = NoWindows /\ prompt' = NoPrompt
  BY DEF Return, Lasting, exit, Ended
<1> QED
  BY <1>1, ExitKeeps DEF Return, Booting

\* fatal: what exit() removes once the name is in the list, and before.
LEMMA FatalKeeps ==
  ASSUME IInv, fatal, gui' = NoWindows, prompt' = NoPrompt
  PROVE  Stepped
<1>1. /\ memprof \in {"bind", "pipe", "listen"} /\ memprof' = "exited"
      /\ socket_paths' = IF memprof = "listen" THEN socket_paths \cup {socket_path} ELSE socket_paths
      /\ sockets' = Unlinked(socket_paths')
      /\ UNCHANGED <<socket_path, retry_count, term, child>>
  BY DEF fatal
<1>2. socket_paths = {} /\ socket_path \in Paths
  BY <1>1 DEF IInv, ControlInv, Booting
<1>3. /\ sockets' \in [Paths -> {"none", "self", "other"}]
      /\ \A f \in Paths :
           sockets'[f] = IF term.cleanup /\ f \in socket_paths' THEN "none" ELSE sockets[f]
  BY <1>1 DEF IInv, ControlInv, ControlTypeOK, Unlinked
<1>4. GuiStateInv'
  BY <1>1, GoneKeeps DEF Running
<1>5. ControlTypeOK'
  BY <1>1, <1>2, <1>3 DEF IInv, ControlInv, ControlTypeOK, Ended
<1>6. CleanExit'
  <2>1. CASE memprof = "listen"
    <3>1. /\ term.cleanup /\ socket_path \in socket_paths'
          /\ \A f \in Paths : sockets[f] = "self" => f = socket_path
      BY <1>1, <2>1 DEF IInv, ControlInv, Ended
    <3> QED
      BY <1>3, <3>1 DEF CleanExit
  <2>2. CASE memprof \in {"bind", "pipe"}
    <3>1. term.pipe = "none" /\ socket_paths' = {}
      BY <1>1, <1>2, <2>2 DEF IInv, ControlInv
    <3> QED
      BY <1>1, <3>1 DEF CleanExit
  <2> QED
    BY <1>1, <2>1, <2>2
<1>7. ControlInv'
  BY <1>1, <1>5, <1>6 DEF ControlInv, Booting, Running, Ended
<1> QED
  BY <1>1, <1>4, <1>7 DEF IInv, Stepped

LEMMA OtherKeeps == IInv /\ Lasting(\E f \in Paths : Other(f)) => Stepped
<1> SUFFICES ASSUME IInv, NEW f \in Paths, Other(f), Lasting(\E p \in Paths : Other(p))
             PROVE  Stepped
  BY DEF Lasting
<1>1. /\ memprof \notin Ended
      /\ UNCHANGED <<memprof, socket_path, retry_count, socket_paths, term, child>>
  BY DEF Other
<1>2. UNCHANGED windowVars
  BY <1>1 DEF Lasting
<1>3. GuiStateInv'
  BY <1>1, <1>2 DEF IInv, GuiStateInv, PromptInv, windowVars
<1>4. /\ sockets' \in [Paths -> {"none", "self", "other"}]
      /\ \A d \in Paths : (sockets'[d] = "self") = (sockets[d] = "self")
  BY DEF Other, IInv, ControlInv, ControlTypeOK
<1>5. ControlTypeOK'
  BY <1>1, <1>4 DEF IInv, ControlInv, ControlTypeOK
<1>6. ControlInv'
  BY <1>1, <1>2, <1>4, <1>5, Zenon
     DEF IInv, ControlInv, ControlTypeOK, CleanExit, windowVars
<1> QED
  BY <1>1, <1>3, <1>6 DEF IInv, Stepped

\* A step of create_control_socket.
LEMMA BootKeeps ==
  ASSUME IInv, UNCHANGED windowVars, memprof \in Booting, memprof' \in Booting, ControlInv'
  PROVE  Stepped
<1>1. gui = NoWindows /\ prompt = NoPrompt /\ memprof' \notin Running /\ memprof' # "crashed"
  BY DEF IInv, GuiStateInv, Booting, Running
<1>2. GuiStateInv'
  BY <1>1, GoneKeeps DEF windowVars
<1> QED
  BY <1>1, <1>2 DEF IInv, Stepped

LEMMA ControlStepKeeps == IInv /\ Lasting(ControlStep) => Stepped
<1> SUFFICES ASSUME IInv, Lasting(ControlStep) PROVE Stepped
  OBVIOUS
<1>1. /\ memprof' \notin Ended => UNCHANGED windowVars
      /\ memprof' \in Ended => gui' = NoWindows /\ prompt' = NoPrompt
  BY DEF Lasting
<1>2. ControlTypeOK
  BY DEF IInv, ControlInv
<1>3. CASE mktemp
  <2>1. memprof = "mktemp" /\ UNCHANGED <<socket_paths, term, child>>
    BY <1>3 DEF mktemp
  <2>2. CASE exit /\ UNCHANGED <<socket_path, retry_count>>
    <3>1. memprof \notin Ended /\ gui' = NoWindows /\ prompt' = NoPrompt
      BY <1>1, <2>1, <2>2 DEF exit, Ended
    <3> QED
      BY <2>1, <2>2, <3>1, ExitKeeps
  <2>3. CASE /\ retry_count > 0
             /\ \E f \in Paths : sockets[f] = "none" /\ socket_path' = f
             /\ retry_count' = retry_count - 1
             /\ memprof' = "bind"
             /\ UNCHANGED sockets
    <3>1. retry_count' \in 0 .. Retries
      BY <1>2, <2>3, ControlAssumption DEF ControlTypeOK
    <3>2. ControlTypeOK'
      BY <1>2, <2>1, <2>3, <3>1 DEF ControlTypeOK, Booting
    <3>3. ControlInv'
      BY <2>1, <2>3, <3>2 DEF IInv, ControlInv, CleanExit, Booting, Running, Ended
    <3> QED
      BY <1>1, <2>1, <2>3, <3>3, BootKeeps DEF Booting, Ended
  <2> QED
    BY <1>3, <2>2, <2>3 DEF mktemp
<1>4. CASE bind
  <2>1. memprof = "bind" /\ UNCHANGED <<socket_path, retry_count, socket_paths, term, child>>
    BY <1>4 DEF bind
  <2>2. socket_path \in Paths
    BY <2>1 DEF IInv, ControlInv, Booting
  <2>3. CASE /\ memprof' = "atexit"
             /\ sockets' = [sockets EXCEPT ![socket_path] = "self"]
    <3>1. ControlTypeOK'
      BY <1>2, <2>1, <2>3 DEF ControlTypeOK, Booting
    <3>2. /\ sockets'[socket_path] = "self"
          /\ \A f \in Paths : f # socket_path => sockets'[f] = sockets[f]
      BY <1>2, <2>2, <2>3 DEF ControlTypeOK
    <3>3. ControlInv'
      BY <2>1, <2>2, <2>3, <3>1, <3>2 DEF IInv, ControlInv, CleanExit, Booting, Running, Ended
    <3> QED
      BY <1>1, <2>1, <2>3, <3>3, BootKeeps DEF Booting, Ended
  <2>4. CASE memprof' = "mktemp" /\ UNCHANGED sockets
    <3>1. ControlTypeOK'
      BY <1>2, <2>1, <2>4 DEF ControlTypeOK, Booting
    <3>2. ControlInv'
      BY <2>1, <2>4, <3>1 DEF IInv, ControlInv, CleanExit, Booting, Running, Ended
    <3> QED
      BY <1>1, <2>1, <2>4, <3>2, BootKeeps DEF Booting, Ended
  <2> QED
    BY <1>4, <2>3, <2>4 DEF bind
<1>5. CASE ensure_cleanup
  <2>1. UNCHANGED <<sockets, socket_path, retry_count, socket_paths, child>>
    BY <1>5 DEF ensure_cleanup, bootVars
  <2>2. /\ memprof \in {"atexit", "signal", "pipe"} /\ memprof' \in {"signal", "pipe", "listen"}
        /\ term' \in [cleanup : BOOLEAN, handler : BOOLEAN, terminated : BOOLEAN,
                      pipe : {"none", "empty", "byte"}]
        /\ term'.cleanup /\ (memprof' # "listen" => term'.pipe = "none")
        /\ memprof' # "signal" => term'.handler
    <3>1. /\ memprof \in {"signal", "pipe"} => term.cleanup
          /\ memprof \in {"atexit", "signal"} => term.pipe = "none"
          /\ memprof = "pipe" => term.handler
      BY DEF IInv, ControlInv, Running
    <3>2. CASE memprof = "atexit" /\ memprof' = "signal" /\ term' = [term EXCEPT !.cleanup = TRUE]
      BY <1>2, <3>1, <3>2 DEF ControlTypeOK
    <3>3. CASE memprof = "signal" /\ memprof' = "pipe" /\ term' = [term EXCEPT !.handler = TRUE]
      BY <1>2, <3>1, <3>3 DEF ControlTypeOK
    <3>4. CASE memprof = "pipe" /\ memprof' = "listen" /\ term' = [term EXCEPT !.pipe = "empty"]
      BY <1>2, <3>1, <3>4 DEF ControlTypeOK
    <3> QED
      BY <1>5, <3>2, <3>3, <3>4 DEF ensure_cleanup
  <2>3. ControlTypeOK'
    BY <1>2, <2>1, <2>2 DEF ControlTypeOK, Booting
  <2>4. ControlInv'
    BY <2>1, <2>2, <2>3 DEF IInv, ControlInv, CleanExit, Booting, Running, Ended
  <2> QED
    BY <1>1, <2>2, <2>4, BootKeeps DEF Booting, Ended
<1>6. CASE term_handler
  <2>1. memprof \notin Ended /\ UNCHANGED <<socket_path, retry_count, socket_paths, child>>
    BY <1>6 DEF term_handler
  <2>2. CASE ~term.handler /\ memprof' = "killed" /\ UNCHANGED <<sockets, term>>
    <3>1. GuiStateInv'
      BY <1>1, <2>2, GoneKeeps DEF Running, Ended
    <3>2. ControlTypeOK'
      BY <1>2, <2>1, <2>2 DEF ControlTypeOK, Ended
    <3>3. CleanExit'
      <4>1. memprof \in Booting
        BY <1>2, <2>1, <2>2 DEF IInv, ControlInv, ControlTypeOK
      <4>2. socket_paths' = {}
        BY <2>1, <4>1 DEF IInv, ControlInv
      <4> QED
        BY <2>2, <4>2 DEF CleanExit
    <3>4. ControlInv'
      BY <2>2, <3>2, <3>3 DEF ControlInv, Booting, Running, Ended
    <3> QED
      BY <2>2, <3>1, <3>4 DEF IInv, Stepped
  <2>3. CASE term.terminated /\ exit /\ UNCHANGED term
    <3>1. gui' = NoWindows /\ prompt' = NoPrompt
      BY <1>1, <2>3 DEF exit, Ended
    <3> QED
      BY <2>1, <2>3, <3>1, ExitKeeps
  <2>4. CASE Write_pipe /\ UNCHANGED <<memprof, sockets>>
    <3>1. UNCHANGED windowVars
      BY <1>1, <2>1, <2>4
    <3>2. GuiStateInv'
      BY <2>4, <3>1 DEF IInv, GuiStateInv, PromptInv, windowVars
    <3>3. /\ term' \in [cleanup : BOOLEAN, handler : BOOLEAN, terminated : BOOLEAN,
                        pipe : {"none", "empty", "byte"}]
          /\ term'.cleanup = term.cleanup /\ term'.handler = term.handler
          /\ term.pipe = "none" => term'.pipe = "none"
      <4>1. Filled(term.pipe) \in {"none", "empty", "byte"}
        BY <1>2 DEF ControlTypeOK, Filled
      <4> QED
        BY <1>2, <2>4, <4>1 DEF ControlTypeOK, Write_pipe, Filled
    <3>4. ControlTypeOK'
      BY <1>2, <2>1, <2>4, <3>3 DEF ControlTypeOK
    <3>5. CleanExit'
      BY <2>1, <2>4 DEF CleanExit, Ended
    <3>6. gui' = gui
      BY <3>1 DEF windowVars
    <3>7. ControlInv'
      BY <2>1, <2>4, <3>3, <3>4, <3>5, <3>6 DEF IInv, ControlInv
    <3> QED
      BY <2>4, <3>2, <3>7 DEF IInv, Stepped
  <2> QED
    BY <1>6, <2>2, <2>3, <2>4 DEF term_handler
<1>7. CASE terminate_io_handler
  <2>1. /\ memprof \notin Ended /\ exit /\ gui' = NoWindows /\ prompt' = NoPrompt
        /\ UNCHANGED <<socket_path, retry_count, socket_paths, term, child>>
        /\ memprof \notin Booting
    BY <1>1, <1>7 DEF terminate_io_handler, exit, Running, Ended, Booting
  <2> QED
    BY <2>1, ExitKeeps
<1>8. ASSUME NEW p \in Procs, execvp(p) PROVE Stepped
  <2>1. /\ memprof \notin Ended /\ child[p] \in {"forked", "caught"}
        /\ UNCHANGED <<memprof, sockets, socket_path, retry_count, socket_paths, term>>
    BY <1>8 DEF execvp, bootVars
  <2>2. /\ child' \in [Procs -> {"none", "forked", "caught", "exited"}]
        /\ child'[p] = "none" /\ \A q \in Procs : q # p => child'[q] = child[q]
    BY <1>2, <1>8 DEF execvp, ControlTypeOK
  <2>3. UNCHANGED windowVars
    BY <1>1, <2>1
  <2>4. GuiStateInv'
    BY <2>1, <2>3 DEF IInv, GuiStateInv, PromptInv, windowVars
  <2>5. ControlTypeOK'
    BY <1>2, <2>1, <2>2 DEF ControlTypeOK
  <2>6. memprof \notin Booting /\ memprof \in Running
    BY <1>2, <2>1 DEF IInv, ControlInv, ControlTypeOK
  <2>7. ControlInv'
    BY <2>1, <2>2, <2>3, <2>5, <2>6 DEF IInv, ControlInv, CleanExit, windowVars, Running, Ended
  <2> QED
    BY <2>1, <2>4, <2>7 DEF IInv, Stepped
<1>9. CASE fatal
  <2>1. gui' = NoWindows /\ prompt' = NoPrompt
    BY <1>1, <1>9 DEF fatal, Ended
  <2> QED
    BY <1>9, <2>1, FatalKeeps
<1> QED
  BY <1>3, <1>4, <1>5, <1>6, <1>7, <1>8, <1>9 DEF Lasting, ControlStep

\* The first window is there, and shown, with or without a program.
LEMMA MainKeeps == IInv /\ main => Stepped
<1> SUFFICES ASSUME IInv, main PROVE Stepped
  OBVIOUS
<1> DEFINE n == process_window_new(gui)
           v == process_window_show(n, 1)
<1>1. /\ memprof = "listen" /\ memprof' = "up" /\ retry_count' = 0
      /\ socket_paths' = socket_paths \cup {socket_path}
      /\ UNCHANGED <<sockets, socket_path, term, prompt>>
      /\ \/ gui' = v /\ UNCHANGED child
         \/ \E p \in Procs : Fresh(p) /\ gui' = run_file(v, 1, p) /\ fork(p)
  BY DEF main
<1>2. gui = NoWindows /\ prompt = NoPrompt
  BY <1>1 DEF IInv, GuiStateInv, Running
<1>3. GuiInv(gui) /\ gui.fate = "up" /\ Len(gui.pwin) = 0 /\ gui.toplevels = <<>>
  BY <1>2, NoWindowsInv DEF NoWindows
<1>4. IsNew(gui, n)
  BY <1>3, NewWindow
<1> HIDE DEF n
<1>5. /\ GuiInv(n) /\ n.fate = "up" /\ n.toplevels = <<1>>
      /\ Len(n.pwin) = 1 /\ ~n.pwin[1].freed /\ n.pwin[1].process = NULL
      /\ n.status = gui.status
  <2>1. Append(gui.toplevels, Len(gui.pwin) + 1) = <<1>>
    BY <1>3
  <2> QED
    BY <1>3, <1>4, <2>1 DEF IsNew
<1>6. /\ GuiInv(v) /\ v.fate = "up" /\ v.pwin = n.pwin /\ v.toplevels = <<1>>
      /\ 1 \in v.shown /\ v.status = gui.status
  BY <1>5, ShowWindow, ShowFollows DEF GuiInv, Follows
<1> HIDE DEF v
<1>7. Visible(v) /\ Len(v.pwin) = 1 /\ 1 \in DOMAIN v.pwin
  BY <1>5, <1>6, Lengths DEF Visible
<1>8. \A q \in Procs : gui.status[q] = "none" /\ child[q] = "none"
  BY <1>1, <1>2 DEF NoWindows, IInv, ControlInv, Booting
<1>9. /\ GuiInv(gui') /\ gui'.fate = "up" /\ Visible(gui') /\ Len(gui'.pwin) = 1
      /\ child' \in [Procs -> {"none", "forked", "caught", "exited"}]
      /\ \A q \in Procs : child'[q] # "exited" /\ (child'[q] # "none" => gui'.status[q] # "none")
  <2>1. CASE gui' = v /\ UNCHANGED child
    BY <1>6, <1>7, <1>8, <2>1 DEF IInv, ControlInv, ControlTypeOK
  <2>2. CASE \E p \in Procs : gui' = run_file(v, 1, p) /\ fork(p)
    <3>p. PICK p \in Procs : gui' = run_file(v, 1, p) /\ fork(p)
      BY <2>2
    <3> DEFINE r == run_file(v, 1, p)
    <3>1. IsRun(v, r, 1, p)
      BY <1>6, <1>7, <1>8, RunFollows
    <3>2. gui' = r
      BY <3>p
    <3> HIDE DEF r
    <3>3. Follows(v, r) /\ r.fate = "up" /\ r.status[p] = "STARTING" /\ Len(r.pwin) = 1
      BY <1>5, <1>6, <3>1 DEF IsRun
    <3>4. /\ child' \in [Procs -> {"none", "forked", "caught", "exited"}]
          /\ child'[p] \in {"forked", "caught"}
          /\ \A q \in Procs : q # p => child'[q] = child[q]
      BY <3>p DEF fork, IInv, ControlInv, ControlTypeOK
    <3>5. Visible(r)
      BY <1>7, <3>3 DEF Follows, Settled
    <3> QED
      BY <1>8, <3>2, <3>3, <3>4, <3>5 DEF Follows
  <2> QED
    BY <1>1, <2>1, <2>2
<1>10. GuiStateInv'
  <2>1. MaxWindows >= 1
    BY WindowsAssumption
  <2>2. memprof' \in Running
    BY <1>1 DEF Running
  <2>3. PromptInv'
    BY <1>1, <1>2, NoWindowsInv DEF PromptInv
  <2> QED
    BY <1>9, <2>1, <2>2, <2>3 DEF GuiStateInv
<1>11. /\ socket_path \in Paths /\ socket_paths = {} /\ sockets[socket_path] = "self"
       /\ term.cleanup /\ term.handler
  BY <1>1 DEF IInv, ControlInv, Booting
<1>12. ControlTypeOK'
  BY <1>1, <1>9, <1>11, ControlAssumption DEF IInv, ControlInv, ControlTypeOK, Running
<1>13. ControlInv'
  BY <1>1, <1>9, <1>11, <1>12 DEF IInv, ControlInv, CleanExit, Booting, Running, Ended
<1> QED
  BY <1>1, <1>10, <1>13 DEF IInv, Stepped

-----------------------------------------------------------------------------
(* The theorems.                                                           *)

LEMMA InitKeeps == Init => IInv
<1> SUFFICES ASSUME Init PROVE IInv
  OBVIOUS
<1>1. GuiStateInv
  BY NoWindowsInv, WindowsAssumption
     DEF Init, ControlInit, GuiStateInv, PromptInv, Running
<1>2. ControlTypeOK
  BY ControlAssumption DEF Init, ControlInit, ControlTypeOK, Booting
<1>3. ControlInv
  BY <1>2 DEF Init, ControlInit, ControlInv, CleanExit, Booting, Running, Ended
<1> QED
  BY <1>1, <1>3 DEF IInv

LEMMA StepKeeps == IInv /\ [Next]_allVars => Stepped
<1>1. IInv /\ UNCHANGED allVars => Stepped
  BY DEF IInv, GuiStateInv, PromptInv, ControlInv, ControlTypeOK, CleanExit, Stepped,
         allVars, windowVars, controlVars, bootVars
<1> QED
  BY <1>1, ControlStepKeeps, OtherKeeps, MainKeeps, ReturnKeeps, ProcessStepKeeps,
     UserStepKeeps, AnswerStepKeeps DEF Next

LEMMA Inductive == Spec => []IInv
<1>1. IInv /\ [Next]_allVars => IInv'
  BY StepKeeps DEF Stepped
<1> QED
  BY <1>1, InitKeeps, PTL DEF Spec

LEMMA InvImplies == IInv => WindowsInv /\ OldestShown /\ SocketOwned
<1> SUFFICES ASSUME IInv PROVE WindowsInv /\ OldestShown /\ SocketOwned
  OBVIOUS
<1>1. /\ gui \in Guis /\ RowInv(gui.pwin, gui.store, gui.status)
      /\ WindowInv(gui.pwin, gui.status) /\ HandlerInv(gui.pwin, gui.handlers, gui.status)
  BY DEF IInv, GuiStateInv, GuiInv
<1>2. \A i \in DOMAIN gui.pwin : gui.pwin[i] \in WindowRecords
  BY <1>1 DEF Guis
<1>3. WindowsTypeOK
  <2>1. Len(gui.pwin) <= MaxWindows
    BY DEF IInv, GuiStateInv
  <2>2. \A i \in DOMAIN gui.pwin : gui.pwin[i].process \in Procs \cup {NULL}
    BY <1>2 DEF WindowRecords
  <2>3. gui.status \in [Procs -> Statuses]
    BY <1>1 DEF Guis
  <2>4. /\ prompt.kind \in {"none", "run", "detach", "kill", "menu"}
        /\ prompt.win \in {Tree} \cup DOMAIN gui.pwin
    BY DEF IInv, GuiStateInv, PromptInv
  <2> QED
    BY <2>1, <2>2, <2>3, <2>4 DEF WindowsTypeOK, IInv, ControlInv, ControlTypeOK
<1>4. OneRowEach
  <2>1. \A i \in DOMAIN gui.pwin :
          Shows(gui.pwin, i) <=> i \in process_windows(gui) /\ gui.pwin[i].process # NULL
    BY DEF Shows, process_windows
  <2>2. {gui.store[k].pwin : k \in DOMAIN gui.store} =
          {i \in process_windows(gui) : gui.pwin[i].process # NULL}
    BY <1>1 DEF RowInv, RowsMatch, Shows, process_windows
  <2>3. IsInjective([k \in DOMAIN gui.store |-> gui.store[k].pwin])
    BY <1>1 DEF RowInv, RowsMatch, IsInjective
  <2> QED
    BY <1>1, <2>2, <2>3 DEF OneRowEach, RowInv
<1>5. TimersSafe
  BY <1>1 DEF TimersSafe, WindowInv, Shows, process_windows
<1>6. HandlersMatch
  <2>1. \A i \in DOMAIN gui.pwin : i # Tree
    BY <1>1 DEF Guis, Tree
  <2> QED
    BY <1>1, <2>1 DEF HandlersMatch, HandlerInv, Ends
<1>7. NoStaleReport
  BY <1>1 DEF NoStaleReport, WindowInv, process_windows
<1>8. OldestShown
  BY DEF IInv, GuiStateInv, Visible, OldestShown
<1>9. SocketOwned
  BY DEF IInv, ControlInv, ControlTypeOK, SocketOwned, OwnSocket
<1> QED
  BY <1>3, <1>4, <1>5, <1>6, <1>7, <1>8, <1>9 DEF WindowsInv

\* A process, its window, and the window's row, timer, handlers and reports come
\* and go together, whatever the order in which processes start, fork, connect, end
\* and are detached (main.c, tree.c).
THEOREM WindowsKept == Spec => []WindowsInv
BY Inductive, InvImplies, PTL

\* Nobody is left with a memprof that shows no window (main.c, check_quit).
THEOREM OldestStays == Spec => []OldestShown
BY Inductive, InvImplies, PTL

\* What cleanup_socket removes is memprof's own socket, and every end of memprof
\* but a crash removes it, except those before its name is in the list: by a signal
\* without a handler, a second signal, or pipe() failing (server.c,
\* create_control_socket, ensure_cleanup, term_handler).
THEOREM SocketStaysOwn == Spec => []SocketOwned
BY Inductive, InvImplies, PTL

\* memprof uses memory it has freed, or a NULL process, only after a dialog or a
\* menu during which the process ended, and on the last words of a detached one.
THEOREM CrashesExcused == Spec => CrashNeeds
<1>1. IInv /\ [Next]_allVars => (memprof # "crashed" /\ memprof' = "crashed" => Excused)
  BY StepKeeps DEF Stepped
<1>2. IInv /\ [Next]_allVars =>
        [memprof # "crashed" /\ memprof' = "crashed" =>
           prompt # NoPrompt \/ \E p \in Procs : gui.status[p] = "DETACHED"]_allVars
  BY <1>1 DEF Excused
<1> QED
  BY <1>2, Inductive, PTL DEF Spec, CrashNeeds

=============================================================================

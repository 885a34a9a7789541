------------------------------- MODULE Speed --------------------------------
(***************************************************************************)
(* The speed interceptor (lib/speedintercept.c, lib/mi-perfctr.c): a       *)
(* program with one thread is interrupted by the signal of a timer, and    *)
(* the handler sends the stack it interrupted as an MI_TIME report.  The   *)
(* handler runs between any two steps of the thread, those of the library  *)
(* included: start-up (construct, mi_start), exec and exit (exit_wait).    *)
(*                                                                         *)
(* The descriptors are part of the state, because a sample is written to   *)
(* whatever thread->outfd names by then.                                   *)
(***************************************************************************)
EXTENDS Integers, Sequences, FiniteSets

CONSTANTS
  Setups,      \* --profile and --rate, with the devices the machine has
  FDs,         \* the descriptors; 0 is the program's standard input
  Can,         \* what may happen besides sampling
  MaxSamples,  \* bound: signals delivered
  MaxOpens,    \* bound: descriptors opened by the program
  MaxExecs     \* bound: execs

ASSUME SpeedAssumption ==
  /\ Setups \subseteq [type : {"time", "cycles"}, rate : Nat,
                       devices : SUBSET {"rtc", "perfctr"}]
  /\ \A s \in Setups : 2 <= s.rate /\ s.rate <= 1000000
  /\ FDs \subseteq Nat /\ {0, 1} \subseteq FDs
  /\ Can \subseteq {"exec", "exit", "detach", "refused", "elide", "noitimer"}
  /\ {MaxSamples, MaxOpens, MaxExecs} \subseteq Nat

VARIABLES
  main,     \* where the thread is
  sig,      \* where the handler that interrupts it is
  held,     \* the numbers taken and not yet written: the thread's, the handler's
  lib,      \* the library's variables in this image
  timers,   \* the timers that will fire
  handled,  \* the signals with a handler
  rtc,      \* the image that has /dev/rtc open: "none", "mine", "earlier"
  fds,      \* the process's descriptors: whose each is
  harm,     \* history: mi_tracing() when the library wrote to, or closed, a
            \* descriptor of the program
  opens, execs, signals,   \* counts, for the bounds
  wire,     \* the reports memprof has not read
  peer,     \* memprof's end: "open", "closed"
  answer,   \* exit_wait's answer was written
  obj,      \* the MPProcess
  taken,    \* history: samples written on this connection
  early,    \* history: a signal came between init_sighandler and profile_type
  setup     \* which of Setups

clientVars == <<main, sig, held, lib, timers, handled, rtc, fds, harm, opens, execs,
                signals, taken, early>>
memprofVars == <<wire, peer, answer, obj>>
speedVars == <<clientVars, memprofVars, setup>>

NoNumber == -1

Places == {"init", "connected", "armed", "handler", "run", "numbered", "stopped",
           "wait", "closed", "leaving", "gone", "killed"}

Alive == main \notin {"gone", "killed"}

\* The library's variables as the loader leaves them.  outfd is 0 and
\* profile_type is SPEED_PROF_RTC, the first of its values.
FreshLib(socket) ==
  [tracing |-> TRUE, socket |-> socket, outfd |-> 0, seqno |-> 0, type |-> "rtc",
   irq_rate |-> 0]

-----------------------------------------------------------------------------
(* Timers.                                                                 *)

\* --rate, in samples per second, as the microseconds of _MEMPROF_INTERVAL:
\* 1000000 / rate, rounded.
profile_interval == (2000000 + setup.rate) \div (2 * setup.rate)

\* What irq_rate, doubled from 1, can be.
Rates == {1, 2, 4, 8, 16, 32, 64, 128, 256, 512, 1024, 2048, 4096, 8192}

\* Variants, each with a plausible bug, are named after the definition they
\* stand in for; no action uses them.
NoCap_irq_rate(interval) ==
  LET Enough == {r \in Rates \cup {2 * s : s \in Rates} : 1000000 \div r <= interval \/ r = 16384}
  IN CHOOSE r \in Enough : \A s \in Enough : r <= s

Early_irq_rate(interval) ==
  LET Enough == {r \in Rates : 1000000 \div (2 * r) <= interval \/ r = 8192}
  IN CHOOSE r \in Enough : \A s \in Enough : r <= s

\* The rate of the real-time clock for an interval: irq_rate is doubled from 1
\* until its period is short enough, or it is the clock's fastest.
irq_rate(interval) ==
  LET Enough == {r \in Rates : 1000000 \div r <= interval \/ r = 8192}
  IN CHOOSE r \in Enough : \A s \in Enough : r <= s

SignalOf(t) == IF t = "itimer" /\ setup.type = "time" THEN "SIGALRM" ELSE "SIGPROF"

\* start_rtc_timer: one process may have /dev/rtc open, and an earlier image of
\* this one still has it.
start_rtc_timer ==
  /\ setup.type = "time" /\ "rtc" \in setup.devices /\ rtc = "none"
  /\ rtc' = "mine"
  /\ timers' = timers \cup {"rtc"}
  /\ lib' = [lib EXCEPT !.irq_rate = irq_rate(profile_interval)]

mi_perfctr_start ==
  /\ setup.type = "cycles" /\ "perfctr" \in setup.devices
  /\ timers' = timers \cup {"perfctr"}
  /\ UNCHANGED <<rtc, lib>>

\* The device that the kind of profile would rather use cannot be had.
NoDevice ==
  /\ setup.type = "time" => ("rtc" \notin setup.devices \/ rtc # "none")
  /\ setup.type = "cycles" => "perfctr" \notin setup.devices

start_itimer_timer ==
  /\ NoDevice
  /\ timers' = timers \cup {"itimer"}
  /\ UNCHANGED <<rtc, lib>>

\* What mi_start has just armed.
Source ==
  CASE setup.type = "time" /\ rtc = "mine" -> "rtc"
    [] setup.type = "cycles" /\ "perfctr" \in setup.devices -> "perfctr"
    [] OTHER -> "itimer"

\* mi_start: the timer is armed before its signal has a handler ...
mi_start ==
  /\ main = "connected" /\ sig = "idle"
  /\ start_rtc_timer \/ mi_perfctr_start \/ start_itimer_timer
  /\ main' = "armed"
  /\ UNCHANGED <<sig, held, handled, fds, harm, opens, execs, signals, taken,
                 early, memprofVars>>

AlwaysProf_init_sighandler ==
  /\ main = "armed" /\ sig = "idle"
  /\ handled' = handled \cup {"SIGPROF"}
  /\ main' = "handler"
  /\ UNCHANGED <<sig, held, lib, timers, rtc, fds, harm, opens, execs, signals, taken,
                 early, memprofVars>>

\* ... the handler is installed ...
init_sighandler ==
  /\ main = "armed" /\ sig = "idle"
  /\ handled' = handled \cup {SignalOf(Source)}
  /\ main' = "handler"
  /\ UNCHANGED <<sig, held, lib, timers, rtc, fds, harm, opens, execs, signals, taken,
                 early, memprofVars>>

\* ... and only then is profile_type, which the handler reads, assigned.
SetType ==
  /\ main = "handler" /\ sig = "idle"
  /\ lib' = [lib EXCEPT !.type = Source]
  /\ main' = "run"
  /\ UNCHANGED <<sig, held, timers, handled, rtc, fds, harm, opens, execs, signals,
                 taken, early, memprofVars>>

-----------------------------------------------------------------------------
(* Descriptors and the connection.                                         *)

Lowest == CHOOSE d \in FDs : fds[d] = "free" /\ \A e \in FDs : fds[e] = "free" => d <= e
SomeFree == \E d \in FDs : fds[d] = "free"

\* close(d), and what it does to the program if d is the program's.
Closes(d) ==
  /\ fds' = [fds EXCEPT ![d] = "free"]
  /\ harm' = IF fds[d] \in {"file", "socket"} THEN harm \cup {lib.tracing} ELSE harm

stop_tracing(l) == [l EXCEPT !.tracing = FALSE, !.socket = "none"]

KeepsOutfd_memprof_init(l) == l

\* What new_process leaves in thread->outfd.
memprof_init(l) == [l EXCEPT !.outfd = Lowest]

\* mi_check_init in a new image: with an empty _MEMPROF_SOCKET ("none") tracing is off;
\* otherwise connect, and be accepted, or refused if memprof has seen the end of
\* the earlier image, or of the parent (control_func).
construct ==
  /\ main = "init" /\ sig = "idle" /\ SomeFree
  /\ main' = "connected"
  /\ \/ /\ lib.socket = "none"
        /\ lib' = [lib EXCEPT !.tracing = FALSE]
        /\ UNCHANGED <<fds, taken, memprofVars>>
     \/ /\ lib.socket # "none" /\ obj.status \notin {"DEFUNCT", "REFUSED"}
        /\ lib' = memprof_init(lib)
        /\ fds' = [fds EXCEPT ![Lowest] = "lib"]
        /\ obj' = [status |-> "RUNNING", seqno |-> 0, queue |-> {}, table |-> {},
                   bytes_used |-> 0]
        /\ wire' = <<>> /\ peer' = "open" /\ taken' = 0
        /\ UNCHANGED <<answer>>
     \/ /\ lib.socket # "none" /\ obj.status \in {"DEFUNCT", "REFUSED"}
        /\ lib' = stop_tracing(memprof_init(lib))
        /\ UNCHANGED <<fds, taken, memprofVars>>
  /\ UNCHANGED <<sig, held, timers, handled, rtc, harm, opens, execs, signals, early>>

\* mi_write: what a record becomes.
CanSend(d) == fds[d] = "lib" /\ peer = "open"
Stray(d)   == fds[d] = "socket"
Written(r) == wire' = Append(wire, r)

-----------------------------------------------------------------------------
(* The signal handler.                                                     *)

\* A timer fires.  The clock goes on; the others fire once.  A signal without a
\* handler ends the program.
Fire(t) ==
  /\ Alive /\ sig = "idle" /\ t \in timers /\ signals < MaxSamples
  /\ signals' = signals + 1
  /\ timers' = IF t = "rtc" THEN timers ELSE timers \ {t}
  /\ IF SignalOf(t) \in handled
     THEN /\ sig' = "fired"
          /\ early' = (early \/ main = "handler")
          /\ UNCHANGED <<main, fds>>
     ELSE /\ main' = "killed"
          /\ fds' = [d \in FDs |-> "free"]
          /\ UNCHANGED <<sig, early>>
  /\ UNCHANGED <<held, lib, handled, rtc, harm, opens, execs, taken, memprofVars>>

\* mi_write_stack takes a number; a bogus stack is elided before it does.
sigprof_handler ==
  /\ sig = "fired"
  /\ \/ /\ "elide" \in Can
        /\ sig' = "reset"
        /\ UNCHANGED <<held, lib>>
     \/ /\ sig' = "write"
        /\ held' = [held EXCEPT !.handler = lib.seqno]
        /\ lib' = [lib EXCEPT !.seqno = @ + 1]
  /\ UNCHANGED <<main, timers, handled, rtc, fds, harm, opens, execs, signals, taken,
                 early, memprofVars>>

\* It writes to thread->outfd, whether tracing is on or not.
WriteSample ==
  /\ sig = "write"
  /\ sig' = "reset"
  /\ held' = [held EXCEPT !.handler = NoNumber]
  /\ \/ /\ CanSend(lib.outfd)
        /\ Written([operation |-> "MI_TIME", seqno |-> held.handler])
        /\ taken' = taken + 1
        /\ UNCHANGED <<lib, fds, harm>>
     \/ /\ Stray(lib.outfd)
        /\ harm' = harm \cup {lib.tracing}
        /\ UNCHANGED <<lib, fds, wire, taken>>
     \/ /\ ~CanSend(lib.outfd) /\ ~Stray(lib.outfd)
        /\ lib' = stop_tracing(lib)
        /\ Closes(lib.outfd)
        /\ UNCHANGED <<wire, taken>>
  /\ UNCHANGED <<main, timers, handled, rtc, opens, execs, signals, early, peer, answer,
                 obj>>

NoResume_reset_itimer_timer ==
  /\ sig = "reset"
  /\ sig' = "idle"
  /\ timers' = IF lib.type = "itimer" THEN timers \cup {"itimer"} ELSE timers
  /\ UNCHANGED <<main, held, lib, handled, rtc, fds, harm, opens, execs, signals, taken,
                 early, memprofVars>>

OnlyTracing_reset_itimer_timer ==
  /\ sig = "reset"
  /\ sig' = "idle"
  /\ timers' = IF lib.type = "itimer" /\ lib.tracing THEN timers \cup {"itimer"} ELSE timers
  /\ UNCHANGED <<main, held, lib, handled, rtc, fds, harm, opens, execs, signals, taken,
                 early, memprofVars>>

\* reset_itimer_timer, or VPERFCTR_IRESUME, as the handler returns.
reset_itimer_timer ==
  /\ sig = "reset"
  /\ sig' = "idle"
  /\ timers' = IF lib.type = "itimer" THEN timers \cup {"itimer"}
               ELSE IF Source = "perfctr" THEN timers \cup {"perfctr"}
               ELSE timers
  /\ UNCHANGED <<main, held, lib, handled, rtc, fds, harm, opens, execs, signals, taken,
                 early, memprofVars>>

-----------------------------------------------------------------------------
(* The program.                                                            *)

InProgram == main \in {"run", "leaving"} /\ sig = "idle"

Open(kind) ==
  /\ InProgram /\ opens < MaxOpens /\ SomeFree
  /\ opens' = opens + 1
  /\ fds' = [fds EXCEPT ![Lowest] = kind]
  /\ UNCHANGED <<main, sig, held, lib, timers, handled, rtc, harm, execs, signals, taken,
                 early, memprofVars>>

\* execve: handlers go, the socket is FD_CLOEXEC; timers and /dev/rtc stay.
execve ==
  /\ "exec" \in Can /\ main = "run" /\ sig = "idle" /\ execs < MaxExecs
  /\ execs' = execs + 1
  /\ main' = "init"
  /\ lib' = FreshLib(IF lib.tracing THEN lib.socket ELSE "none")
  /\ handled' = {}
  /\ rtc' = IF rtc = "none" THEN "none" ELSE "earlier"
  /\ fds' = [d \in FDs |-> IF fds[d] = "lib" THEN "free" ELSE fds[d]]
  /\ early' = FALSE
  /\ UNCHANGED <<sig, held, timers, harm, opens, signals, taken, memprofVars>>

\* atexit_trap, and the _exit() of mi_start when no timer can be had.
atexit_trap ==
  /\ sig = "idle"
  /\ \/ main = "run" /\ "exit" \in Can
     \/ main = "connected" /\ "noitimer" \in Can /\ NoDevice
  /\ IF lib.tracing
     THEN /\ main' = "numbered"
          /\ held' = [held EXCEPT !.thread = lib.seqno]
          /\ lib' = [lib EXCEPT !.seqno = @ + 1]
     ELSE /\ main' = "leaving"
          /\ UNCHANGED <<held, lib>>
  /\ UNCHANGED <<sig, timers, handled, rtc, fds, harm, opens, execs, signals, taken,
                 early, memprofVars>>

\* mi_stop stops the clock, and no other timer.
mi_stop ==
  /\ main = "numbered" /\ sig = "idle"
  /\ main' = "stopped"
  /\ IF lib.type = "rtc" /\ rtc = "mine"
     THEN timers' = timers \ {"rtc"} /\ rtc' = "none"
     ELSE UNCHANGED <<timers, rtc>>
  /\ UNCHANGED <<sig, held, lib, handled, fds, harm, opens, execs, signals, taken, early, memprofVars>>

\* exit_wait sends MI_EXIT; if that fails it does not wait.
exit_wait ==
  /\ main = "stopped" /\ sig = "idle"
  /\ held' = [held EXCEPT !.thread = NoNumber]
  /\ \/ /\ CanSend(lib.outfd)
        /\ Written([operation |-> "MI_EXIT", seqno |-> held.thread])
        /\ main' = "wait"
        /\ UNCHANGED <<fds, harm>>
     \/ /\ ~CanSend(lib.outfd)
        /\ main' = "closed"
        /\ Closes(lib.outfd)
        /\ UNCHANGED wire
  /\ UNCHANGED <<sig, lib, timers, handled, rtc, opens, execs, signals, taken, early, peer, answer, obj>>

NeedsEOF_ExitAnswer ==
  /\ main = "wait" /\ sig = "idle" /\ peer = "closed"
  /\ main' = "closed"
  /\ Closes(lib.outfd)
  /\ UNCHANGED <<sig, held, lib, timers, handled, rtc, opens, execs, signals, taken,
                 early, memprofVars>>

\* The read() returns; a signal does not end it (SA_RESTART).
ExitAnswer ==
  /\ main = "wait" /\ sig = "idle" /\ (answer \/ peer = "closed")
  /\ main' = "closed"
  /\ Closes(lib.outfd)
  /\ UNCHANGED <<sig, held, lib, timers, handled, rtc, opens, execs, signals, taken,
                 early, memprofVars>>

\* tracing = 0; what is left of exit() runs.
ExitDone ==
  /\ main = "closed" /\ sig = "idle"
  /\ main' = "leaving"
  /\ lib' = [lib EXCEPT !.tracing = FALSE]
  /\ UNCHANGED <<sig, held, timers, handled, rtc, fds, harm, opens, execs, signals, taken,
                 early, memprofVars>>

Leave ==
  /\ main = "leaving" /\ sig = "idle"
  /\ main' = "gone"
  /\ fds' = [d \in FDs |-> "free"]
  /\ UNCHANGED <<sig, held, lib, timers, handled, rtc, harm, opens, execs, signals, taken,
                 early, memprofVars>>

-----------------------------------------------------------------------------
(* memprof.                                                                *)

\* A sample is a block at an address made from the next number.
NoAddress_Counts(o, r) == [o EXCEPT !.table = @ \cup {0},
                                    !.bytes_used = IF 0 \in o.table THEN @ ELSE @ + 1]

Counts(o, r) ==
  IF r.operation = "MI_TIME" /\ o.seqno \notin o.table
  THEN [o EXCEPT !.table = @ \cup {o.seqno}, !.bytes_used = @ + 1]
  ELSE o

\* process_command once, on the report with the number that is due.
Due(o, r) == Counts([o EXCEPT !.seqno = @ + 1], r)

NoLoop_process_command(o, r) ==
  IF r.seqno = o.seqno THEN Due(o, r) ELSE [o EXCEPT !.queue = @ \cup {r}]

\* process_command, with the loop over the queue.
process_command(o, r) ==
  LET Drains(p) ==
        LET q == CHOOSE q \in p.queue : \A x \in p.queue : q.seqno <= x.seqno
        IN IF q.seqno = p.seqno THEN Due([p EXCEPT !.queue = @ \ {q}], q) ELSE p
      after[k \in 0..Cardinality(o.queue)] ==
        IF k = 0 THEN Due(o, r)
        ELSE IF after[k - 1].queue = {} THEN after[k - 1] ELSE Drains(after[k - 1])
  IN IF r.seqno = o.seqno THEN after[Cardinality(o.queue)]
     ELSE [o EXCEPT !.queue = @ \cup {r}]

\* input_func: one report.
input_func ==
  /\ peer = "open" /\ wire # <<>>
  /\ LET r == Head(wire)
         o == process_command(obj, r)
     IN obj' = IF r.operation = "MI_EXIT" THEN [o EXCEPT !.status = "EXITING"] ELSE o
  /\ wire' = Tail(wire)
  /\ UNCHANGED <<clientVars, peer, answer>>

\* input_func reads nothing: the library's end is closed.
InputEOF ==
  /\ obj.status \in {"RUNNING", "EXITING", "DETACHED"}
  /\ peer = "closed" \/ (wire = <<>> /\ \A d \in FDs : fds[d] # "lib")
  /\ peer' = "closed"
  /\ obj' = [obj EXCEPT !.status = "DEFUNCT"]
  /\ UNCHANGED <<clientVars, wire, answer>>

\* The user detaches: an answer to exit_wait, or the channel is shut down.
process_detach ==
  /\ "detach" \in Can /\ peer = "open"
  /\ \/ /\ obj.status = "EXITING" /\ ~answer
        /\ answer' = TRUE
        /\ UNCHANGED <<peer, obj, wire>>
     \/ /\ obj.status = "RUNNING"
        /\ peer' = "closed" /\ wire' = <<>>
        /\ obj' = [obj EXCEPT !.status = "DETACHED"]
        /\ UNCHANGED answer
  /\ UNCHANGED clientVars

-----------------------------------------------------------------------------
\* A program run by memprof, or what a child that was refused has exec()ed.
SpeedInit ==
  /\ main = "init" /\ sig = "idle"
  /\ held = [thread |-> NoNumber, handler |-> NoNumber]
  /\ timers = {} /\ handled = {} /\ rtc = "none"
  /\ fds = [d \in FDs |-> IF d = 0 THEN "file" ELSE "free"]
  /\ harm = {} /\ opens = 0 /\ execs = 0 /\ signals = 0
  /\ wire = <<>> /\ peer = "closed" /\ answer = FALSE
  /\ taken = 0 /\ early = FALSE
  /\ \E refused \in {"refused" \in Can, FALSE} :
       /\ lib = FreshLib(IF refused THEN "none" ELSE "memprof")
       /\ obj = [status |-> IF refused THEN "REFUSED" ELSE "STARTING", seqno |-> 0,
                 queue |-> {}, table |-> {}, bytes_used |-> 0]
  /\ setup \in Setups

HandlerStep == sigprof_handler \/ WriteSample \/ reset_itimer_timer
StartStep == construct \/ mi_start \/ init_sighandler \/ SetType
ExitStep == mi_stop \/ exit_wait \/ ExitAnswer \/ ExitDone \/ Leave
ServerStep == input_func \/ InputEOF

SpeedNext ==
  /\ \/ HandlerStep \/ StartStep \/ ExitStep \/ ServerStep
     \/ \E t \in timers : Fire(t)
     \/ \E kind \in {"file", "socket"} : Open(kind)
     \/ execve \/ atexit_trap \/ process_detach
  /\ UNCHANGED setup

SpeedSpec == SpeedInit /\ [][SpeedNext]_speedVars

\* The kernel delivers what is due and runs what can run, the library included;
\* the main loop serves its sources.  Nobody has to exec, exit or detach.
SpeedFairness ==
  /\ WF_speedVars(HandlerStep /\ UNCHANGED setup)
  /\ WF_speedVars(StartStep /\ UNCHANGED setup)
  /\ WF_speedVars(ExitStep /\ UNCHANGED setup)
  /\ WF_speedVars(ServerStep /\ UNCHANGED setup)
  /\ WF_speedVars((\E t \in timers : Fire(t)) /\ UNCHANGED setup)

FairSpeed == SpeedSpec /\ SpeedFairness

-----------------------------------------------------------------------------
Records == [operation : {"MI_TIME", "MI_EXIT"}, seqno : Nat]

SpeedTypeOK ==
  /\ main \in Places /\ sig \in {"idle", "fired", "write", "reset"}
  /\ held \in [thread : Nat \cup {NoNumber}, handler : Nat \cup {NoNumber}]
  /\ lib \in [tracing : BOOLEAN, socket : {"none", "memprof"}, outfd : FDs, seqno : Nat,
              type : {"rtc", "perfctr", "itimer"}, irq_rate : Nat]
  /\ timers \subseteq {"rtc", "perfctr", "itimer"}
  /\ handled \subseteq {"SIGPROF", "SIGALRM"}
  /\ rtc \in {"none", "mine", "earlier"}
  /\ fds \in [FDs -> {"free", "lib", "file", "socket"}]
  /\ harm \subseteq BOOLEAN
  /\ wire \in Seq(Records) /\ peer \in {"open", "closed"} /\ answer \in BOOLEAN
  /\ obj \in [status : {"STARTING", "RUNNING", "EXITING", "DETACHED", "DEFUNCT",
                        "REFUSED"},
              seqno : Nat, queue : SUBSET Records, table : SUBSET Nat, bytes_used : Nat]
  /\ taken \in Nat /\ early \in BOOLEAN /\ setup \in Setups

Samples(S) == {r \in S : r.operation = "MI_TIME"}
Unread == {wire[i] : i \in DOMAIN wire}

\* "%d samples" (update_status): every sample that reached the connection is
\* counted once, is unread or waits in the queue, however the handler's numbers
\* and exit_wait's come to be out of order.
SamplesCounted ==
  peer = "open" =>
    obj.bytes_used + Cardinality(Samples(obj.queue)) + Cardinality(Samples(Unread)) = taken

\* When no number is held and nothing is unread, memprof expects the next number
\* and nothing is left in the queue, MI_EXIT's late arrival included.
SamplesInStep ==
  /\ CanSend(lib.outfd) /\ wire = <<>>
  /\ held = [thread |-> NoNumber, handler |-> NoNumber]
  => obj.seqno = lib.seqno /\ obj.queue = {}

\* As long as tracing is on, exec and exit included, no sample is written to, and
\* nothing closes, a descriptor of the program: thread->outfd names the socket, or
\* nothing that the program could have opened since.
OwnDescriptors == TRUE \notin harm

\* The one-shot timers are armed whenever the program runs: each handler re-arms
\* its own, elided samples and failed writes included, unless its signal came
\* before mi_start had set profile_type.
StaysArmed ==
  main = "run" /\ sig = "idle" => Source \in timers \/ early

\* Once this image has its handler every timer that can fire has one, except a
\* clock that an earlier image of the program left running.
SignalsHandled ==
  handled # {} =>
    \A t \in timers : SignalOf(t) \in handled \/ (t = "rtc" /\ rtc = "earlier")

\* "Number of samples/sec for time profile": the clock's period is at most the
\* one asked for, and more than half of it, unless its fastest is too slow.
ClockFollows ==
  "rtc" \in timers /\ rtc = "mine" =>
    /\ lib.irq_rate <= 8192
    /\ lib.irq_rate < 8192 => 1000000 < (profile_interval + 1) * lib.irq_rate
    /\ lib.irq_rate * profile_interval < 2 * 1000000

\* A program that runs is sampled again and again.
SamplingGoesOn ==
  \A n \in 1..MaxSamples :
    (main = "run" /\ ~early /\ signals = n - 1) ~>
      (main # "run" \/ early \/ signals >= n)

\* exit() of a program that is being sampled ends: the samples taken meanwhile do
\* not keep exit_wait, once it is answered, from returning.
ExitReturns == (main = "wait" /\ answer) ~> main \in {"gone", "killed"}

\* The timer that was asked for runs, at its rate, with a handler for its signal.
SpeedInv == SpeedTypeOK /\ StaysArmed /\ SignalsHandled /\ ClockFollows

\* memprof's number of samples is right at any moment, and its queue empties.
SamplesKept == SamplesCounted /\ SamplesInStep

=============================================================================

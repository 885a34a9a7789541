------------------------------- MODULE Meter --------------------------------
(***************************************************************************)
(* What a window shows of the memory in use (src/main.c, update_status and *)
(* on_usage_area_expose; src/detailwin.c, dw_update and dw_draw_memstats): *)
(* the usage meter, whose scale doubles as it fills, the high water mark,  *)
(* and the graph of the last MEMSTATS updates.                             *)
(***************************************************************************)
EXTENDS Integers, Sequences, FiniteSetsExt

CONSTANTS
  Width,     \* the bits of a guint
  Scale,     \* usage_max at the start: 32*1024
  MEMSTATS,  \* the length of the history
  Levels,    \* the values that bytes_used takes
  Extent     \* the width of the meter and the height of the graph, in pixels

\* The powers of two up to the modulus of a guint.
Power[n \in 0 .. Width] == IF n = 0 THEN 1 ELSE 2 * Power[n - 1]
GuintMod == Power[Width]

ASSUME MeterAssumption ==
  /\ Width \in Nat \ {0} /\ MEMSTATS \in Nat \ {0} /\ Extent \in Nat \ {0}
  /\ \E k \in 0 .. (Width - 1) : Scale = Power[k]
  /\ 0 \in Levels /\ Levels \subseteq 0 .. (GuintMod - 1)

VARIABLES
  process,     \* whether the window has a process
  bytes_used,  \* process->bytes_used
  usage_max,
  usage_high,
  memstats,    \* newest first: bytes_used, usage_high, and, for the properties,
               \* what made the entry and whether that was since the last reset
  meter        \* "up", or "hung" in update_status

meterVars == <<process, bytes_used, usage_max, usage_high, memstats, meter>>

Blank == [bytes |-> 0, high |-> 0, by |-> "none", now |-> FALSE]

\* dw_update, with the values that its caller has just set.
dw_update(stats, bytes, high, by, now) ==
  <<[bytes |-> bytes, high |-> high, by |-> by, now |-> now]>> \o SubSeq(stats, 1, MEMSTATS - 1)

NoHigh_process_window_reset(bytes) ==
  /\ usage_max' = Scale /\ UNCHANGED usage_high
  /\ LET past == [i \in DOMAIN memstats |-> [memstats[i] EXCEPT !.now = FALSE]]
     IN memstats' = IF process' THEN dw_update(past, bytes, usage_high, "reset", FALSE) ELSE past

Clears_process_window_reset(bytes) ==
  /\ usage_max' = 0 /\ usage_high' = 0
  /\ LET past == [i \in DOMAIN memstats |-> [memstats[i] EXCEPT !.now = FALSE]]
     IN memstats' = IF process' THEN dw_update(past, bytes, 0, "reset", FALSE) ELSE past

\* The history stays, and gets an entry if there is a process.
process_window_reset(bytes) ==
  /\ usage_max' = Scale /\ usage_high' = 0
  /\ LET past == [i \in DOMAIN memstats |-> [memstats[i] EXCEPT !.now = FALSE]]
     IN memstats' = IF process' THEN dw_update(past, bytes, 0, "reset", FALSE) ELSE past

-----------------------------------------------------------------------------
(* The meter's scale.                                                      *)

\* usage_max after k times round "while (bytes_used > usage_max) usage_max *= 2":
\* after the highest bit it is 0, for ever.
Doubled[k \in 0 .. Width] ==
  IF k = 0 THEN usage_max ELSE (2 * Doubled[k - 1]) % GuintMod

Strict_Stops == {k \in 0 .. Width : bytes_used < Doubled[k]}

\* When the loop can stop.
Stops == {k \in 0 .. Width : bytes_used <= Doubled[k]}

Late_update_status ==
  /\ meter = "up" /\ process
  /\ \/ /\ Stops # {}
        /\ usage_max' = Doubled[Min(Stops)]
        /\ usage_high' = Max({bytes_used, usage_high})
        /\ memstats' = dw_update(memstats, bytes_used, usage_high, "tick", TRUE)
        /\ UNCHANGED meter
     \/ /\ Stops = {}
        /\ meter' = "hung"
        /\ UNCHANGED <<usage_max, usage_high, memstats>>
  /\ UNCHANGED <<process, bytes_used>>

\* The timer, every 100 ms.
update_status ==
  /\ meter = "up" /\ process
  /\ \/ /\ Stops # {}
        /\ usage_max' = Doubled[Min(Stops)]
        /\ usage_high' = Max({bytes_used, usage_high})
        /\ memstats' = dw_update(memstats, bytes_used, usage_high', "tick", TRUE)
        /\ UNCHANGED meter
     \/ /\ Stops = {}
        /\ meter' = "hung"
        /\ UNCHANGED <<usage_max, usage_high, memstats>>
  /\ UNCHANGED <<process, bytes_used>>

\* The length of a bar of the meter, and the height of one of the graph.
on_usage_area_expose(value) == (Extent * value) \div usage_max
dw_draw_memstats(value) == IF usage_high > 0 THEN (Extent * value) \div usage_high ELSE 0

-----------------------------------------------------------------------------
(* What else happens to the window.                                        *)

\* process_command.
Command ==
  /\ meter = "up" /\ process
  /\ bytes_used' \in Levels
  /\ UNCHANGED <<process, usage_max, usage_high, memstats, meter>>

\* The button of the memory map: an entry between two updates.
draw_memmap_toggled_cb ==
  /\ meter = "up" /\ process
  /\ memstats' = dw_update(memstats, bytes_used, usage_high, "toggle", TRUE)
  /\ UNCHANGED <<process, bytes_used, usage_max, usage_high, meter>>

\* The window is reset, then the process.
reset_profile_cb ==
  /\ meter = "up" /\ UNCHANGED process
  /\ process_window_reset(bytes_used)
  /\ bytes_used' = 0
  /\ UNCHANGED meter

\* process_exec_reset: the process, then, in reset_cb, the window.
reset_cb ==
  /\ meter = "up" /\ process /\ UNCHANGED process
  /\ bytes_used' = 0
  /\ process_window_reset(0)
  /\ UNCHANGED meter

\* status_changed_cb: the process of the last window has ended.
status_changed_cb ==
  /\ meter = "up" /\ process
  /\ process' = FALSE /\ bytes_used' = 0
  /\ process_window_reset(0)
  /\ UNCHANGED meter

\* run_file: another program in the same window.
init_process ==
  /\ meter = "up" /\ ~process
  /\ process' = TRUE
  /\ UNCHANGED <<bytes_used, usage_max, usage_high, memstats, meter>>

MeterInit ==
  /\ process = FALSE /\ bytes_used = 0
  /\ usage_max = Scale /\ usage_high = 0
  /\ memstats = [i \in 1 .. MEMSTATS |-> Blank]
  /\ meter = "up"

MeterNext ==
  \/ update_status \/ Command \/ draw_memmap_toggled_cb
  \/ reset_profile_cb \/ reset_cb \/ status_changed_cb \/ init_process

MeterSpec == MeterInit /\ [][MeterNext]_meterVars

-----------------------------------------------------------------------------
(* What must hold.                                                         *)

MeterTypeOK ==
  /\ process \in BOOLEAN /\ bytes_used \in Levels
  /\ usage_max \in {Power[k] : k \in 0 .. (Width - 1)} /\ Scale <= usage_max
  /\ usage_high \in Levels /\ meter \in {"up", "hung"}
  /\ Len(memstats) = MEMSTATS

\* The high water mark is always on the meter's scale, and the scale is the
\* smallest that holds it: whatever resets, execs and new programs come between
\* two updates, usage_max and usage_high (main.c, update_status and
\* process_window_reset) are about the same measurements.
ScaleTight ==
  /\ on_usage_area_expose(usage_high) <= Extent
  /\ usage_high <= usage_max
  /\ usage_max = Scale \/ 2 * usage_high > usage_max

\* The bars of the graph that updates of the present measurement made are not
\* higher than the graph, and the marks do not fall from one to the next
\* (detailwin.c divides by the mark of now).
GraphFits ==
  \A i \in DOMAIN memstats :
    memstats[i].now /\ memstats[i].by = "tick" =>
      /\ dw_draw_memstats(memstats[i].bytes) <= dw_draw_memstats(memstats[i].high)
      /\ dw_draw_memstats(memstats[i].high) <= Extent
      /\ memstats[i].bytes <= memstats[i].high
      /\ \A j \in DOMAIN memstats :
           j < i /\ memstats[j].now => memstats[i].high <= memstats[j].high

\* update_status comes back unless the program uses more than the half of what a
\* guint counts: usage_max can be doubled up to the highest bit.
HangNeedsHalf == meter = "hung" => 2 * bytes_used > GuintMod

\* The meter's scale fits its mark, and can be found unless the counter is half
\* full.
MeterInv == MeterTypeOK /\ ScaleTight /\ HangNeedsHalf

=============================================================================

------------------------------ MODULE MCSpeed -------------------------------
(***************************************************************************)
(* An instance of Speed for TLC: both kinds of profile, with and without   *)
(* the device that each would rather use.                                  *)
(***************************************************************************)
EXTENDS Speed

MCSetups ==
  {[type |-> "time", rate |-> 1025, devices |-> {"rtc"}],
   [type |-> "time", rate |-> 1000000, devices |-> {"rtc"}],
   [type |-> "time", rate |-> 1000, devices |-> {}],
   [type |-> "cycles", rate |-> 1000, devices |-> {"perfctr"}],
   [type |-> "cycles", rate |-> 1000, devices |-> {}]}

=============================================================================

----------------------------- MODULE MCTracing ------------------------------
(***************************************************************************)
(* Instances of Tracing for TLC.                                           *)
(***************************************************************************)
EXTENDS TracingInv

\* Model values for the threads (Main is one of them) and the addresses.
CONSTANTS t1, t2, t3, a1, a2

=============================================================================

----------------------------- MODULE MCWindows ------------------------------
(***************************************************************************)
(* Instance of Windows: three processes in up to three windows, and one    *)
(* name that another memprof wants as well.                                *)
(***************************************************************************)
EXTENDS Windows

=============================================================================

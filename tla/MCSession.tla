----------------------------- MODULE MCSession ------------------------------
(***************************************************************************)
(* Instances of Session for TLC.  Process ids, and addresses, are           *)
(* interchangeable.                                                         *)
(***************************************************************************)
EXTENDS Session, TLC

Interchangeable == Permutations(Pids) \cup Permutations(Addrs)

=============================================================================

---- MODULE MCLookup ----
(* A program at its link address, the same program position independent,   *)
(* and at two places above it three libraries: one with three functions,   *)
(* one with a single function that fits either place, one without any.     *)
EXTENDS Lookup

MCMaps ==
  {[addr |-> 8, size |-> 8, exe |-> TRUE, bias |-> 0, functions |-> {9, 11, 12, 15}],
   [addr |-> 8, size |-> 8, exe |-> TRUE, bias |-> 8, functions |-> {1, 2, 5, 7}]}
  \cup {[addr |-> b, size |-> 4, exe |-> FALSE, bias |-> b, functions |-> {1}] : b \in {16, 20}}
  \cup {[addr |-> 16, size |-> 4, exe |-> FALSE, bias |-> 16, functions |-> {0, 2, 3}],
        [addr |-> 20, size |-> 4, exe |-> FALSE, bias |-> 20, functions |-> {}]}
====

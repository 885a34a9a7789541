---- MODULE MCLeakDetect ----
(* A program with two threads, one data section and a stack of a word each,  *)
(* and three blocks, the last of which ends with the memory that is mapped.  *)
EXTENDS LeakDetect

MCHeap == {[addr |-> 32, size |-> 6], [addr |-> 40, size |-> 4], [addr |-> 44, size |-> 3]}
MCSections == {[addr |-> 8, size |-> 4]}
MCStack == [lo |-> 24, hi |-> 28, perms |-> "rw-p"]
MCReadable == {8, 24, 32, 36, 40, 44}
MCPointers == {0, 32, 37, 40}
MCListings == {Threads}
====

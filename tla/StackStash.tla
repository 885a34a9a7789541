----------------------------- MODULE StackStash -----------------------------
(***************************************************************************)
(* The stash in which memprof keeps the stacks of all blocks               *)
(* (src/stackstash.c): a tree whose nodes are addresses, the outermost     *)
(* callers at the root, so that stacks share what they have in common.     *)
(* A node is known by its number; 0 is NULL.  The counts, the toplevel     *)
(* flag and the table of nodes by address, which decorate_node keeps, are   *)
(* left out: nothing in memprof reads them.                                *)
(***************************************************************************)
EXTENDS Integers, Sequences, SequencesExt

NewStash == [nodes |-> <<>>, root |-> 0]

\* *location, for the children of p or, when p is NULL, for the root.
Location(stash, p) == IF p = 0 THEN stash.root ELSE stash.nodes[p].children

\* The nodes of a list of siblings, which begins at n.
Siblings(stash, n) ==
  LET list[k \in 0..Len(stash.nodes)] ==
        IF k = 0 THEN {} ELSE {k} \cup list[stash.nodes[k].siblings]
  IN  list[n]

\* The nodes below p for address a.
Matches(stash, p, a) ==
  {n \in Siblings(stash, Location(stash, p)) : stash.nodes[n].address = a}

\* stack_node_new, put at the head of the list at *location.
stack_node_new(stash, p, a) ==
  LET n    == Len(stash.nodes) + 1
      node == [address |-> a, parent |-> p, siblings |-> Location(stash, p), children |-> 0]
      grown == Append(stash.nodes, node)
  IN  IF p = 0 THEN [nodes |-> grown, root |-> n]
               ELSE [stash EXCEPT !.nodes = [grown EXCEPT ![p].children = n]]

\* The mutated forms take any node below p, and make a node each time.
AnyNode_Below(acc, a) ==
  LET found == Siblings(acc.stash, Location(acc.stash, acc.node)) IN
  IF found # {}
  THEN [acc EXCEPT !.node = CHOOSE n \in found : TRUE]
  ELSE [stash |-> stack_node_new(acc.stash, acc.node, a), node |-> Len(acc.stash.nodes) + 1]

NoMatch_Below(acc, a) ==
  [stash |-> stack_node_new(acc.stash, acc.node, a), node |-> Len(acc.stash.nodes) + 1]

\* One round of the loop: the node for a below p, found or made.
Below(acc, a) ==
  LET found == Matches(acc.stash, acc.node, a) IN
  IF found # {}
  THEN [acc EXCEPT !.node = CHOOSE n \in found : TRUE]
  ELSE [stash |-> stack_node_new(acc.stash, acc.node, a), node |-> Len(acc.stash.nodes) + 1]

\* The stash with the stack addrs, innermost address first, and its node.
stack_stash_add_trace(stash, addrs) ==
  FoldLeft(Below, [stash |-> stash, node |-> 0], Reverse(addrs))

\* The addresses from a node up: element->parent, until NULL.
Upwards(stash, n) ==
  LET up[k \in 0..Len(stash.nodes)] ==
        IF k = 0 THEN <<>> ELSE <<stash.nodes[k].address>> \o up[stash.nodes[k].parent]
  IN  up[n]

=============================================================================

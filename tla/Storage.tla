------------------------------ MODULE Storage ------------------------------
(***************************************************************************)
(* XPSPL\Storage: an ordered map with ONE internal pointer.                *)
(*                                                                         *)
(* A PHP array keeps its nodes in insertion order, and the Iterator        *)
(* methods of Storage (rewind, valid, current, next) all act on the        *)
(* array's own pointer: two loops over the same storage share it.  A       *)
(* storage is a record                                                     *)
(*   nodes: the sequence of its nodes [key, val], in insertion order,      *)
(*   ptr:   the position of the pointer; Len(nodes) + 1 is past the end.   *)
(* With a position for the pointer the two PHP rules that matter come out  *)
(* by themselves: unsetting the node under the pointer leaves the pointer  *)
(* on the node after it, and a node appended while the pointer is past the *)
(* end becomes the current one.                                            *)
(***************************************************************************)
EXTENDS Integers, Sequences, SequencesExt

Node(k, v) == [key |-> k, val |-> v]

empty == [nodes |-> <<>>, ptr |-> 1]

count(s) == Len(s.nodes)

keys(s) == {s.nodes[i].key : i \in DOMAIN s.nodes}

vals(s) == {s.nodes[i].val : i \in DOMAIN s.nodes}

\* The position of key k, which exactly one node of s has.
PosOf(s, k) == CHOOSE i \in DOMAIN s.nodes : s.nodes[i].key = k

valid(s) == s.ptr \in DOMAIN s.nodes

current(s) == s.nodes[s.ptr].val

\* Mutant: reset() forgets to move the pointer.
reset_Forgotten(s) == s

reset(s) == [s EXCEPT !.ptr = 1]

next(s) == IF valid(s) THEN [s EXCEPT !.ptr = @ + 1] ELSE s

\* end() moves the pointer to the last node; an empty array has none.
end(s) == IF s.nodes = <<>> THEN s ELSE [s EXCEPT !.ptr = Len(s.nodes)]

offsetExists(s, k) == k \in keys(s)

offsetGet(s, k) == s.nodes[PosOf(s, k)].val

\* Assigning to an existing key keeps its place, a new key goes to the end.
offsetSet(s, k, v) ==
  IF offsetExists(s, k)
    THEN [s EXCEPT !.nodes[PosOf(s, k)] = Node(k, v)]
    ELSE [s EXCEPT !.nodes = Append(@, Node(k, v))]

\* Mutant: a node removed under the pointer pulls it back as well.
unsetAt_Under(s, i) ==
  [nodes |-> RemoveAt(s.nodes, i),
   ptr   |-> IF i <= s.ptr THEN s.ptr - 1 ELSE s.ptr]

\* A node removed before the pointer shifts it back, so that it stays on the
\* same node; a node removed under the pointer leaves it on the next one.
unsetAt(s, i) ==
  [nodes |-> RemoveAt(s.nodes, i),
   ptr   |-> IF i < s.ptr THEN s.ptr - 1 ELSE s.ptr]

offsetUnset(s, k) ==
  IF offsetExists(s, k) THEN unsetAt(s, PosOf(s, k)) ELSE s

\* What every reachable storage satisfies: keys are unique, and the pointer
\* is on a node or just past the last one.
WellFormedStorage(s) ==
  /\ \A i, j \in DOMAIN s.nodes : s.nodes[i].key = s.nodes[j].key => i = j
  /\ s.ptr \in 1..(Len(s.nodes) + 1)
=============================================================================

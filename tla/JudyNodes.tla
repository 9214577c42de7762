------------------------------ MODULE JudyNodes ------------------------------
(***************************************************************************)
(* What the arrays of strings are made of: JudyL arrays whose values are   *)
(* pointers to further arrays, and leaves that hold the rest of a string.  *)
(* A JudyL array is taken here for the map from words to values that it is *)
(* (JudyMap); a null pointer is an array of no words.                      *)
(***************************************************************************)
EXTENDS Integers, Sequences, SequencesExt

CONSTANTS WORDSIZE,  \* characters in a word
          CHARS      \* values of a character

ASSUME NodesConstants == WORDSIZE \in Nat \ {0} /\ CHARS \in Nat \ {0, 1}

NULL          == [null |-> TRUE]
Nil           == [kind |-> "NULL"]
Leaf(str, v)  == [kind |-> "LEAF", str |-> str, val |-> v]
Array(at)     == [kind |-> "ARRAY", at |-> at]
Value(v)      == [kind |-> "VALUE", val |-> v]
WordsOf(node) == IF node = Nil THEN {} ELSE DOMAIN node.at
Put(node, w, x) == IF node = Nil THEN Array(w :> x) ELSE Array((w :> x) @@ node.at)

(* The first characters of a string as a number, and the characters after  *)
(* them; a string that ends inside the word is filled with zeros.          *)
COPYSTRINGtoWORD(s) ==
  FoldLeft(LAMBDA w, i : w * CHARS + IF i <= Len(s) THEN s[i] ELSE 0, 0, [i \in 1 .. WORDSIZE |-> i])
Rest(s) == SubSeq(s, WORDSIZE + 1, Len(s))
CeilWords(n) == (n + WORDSIZE - 1) \div WORDSIZE

(* The memory state of a call: heap is the words malloc() has handed out   *)
(* for leaves and not got back, left the malloc()s that still succeed.     *)
Result(rc, node, m) == [rc |-> rc, node |-> node, m |-> m]
JudyMalloc(m, n)    == IF m.left = 0 THEN [m EXCEPT !.refused = TRUE]
                       ELSE [m EXCEPT !.left = @ - 1, !.heap = @ + n]
JudyFree(m, n)      == [m EXCEPT !.heap = @ - n]

(* JudyLIns makes room for a word, JudyLDel takes one away; either may     *)
(* need a node of another size, unless the last word goes.                 *)
JudyLIns(node, w, m) ==
  IF w \in WordsOf(node) THEN Result(1, node, m)
  ELSE IF m.left = 0 THEN Result(-1, node, JudyMalloc(m, 0))
  ELSE Result(1, Put(node, w, Nil), JudyMalloc(m, 0))
JudyLDel(node, w, m) ==
  IF w \notin WordsOf(node) THEN Result(0, node, m)
  ELSE IF WordsOf(node) = {w} THEN Result(1, Nil, m)
  ELSE IF m.left = 0 THEN Result(-1, node, JudyMalloc(m, 0))
  ELSE Result(1, Array(Restrict(node.at, WordsOf(node) \ {w})), JudyMalloc(m, 0))

(* A call on what is in a slot of an array leaves its result there.        *)
Below(node, w, r) == Result(r.rc, Put(node, w, r.node), r.m)
=============================================================================

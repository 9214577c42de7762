------------------------------- MODULE JudyHS -------------------------------
(***************************************************************************)
(* A JudyHS array: byte strings of any content, by their length, then (if  *)
(* longer than a word) by a hash, then word by word through a tree of      *)
(* JudyL arrays in which strings of one hash part.                         *)
(***************************************************************************)
EXTENDS JudyNodes

CONSTANT HASHES  \* values of the hash (2^32)

HASHSTR(s)     == FoldLeft(LAMBDA c, x : (c * 31 + x) % HASHES, 0, s)
LS_WORDLEN(n)  == CeilWords(n + WORDSIZE)
At(node, w)    == IF w \in WordsOf(node) THEN node.at[w] ELSE NULL

RECURSIVE GetTree(_, _)
GetTree_NoCompare(node, s) ==  \* takes any string with the hash for this one
  CASE node = NULL -> NULL
    [] node # NULL /\ Len(s) > WORDSIZE /\ node.kind = "LEAF" -> node.val
    [] node # NULL /\ Len(s) > WORDSIZE /\ node.kind # "LEAF" -> GetTree(At(node, COPYSTRINGtoWORD(s)), Rest(s))
    [] node # NULL /\ Len(s) <= WORDSIZE -> IF At(node, COPYSTRINGtoWORD(s)) = NULL THEN NULL
                                            ELSE At(node, COPYSTRINGtoWORD(s)).val
GetTree(node, s) ==
  CASE node = NULL -> NULL
    [] node # NULL /\ Len(s) > WORDSIZE /\ node.kind = "LEAF" -> IF node.str = s THEN node.val ELSE NULL
    [] node # NULL /\ Len(s) > WORDSIZE /\ node.kind # "LEAF" -> GetTree(At(node, COPYSTRINGtoWORD(s)), Rest(s))
    [] node # NULL /\ Len(s) <= WORDSIZE -> IF At(node, COPYSTRINGtoWORD(s)) = NULL THEN NULL
                                            ELSE At(node, COPYSTRINGtoWORD(s)).val
JudyHSGet(root, s) ==
  LET table == At(root, Len(s))
  IN  IF table = NULL THEN NULL
      ELSE GetTree(IF Len(s) > WORDSIZE THEN At(table, HASHSTR(s)) ELSE table, s)

-----------------------------------------------------------------------------
(* insStrJudyLTree: a leaf under a null pointer; a leaf in the way is      *)
(* split where the strings part; else one level down.                      *)
RECURSIVE InsTree(_, _, _, _)
NewLeaf(s, v, m) ==
  LET a == JudyMalloc(m, LS_WORDLEN(Len(s)))
  IN  IF a.refused THEN Result(-1, Nil, a) ELSE Result(1, Leaf(s, v), a)
(* Both strings go down while their words are the same; size is that of    *)
(* the leaf, given back once its string is stored again.                   *)
RECURSIVE Split(_, _, _, _, _, _, _)
Split(node, s0, v0, s, v, size, m) ==
  LET w0 == COPYSTRINGtoWORD(s0)
      w  == COPYSTRINGtoWORD(s)
      i  == JudyLIns(node, w0, m)
      r0 == Below(i.node, w0, InsTree(i.node.at[w0], Rest(s0), v0, i.m))
      j  == JudyLIns(r0.node, w, JudyFree(r0.m, size))
      r  == Below(j.node, w, InsTree(j.node.at[w], Rest(s), v, j.m))
  IN  IF i.rc = -1 THEN i
      ELSE IF w0 = w /\ Len(Rest(s)) > WORDSIZE
      THEN Below(i.node, w, Split(i.node.at[w], Rest(s0), v0, Rest(s), v, size, i.m))
      ELSE IF r0.rc = -1 THEN r0 ELSE IF j.rc = -1 THEN j ELSE r
InsWord(node, s, v, m) ==
  LET w == COPYSTRINGtoWORD(s)
      i == JudyLIns(node, w, m)
  IN  IF i.rc = -1 THEN i ELSE Below(node, w, Result(IF w \in WordsOf(node) THEN 0 ELSE 1, Value(v), i.m))
InsBelow(node, s, v, m) ==
  LET w == COPYSTRINGtoWORD(s)
      i == JudyLIns(node, w, m)
  IN  IF i.rc = -1 THEN i ELSE Below(i.node, w, InsTree(i.node.at[w], Rest(s), v, i.m))
InsTree(node, s, v, m) ==
  IF Len(s) <= WORDSIZE THEN InsWord(node, s, v, m)
  ELSE IF node = Nil THEN NewLeaf(s, v, m)
  ELSE IF node.kind # "LEAF" THEN InsBelow(node, s, v, m)
  ELSE IF node.str = s THEN Result(0, Leaf(s, v), m)
  ELSE Split(Nil, node.str, node.val, s, v, LS_WORDLEN(Len(s)), m)

JudyHSIns(root, s, v, m) ==
  LET t == JudyLIns(root, Len(s), m)
      table == t.node.at[Len(s)]
      h == JudyLIns(table, HASHSTR(s), t.m)
      b == Below(h.node, HASHSTR(s), InsTree(h.node.at[HASHSTR(s)], s, v, h.m))
  IN  IF t.rc = -1 THEN t
      ELSE IF Len(s) <= WORDSIZE THEN Below(t.node, Len(s), InsTree(table, s, v, t.m))
      ELSE Below(t.node, Len(s), IF h.rc = -1 THEN h ELSE b)

-----------------------------------------------------------------------------
(* delStrJudyLTree, of a string that is there.                             *)
RECURSIVE DelTree(_, _, _)
DelTree(node, s, m) ==
  LET w == COPYSTRINGtoWORD(s)
      r == DelTree(node.at[w], Rest(s), m)
  IN  IF node.kind = "LEAF" THEN Result(1, Nil, JudyFree(m, LS_WORDLEN(Len(s))))
      ELSE IF Len(s) <= WORDSIZE THEN JudyLDel(node, w, m)
      ELSE IF r.rc # 1 \/ r.node # Nil THEN Below(node, w, r)
      ELSE JudyLDel(Put(node, w, Nil), w, r.m)
(* An emptied bucket leaves its hash table, and that the table of lengths. *)
DelSlot_Kept(node, w, r) == Below(node, w, r)  \* leaves the slot of what is empty
DelSlot(node, w, r) ==
  IF r.rc # 1 \/ r.node # Nil THEN Below(node, w, r) ELSE JudyLDel(Put(node, w, Nil), w, r.m)
JudyHSDel(root, s, m) ==
  LET table == root.at[Len(s)]
      h == HASHSTR(s)
      r == IF Len(s) <= WORDSIZE THEN DelTree(table, s, m)
           ELSE DelSlot(table, h, DelTree(table.at[h], s, m))
  IN  IF JudyHSGet(root, s) = NULL THEN Result(0, root, m) ELSE DelSlot(root, Len(s), r)

-----------------------------------------------------------------------------
(* delJudyLTree and JudyHSFreeArray: the words of leaves that they free.   *)
RECURSIVE FreeTree(_, _)
FreeTree(node, n) ==
  IF n <= WORDSIZE THEN 0
  ELSE IF node.kind = "LEAF" THEN LS_WORDLEN(n)
  ELSE FoldSet(LAMBDA w, x : x + FreeTree(node.at[w], n - WORDSIZE), 0, WordsOf(node))
FreeTable(table, n) ==
  IF n <= WORDSIZE THEN 0 ELSE FoldSet(LAMBDA h, x : x + FreeTree(table.at[h], n), 0, WordsOf(table))
JudyHSFreeArray(root) == FoldSet(LAMBDA n, x : x + FreeTable(root.at[n], n), 0, WordsOf(root))
=============================================================================

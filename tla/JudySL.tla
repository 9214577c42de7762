------------------------------- MODULE JudySL -------------------------------
(***************************************************************************)
(* A JudySL array: strings, which end with a zero character, word by word  *)
(* through nested JudyL arrays.  A string that shares no further word with *)
(* another is a shortcut leaf.                                             *)
(***************************************************************************)
EXTENDS JudyNodes

LASTWORD_BY_VALUE(w) == w % CHARS = 0
STRLEN(s)            == Len(s) + 1
SCLSIZE(len)         == CeilWords(len + WORDSIZE)
COPYWORDtoSTRING(w)  == SelectSeq([i \in 1 .. WORDSIZE |-> (w \div CHARS^(WORDSIZE - i)) % CHARS], LAMBDA c : c # 0)
Less(s, t) == \E n \in 0 .. Len(t) - 1 :
                /\ n <= Len(s) /\ SubSeq(s, 1, n) = SubSeq(t, 1, n)
                /\ n = Len(s) \/ s[n + 1] < t[n + 1]

RECURSIVE JudySLGet(_, _)
JudySLGet(node, s) ==
  LET w == COPYSTRINGtoWORD(s)
  IN  CASE node.kind = "LEAF" -> IF node.str = s THEN node.val ELSE NULL
        [] node.kind # "LEAF" /\ w \notin WordsOf(node) -> NULL
        [] node.kind # "LEAF" /\ w \in WordsOf(node) ->
             IF LASTWORD_BY_VALUE(w) THEN node.at[w].val ELSE JudySLGet(node.at[w], Rest(s))

-----------------------------------------------------------------------------
(* JudySLIns.  A leaf in the way is carried down, scl, until its string    *)
(* and the new one differ; then it gets a slot or a shorter leaf.          *)
NoLeaf == [size |-> 0]
Carried_NoValue(node) == [str |-> node.str, val |-> Nil, size |-> SCLSIZE(STRLEN(node.str))]  \* loses the value
Carried(node) == [str |-> node.str, val |-> node.val, size |-> SCLSIZE(STRLEN(node.str))]
APPEND_SCL(s, v, m) ==
  LET a == JudyMalloc(m, SCLSIZE(STRLEN(s)))
  IN  IF a.refused THEN Result(-1, Nil, a) ELSE Result(1, Leaf(s, v), a)
FreeScl_Shortened(scl, m) == JudyFree(m, SCLSIZE(STRLEN(scl.str)))  \* the size of what is left of it
FreeScl(scl, m) == JudyFree(m, scl.size)
Diverge(node, scl, m) ==
  LET w == COPYSTRINGtoWORD(scl.str)
      i == JudyLIns(node, w, m)
      a == APPEND_SCL(Rest(scl.str), scl.val, i.m)
      r == Below(node, w, IF STRLEN(scl.str) <= WORDSIZE THEN Result(1, Value(scl.val), i.m) ELSE a)
  IN  IF i.rc = -1 THEN i ELSE IF r.rc = -1 THEN r ELSE [r EXCEPT !.m = FreeScl(scl, @)]

RECURSIVE SLIns(_, _, _, _, _)
AppendLevel(node, s, v, scl, m) ==
  LET w == COPYSTRINGtoWORD(s)
      i == JudyLIns(node, w, m)
      new == IF w \in WordsOf(node) THEN 0 ELSE 1
  IN  IF i.rc = -1 THEN i
      ELSE IF STRLEN(s) <= WORDSIZE THEN Below(node, w, Result(new, Value(v), i.m))
      ELSE Below(node, w, SLIns(i.node.at[w], Rest(s), v,
                                IF scl = NoLeaf THEN scl ELSE [scl EXCEPT !.str = Rest(@)], i.m))
SLIns(node, s, v, scl, m) ==
  LET d == Diverge(node, scl, m)
  IN  IF node = Nil /\ scl = NoLeaf THEN APPEND_SCL(s, v, m)
      ELSE IF node.kind = "LEAF"
      THEN IF node.str = s THEN Result(0, Leaf(s, v), m) ELSE SLIns(Nil, s, v, Carried(node), m)
      ELSE IF scl = NoLeaf \/ COPYSTRINGtoWORD(s) = COPYSTRINGtoWORD(scl.str) THEN AppendLevel(node, s, v, scl, m)
      ELSE IF d.rc = -1 THEN d
      ELSE AppendLevel(d.node, s, v, NoLeaf, d.m)
JudySLIns(node, s, v, m) == SLIns(node, s, v, NoLeaf, m)

-----------------------------------------------------------------------------
(* JudySLDel: an array that a deletion has emptied goes, up to the root.   *)
RECURSIVE JudySLDelSub(_, _, _)
DelRest_Always(node, w, s, m) ==  \* deletes the word whatever is left below it
  LET r == JudySLDelSub(node.at[w], Rest(s), m)
  IN  IF r.rc # 1 THEN Below(node, w, r) ELSE JudyLDel(node, w, r.m)
DelRest(node, w, s, m) ==
  LET r == JudySLDelSub(node.at[w], Rest(s), m)
  IN  IF r.rc # 1 \/ r.node # Nil THEN Below(node, w, r)
      ELSE LET d == JudyLDel(Put(node, w, Nil), w, r.m) IN d
JudySLDelSub(node, s, m) ==
  LET w == COPYSTRINGtoWORD(s)
  IN  IF node.kind = "LEAF"
      THEN IF node.str # s THEN Result(0, node, m) ELSE Result(1, Nil, JudyFree(m, SCLSIZE(STRLEN(s))))
      ELSE IF STRLEN(s) <= WORDSIZE THEN JudyLDel(node, w, m)
      ELSE IF w \notin WordsOf(node) THEN Result(0, node, m)
      ELSE DelRest(node, w, s, m)
JudySLDel(node, s, m) == JudySLDelSub(node, s, m)

-----------------------------------------------------------------------------
(* JudySLNext (dir is 1) and JudySLPrev (-1).  Sub searches from a string, *)
(* Edge takes the first one below a slot, where a dead end has none.       *)
Found(s, v) == [str |-> s, val |-> v]
Prefixed(w, r) == IF r = NULL THEN NULL ELSE Found(COPYWORDtoSTRING(w) \o r.str, r.val)
NearWord(ws, dir) == IF ws = {} THEN -1 ELSE IF dir = 1 THEN Min(ws) ELSE Max(ws)
RECURSIVE SubEdge(_, _)
SubWord(node, w, dir) ==
  IF w = -1 THEN NULL
  ELSE IF LASTWORD_BY_VALUE(w) THEN Found(COPYWORDtoSTRING(w), node.at[w].val)
  ELSE Prefixed(w, SubEdge(node.at[w], dir))
SubEdge(node, dir) ==
  IF node.kind = "LEAF" THEN Found(node.str, node.val)
  ELSE SubWord(node, NearWord(WordsOf(node), dir), dir)

RECURSIVE SubFrom(_, _, _)
LeafBeyond(node, s, dir) ==
  IF IF dir = 1 THEN Less(s, node.str) ELSE Less(node.str, s) THEN Found(node.str, node.val) ELSE NULL
SubFrom_NoBackup(node, s, dir) ==  \* gives up when the slot of s has nothing further on
  LET w == COPYSTRINGtoWORD(s)
  IN  IF node.kind = "LEAF" THEN LeafBeyond(node, s, dir)
      ELSE IF STRLEN(s) > WORDSIZE /\ w \in WordsOf(node) THEN Prefixed(w, SubFrom(node.at[w], Rest(s), dir))
      ELSE SubWord(node, NearWord({x \in WordsOf(node) : dir * (x - w) > 0}, dir), dir)
SubFrom(node, s, dir) ==
  LET w == COPYSTRINGtoWORD(s)
      below == IF STRLEN(s) > WORDSIZE /\ w \in WordsOf(node)
               THEN Prefixed(w, SubFrom(node.at[w], Rest(s), dir)) ELSE NULL
  IN  IF node.kind = "LEAF" THEN LeafBeyond(node, s, dir)
      ELSE IF below # NULL THEN below
      ELSE SubWord(node, NearWord({x \in WordsOf(node) : dir * (x - w) > 0}, dir), dir)
JudySLNext(node, s) == IF node = Nil THEN NULL ELSE SubFrom(node, s, 1)
JudySLPrev(node, s) == IF node = Nil THEN NULL ELSE SubFrom(node, s, -1)
(* JudySLFirst and JudySLLast: the string itself, if it is there.          *)
JudySLFirst(node, s) == IF JudySLGet(node, s) # NULL THEN Found(s, JudySLGet(node, s)) ELSE JudySLNext(node, s)
JudySLLast(node, s)  == IF JudySLGet(node, s) # NULL THEN Found(s, JudySLGet(node, s)) ELSE JudySLPrev(node, s)

(* JudySLFreeArray: the words of leaves that it frees.                     *)
RECURSIVE JudySLFreeArray(_)
JudySLFreeArray(node) ==
  IF node.kind = "LEAF" THEN SCLSIZE(STRLEN(node.str))
  ELSE LET Deeper == {w \in WordsOf(node) : ~ LASTWORD_BY_VALUE(w)}
       IN  FoldSet(LAMBDA w, n : n + JudySLFreeArray(node.at[w]), 0, Deeper)
=============================================================================

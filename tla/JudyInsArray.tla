---------------------------- MODULE JudyInsArray -----------------------------
(***************************************************************************)
(* JudyLInsArray: a whole array built from sorted indexes.  Each subtree   *)
(* is an immediate JP, a leaf, or an uncompressed branch that shrinks on   *)
(* the way out; a malloc() that is refused keeps the subtrees before it.   *)
(***************************************************************************)
EXTENDS JudyDel

CONSTANT PastTable  \* what the byte after the table j__L_LeafWPopToWords may be

(* What j__udyInsArray leaves: whether all was stored, how many, and where. *)
Built(ok, n, jp, m) == [ok |-> ok, n |-> n, jp |-> jp, m |-> m]
Unsorted(m)       == [m EXCEPT !.errno = "UNSORTED"]
Ascending(ks)     == \A i \in 2 .. Len(ks) : ks[i - 1] < ks[i]
(* SAMESUBEXP looks at the first and the last index only.                  *)
SAMESUBEXP(ks, l) == ks[1] \div BASE^l = ks[Len(ks)] \div BASE^l

(* The indexes of a JP that is no branch must be in order.                 *)
BuildEnd(l, ks, jp, a, m) ==
  IF ~ Ascending(ks) THEN Built(FALSE, 0, Null(l), Unsorted(m))
  ELSE IF Refused(a) THEN Built(FALSE, 0, Null(l), a)
  ELSE Built(TRUE, Len(ks), jp, a)
Low(ks, s) == [i \in 1 .. Len(ks) |-> LEASTBYTES(ks[i], s)]
BuildLeaf(l, s, ks, vs, m) ==
  BuildEnd(l, ks, Leaf(s, DCD(ks[1], s), Len(ks) - 1, Low(ks, s), vs), AllocJLL(m, s, Len(ks)), m)
BuildImmed(l, ks, vs, m) == BuildEnd(l, ks, Immed(l, Low(ks, l), vs), AllocJV(m, Len(ks)), m)

(* A bitmap leaf keeps the subexpanses whose values could be allocated.    *)
BuildLeafB1(l, ks, vs, m) ==
  LET a    == Alloc(m, JLBWORDS)
      low  == Low(ks, 1)
      bm   == Bitmap(low)
      Words(x, s) == IF Refused(x) \/ bm[s] = {} THEN x
                     ELSE AllocJV(x, Cardinality(bm[s]))
      Upto(s) == FoldLeft(Words, a, [i \in 1 .. s + 1 |-> i - 1])
      n    == Cardinality({i \in 1 .. Len(ks) : ~ Refused(Upto(SubExp(low[i])))})
      kept == Bitmap(SubSeq(low, 1, n))
      all  == Upto(Cardinality(SubExps) - 1)
  IN  IF ~ Ascending(ks) THEN Built(FALSE, 0, Null(l), Unsorted(m))
      ELSE IF Refused(a) THEN Built(FALSE, 0, Null(l), a)
      ELSE Built(n = Len(ks), n, LeafB1(DCD(ks[1], 1), n - 1, kept, Spread(kept, SubSeq(vs, 1, n))), all)

(* Out of a branch: linear or bitmap if that takes less, uncompressed when *)
(* it has too many indexes or there is no memory for it.                   *)
Shrunk(a, ok, n, u, small, m) ==
  IF Refused(a) THEN Built(ok, n, u, [m EXCEPT !.left = a.left]) ELSE Built(ok, n, small, FreeJBU(a))
ShrunkL(u, ds, n, ok, m) ==
  IF n > BRANCHL_MAX_POP THEN Built(ok, n, u, m)
  ELSE Shrunk(AllocJBL(m), ok, n, u,
              BranchL(u.level, u.dcd, n - 1, ds, [i \in 1 .. Len(ds) |-> u.jps[ds[i]]]), m)
ShrunkB(u, ds, n, ok, m) ==
  IF n > BRANCHB_MAX_POP THEN Built(ok, n, u, m)
  ELSE Shrunk(AllocJBB(m, Bitmap(ds)), ok, n, u,
              BranchB(u.level, u.dcd, n - 1, Bitmap(ds),
                      Spread(Bitmap(ds), [i \in 1 .. Len(ds) |-> u.jps[ds[i]]])), m)
(* A branch with nothing below it is given back.                           *)
EndBranch(s, dcd, jps, n, ok, m) ==
  LET ds == SelectSeq(Digits, LAMBDA d : jps[d].type # "NULL")
      u  == BranchU(s, dcd, n - 1, jps)
      known == [m EXCEPT !.errno = "NONE"]
      b  == IF Len(ds) <= BRANCHLMAXJPS THEN ShrunkL(u, ds, n, ok, known) ELSE ShrunkB(u, ds, n, ok, known)
  IN  IF n = 0 THEN Built(FALSE, 0, Null(s), FreeJBU(m)) ELSE [b EXCEPT !.m.errno = m.errno]

RECURSIVE Build(_, _, _, _)

(* One digit of a branch: the run of indexes that have it, from the first  *)
(* that is not stored yet.                                                 *)
BuiltBelow(a, d, b, last) ==
  [a EXCEPT !.n = @ + b.n, !.at = a.n + 1, !.done = last \/ ~ b.ok, !.ok = b.ok, !.m = b.m,
            !.jps[d] = IF b.n = 0 THEN @ ELSE b.jp]
BuildDigit(s, ks, vs, a, d) ==
  LET rest == {i \in a.n + 1 .. Len(ks) : \E j \in a.n + 1 .. i : DIGITATSTATE(ks[j], s) # d}
      to   == IF rest = {} THEN Len(ks) ELSE Min(rest) - 1
  IN  IF a.done THEN a
      ELSE IF to = a.n
      THEN IF d < DIGITATSTATE(ks[a.n + 1], s) THEN a
           ELSE [a EXCEPT !.done = TRUE, !.ok = FALSE, !.at = a.n + 1, !.m = Unsorted(@)]
      ELSE IF to = a.n + 1
      THEN [a EXCEPT !.n = to, !.at = to, !.done = (to = Len(ks)),
                     !.jps[d] = Immed01(s - 1, ks[to], vs[to])]
      ELSE BuiltBelow(a, d, Build(s - 1, SubSeq(ks, a.n + 1, to), SubSeq(vs, a.n + 1, to), a.m), to = Len(ks))

BuiltBranch(s, ks, x) ==
  LET e == IF x.done THEN x ELSE [x EXCEPT !.ok = FALSE, !.at = x.n + 1, !.m = Unsorted(@)]
  IN  EndBranch(s, DCD(ks[e.at], s), e.jps, e.n, e.ok, e.m)
BuildBranch(l, ks, vs, m) ==
  LET s == IF l = ROOTSTATE THEN l ELSE Max({2} \cup {t \in 3 .. l : ~ SAMESUBEXP(ks, t - 1)})
      u == AllocJBU(m)
      x == FoldLeft(LAMBDA a, d : BuildDigit(s, ks, vs, a, d),
                    [jps |-> [d \in 0 .. BASE - 1 |-> Null(s - 1)], n |-> 0, at |-> 1, m |-> u,
                     ok |-> TRUE, done |-> FALSE], Digits)
  IN  IF Refused(u) THEN Built(FALSE, 0, Null(l), u) ELSE BuiltBranch(s, ks, x)

(* j__udyInsArray: the highest level whose leaf holds the indexes decides. *)
Build(l, ks, vs, m) ==
  LET n == Len(ks)
      fits == {s \in 1 .. l : n <= LEAF_MAXPOP1[s]}
      s == Max(fits)
  IN  IF l = ROOTSTATE THEN BuildBranch(l, ks, vs, m)
      ELSE IF n <= IMMED_MAXPOP1[l] THEN BuildImmed(l, ks, vs, m)
      ELSE IF fits # {}
      THEN IF s < l /\ ~ SAMESUBEXP(ks, s) THEN BuildBranch(l, ks, vs, m) ELSE BuildLeaf(l, s, ks, vs, m)
      ELSE IF l = 1 \/ SAMESUBEXP(ks, 1) THEN BuildLeafB1(l, ks, vs, m)
      ELSE BuildBranch(l, ks, vs, m)

(* A root leaf is allocated for one index more than it holds; a full one   *)
(* reads past the end of the table.                                        *)
BuiltRoot(b) ==
  IF b.n = 0 THEN Returned(-1, NoArray, FreeJPM(b.m))
  ELSE Returned(IF b.ok THEN 1 ELSE -1, JPM(b.jp, b.n - 1, 0, b.m.words), b.m)
JudyLInsArray(ks, vs, heap, left, past) ==
  LET n == Len(ks)
      m == Call(NoArray, heap, left)
      words == IF n = LEAFW_MAXPOP1 THEN past ELSE LeafWTable[n + 1]
      a == AllocJPM(m)
  IN  IF n > LEAFW_MAXPOP1
      THEN IF Refused(a) THEN Returned(-1, NoArray, a) ELSE BuiltRoot(Build(ROOTSTATE, ks, vs, a))
      ELSE IF ~ Ascending(ks) THEN Returned(-1, NoArray, m)
      ELSE IF n = 0 THEN Returned(1, NoArray, m)
      ELSE IF left = 0 THEN Returned(-1, NoArray, m)
      ELSE Returned(1, LeafW(ks, vs), [m EXCEPT !.heap = @ + words])
=============================================================================

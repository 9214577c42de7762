------------------------------- MODULE JudyDel ------------------------------
(***************************************************************************)
(* JudyLDel: the walk down the tree, and the conversions back to smaller   *)
(* nodes, which happen one index late: a node that holds as many indexes   *)
(* as the smaller one can is converted before the index is deleted.        *)
(***************************************************************************)
EXTENDS JudyIns

(* What is copied into a leaf: indexes and values.                         *)
Entries(ks, vs) == [keys |-> ks, vals |-> vs]

(* j__udyLeafB1ToLeaf1, j__udyLeaf1ToLeaf2 and so on: what a leaf or an    *)
(* immediate JP of level l - 1 adds to a leaf of level l, under MSByte.    *)
LeafB1ToLeaf1(jp) == Entries(BitmapDigits(jp.bitmap), Gather(jp.vals))
LeafToLeaf(c, l, MSByte) ==
  LET x == IF c.type = "LEAF_B1" THEN LeafB1ToLeaf1(c) ELSE Entries(c.keys, c.vals)
  IN  IF IsImmed(c) /\ Len(c.keys) = 1 THEN Entries(<<LEASTBYTES(c.keys[1], l)>>, c.vals)
      ELSE Entries([i \in 1 .. Len(x.keys) |-> MSByte + x.keys[i]], x.vals)
(* Into a root leaf: an immediate JP of one index lacks the top digit.     *)
LeafToLeafW(c, MSByte) ==
  IF IsImmed(c) /\ Len(c.keys) = 1 THEN Entries(<<MSByte + c.keys[1]>>, c.vals)
  ELSE LeafToLeaf(c, ROOTSTATE, MSByte)

(* JU_BRANCH*_COMPRESS: the JPs of a branch, each with its digit at level  *)
(* l, into one leaf; and what each kind of branch gives it.                *)
Compress(ds, jps, l) ==
  LET Next(x, i) ==
        LET D == DIGITTOSTATE(ds[i], l)
            y == IF l = ROOTSTATE THEN LeafToLeafW(jps[i], D) ELSE LeafToLeaf(jps[i], l, D)
        IN  Entries(x.keys \o y.keys, x.vals \o y.vals)
  IN  FoldLeft(Next, Entries(<<>>, <<>>), [i \in 1 .. Len(ds) |-> i])
CompressBranchL(jp) == Compress(jp.expanse, jp.jps, jp.level)
CompressBranchB(jp) == Compress(BitmapDigits(jp.bitmap), Gather(jp.jps), jp.level)
CompressBranchU(jp) == Compress(Expanses(jp), [i \in 1 .. Len(Expanses(jp)) |-> jp.jps[Expanses(jp)[i]]], jp.level)
Compressed(jp) == CASE jp.type = "BRANCH_L" -> CompressBranchL(jp)
                    [] jp.type = "BRANCH_B" -> CompressBranchB(jp)
                    [] jp.type = "BRANCH_U" -> CompressBranchU(jp)

(* j__udyBranchBToBranchL; its caller ignores a malloc() that is refused.  *)
BranchBToBranchL_Keeps(jp, m) ==  \* forgets the JPs of the subexpanses
  IF Refused(AllocJBL(m)) THEN Result(1, jp, m)
  ELSE Result(1, BranchL(jp.level, jp.dcd, jp.pop0, Expanses(jp), Gather(jp.jps)), Free(AllocJBL(m), JBBWORDS))
BranchBToBranchL(jp, m) ==
  LET a == AllocJBL(m)
  IN  IF Refused(a) THEN Result(1, jp, m)
      ELSE Result(1, BranchL(jp.level, jp.dcd, jp.pop0, Expanses(jp), Gather(jp.jps)), FreeJBB(a, jp.bitmap))

(* An immediate JP of one index leaves its branch.  Result 2: the branch   *)
(* has one JP left, which the caller puts in its place.                    *)
DelFromBranchL(jp, d, m) ==
  LET o == SearchLeaf(jp.expanse, d)
  IN  Result(IF Len(jp.jps) - 1 <= 1 THEN 2 ELSE 1,
             [jp EXCEPT !.expanse = DELETEINPLACE(@, o), !.jps = DELETEINPLACE(@, o)], m)
DelFromBranchB(jp, d, m) ==
  LET s == SubExp(d)
      o == Offset(jp.bitmap[s], d)
      n == Cardinality(jp.bitmap[s])
      a == AllocJBBJP(m, n - 1)
      shrunk == [jp EXCEPT !.bitmap[s] = @ \ {d}, !.jps[s] = DELETECOPY(@, o)]
      After(x) == IF Len(Expanses(jp)) <= BRANCHLMAXJPS THEN BranchBToBranchL(shrunk, x)
                  ELSE Result(1, shrunk, x)
  IN  IF n = 1 THEN After(FreeJBBJP(m, 1))
      ELSE IF GrowInPlace(BranchJPTable, n - 1) THEN After(m)
      ELSE IF Refused(a) THEN Result(-1, jp, a)
      ELSE After(FreeJBBJP(a, n))

-----------------------------------------------------------------------------
(* A linear leaf becomes an immediate JP with a value area of its own, or  *)
(* one of a single index; or it shrinks in place, or into a smaller leaf.  *)
LeafToImmed(jp, ks, vs, I, m) ==
  LET l == jp.level
      a == AllocJV(m, Len(ks))
  IN  IF Len(ks) = 1 THEN Result(1, Immed01(l, DCD(I, l) + ks[1], vs[1]), FreeJLL(m, l, 2))
      ELSE IF Refused(a) THEN Result(-1, jp, a)
      ELSE Result(1, Immed(l, ks, vs), FreeJLL(a, l, Len(ks) + 1))
DelLeaf(jp, I, m) ==
  LET l    == jp.level
      pop1 == jp.pop0 + 1
      o    == SearchLeaf(jp.keys, LEASTBYTES(I, l))
      ks   == DELETECOPY(jp.keys, o)
      vs   == DELETECOPY(jp.vals, o)
      a    == AllocJLL(m, l, pop1 - 1)
      shrunk == [jp EXCEPT !.keys = ks, !.vals = vs]
  IN  IF pop1 - 1 = IMMED_MAXPOP1[l] THEN LeafToImmed(jp, ks, vs, I, m)
      ELSE IF GrowInPlace(LeafTable[l], pop1 - 1) THEN Result(1, shrunk, m)
      ELSE IF Refused(a) THEN Result(-1, jp, a)
      ELSE Result(1, shrunk, FreeJLL(a, l, pop1))

DelLeafB1(jp, I, m) ==
  LET d == DIGITATSTATE(I, 1)
      s == SubExp(d)
      o == Offset(jp.bitmap[s], d)
      n == Cardinality(jp.bitmap[s])
      a == AllocJV(m, n - 1)
      shrunk == [jp EXCEPT !.bitmap[s] = @ \ {d}, !.vals[s] = DELETECOPY(@, o)]
  IN  IF n = 1 THEN Result(1, shrunk, FreeJV(m, 1))
      ELSE IF GrowInPlace(LeafVTable, n - 1) THEN Result(1, shrunk, m)
      ELSE IF Refused(a) THEN Result(-1, jp, a)
      ELSE Result(1, shrunk, FreeJV(a, n))

(* An immediate JP loses its only index, or the other of two, whose value  *)
(* moves into the JP, or one of several.                                   *)
DelImmed01(jp, m) == Result(1, Null(jp.level), m)
DelImmed02_Other(jp, I, m) ==  \* keeps the value of the one deleted
  LET o == SearchLeaf(jp.keys, LEASTBYTES(I, jp.level))
  IN  Result(1, Immed01(jp.level, DCD(I, jp.level) + jp.keys[2 - o], jp.vals[o + 1]), FreeJV(m, 2))
DelImmed02(jp, I, m) ==
  LET o == SearchLeaf(jp.keys, LEASTBYTES(I, jp.level))
  IN  Result(1, Immed01(jp.level, DCD(I, jp.level) + jp.keys[2 - o], jp.vals[2 - o]), FreeJV(m, 2))
DelImmed(jp, I, m) ==
  LET l == jp.level
      n == Len(jp.keys)
      o == SearchLeaf(jp.keys, LEASTBYTES(I, l))
      a == AllocJV(m, n - 1)
      shrunk == Immed(l, DELETEINPLACE(jp.keys, o), DELETECOPY(jp.vals, o))
  IN  CASE n = 1 -> DelImmed01(jp, m)
        [] n = 2 -> DelImmed02(jp, I, m)
        [] n > 2 -> IF GrowInPlace(LeafVTable, n - 1) THEN Result(1, shrunk, m)
                    ELSE IF Refused(a) THEN Result(-1, jp, a)
                    ELSE Result(1, shrunk, FreeJV(a, n))

-----------------------------------------------------------------------------
RECURSIVE DelWalk(_, _, _, _)

(* Down into the JP of a digit, which then counts one index less; a null   *)
(* JP counts nothing, and a linear branch of one JP gives way to it.       *)
DelCounted(jp, d, r) ==
  LET c == CASE r.rc = 2 -> r.jp.jps[1]
             [] r.rc = 1 /\ r.jp.type \notin {"NULL", "IMMED"} -> [r.jp EXCEPT !.pop0 = @ - 1]
             [] OTHER -> r.jp
  IN  IF r.rc = 2 THEN Result(1, SetChildJP(jp, d, c), FreeJBL(r.m))
      ELSE Result(r.rc, SetChildJP(jp, d, c), r.m)
DelBelow(jp, d, I, m) == DelCounted(jp, d, DelWalk(ChildJP(jp, d), I, jp.level, m))

(* A branch whose indexes fit a leaf of its level becomes one before the   *)
(* walk goes on; the branch of a JPM is left to JudyLDel.                  *)
FitsLeaf_Late(jp) == jp.level < ROOTSTATE /\ jp.pop0 + 1 < LEAF_MAXPOP1[jp.level]
FitsLeaf(jp)      == jp.level < ROOTSTATE /\ jp.pop0 + 1 <= LEAF_MAXPOP1[jp.level]
BranchToLeaf(jp, I, ParentLevel, m) ==
  LET l == jp.level
      a == AllocJLL(m, l, LEAF_MAXPOP1[l])
      x == Compressed(jp)
  IN  IF Refused(a) THEN Result(-1, jp, a)
      ELSE DelWalk(Leaf(l, jp.dcd, jp.pop0, x.keys, x.vals), I, ParentLevel, Free(a, FreeSM(jp)))

DelBranchL(jp, I, m) ==
  LET d == DIGITATSTATE(I, jp.level)
      c == ChildJP(jp, d)
  IN  IF IsImmed(c) /\ Len(c.keys) = 1 THEN DelFromBranchL(jp, d, m) ELSE DelBelow(jp, d, I, m)
DelBranchB(jp, I, m) ==
  LET d == DIGITATSTATE(I, jp.level)
      c == ChildJP(jp, d)
  IN  IF IsImmed(c) /\ Len(c.keys) = 1 THEN DelFromBranchB(jp, d, m) ELSE DelBelow(jp, d, I, m)
DelBranchU(jp, I, m) == DelBelow(jp, DIGITATSTATE(I, jp.level), I, m)
DelBranch(jp, I, ParentLevel, m) ==
  CASE FitsLeaf(jp) -> BranchToLeaf(jp, I, ParentLevel, m)
    [] ~ FitsLeaf(jp) /\ jp.type = "BRANCH_L" -> DelBranchL(jp, I, m)
    [] ~ FitsLeaf(jp) /\ jp.type = "BRANCH_B" -> DelBranchB(jp, I, m)
    [] ~ FitsLeaf(jp) /\ jp.type = "BRANCH_U" -> DelBranchU(jp, I, m)

(* JU_LEAF_UPLEVEL: a leaf under a narrow pointer that fits the leaf of    *)
(* the next level moves up.                                                *)
FitsUplevel(jp, ParentLevel) ==
  /\ ParentLevel - 1 > jp.level /\ jp.level + 1 < ROOTSTATE
  /\ jp.pop0 + 1 = LEAF_MAXPOP1[jp.level + 1]
Uplevel(jp, I, ParentLevel, m) ==
  LET l == jp.level + 1
      a == AllocJLL(m, l, LEAF_MAXPOP1[l])
      x == LeafToLeaf(jp, l, DIGITTOSTATE(DIGITATSTATE(I, l), l))
  IN  IF Refused(a) THEN Result(-1, jp, a)
      ELSE DelWalk(Leaf(l, DCD(jp.dcd, l), jp.pop0, x.keys, x.vals), I, ParentLevel, Free(a, FreeSM(jp)))
(* A bitmap leaf becomes linear again. *)
LeafB1ToLeaf(jp, I, ParentLevel, m) ==
  LET a == AllocJLL(m, 1, LEAF_MAXPOP1[1])
      x == LeafB1ToLeaf1(jp)
  IN  IF Refused(a) THEN Result(-1, jp, a)
      ELSE DelWalk(Leaf(1, jp.dcd, jp.pop0, x.keys, x.vals), I, ParentLevel, Free(a, FreeSM(jp)))
DelWalk(jp, I, ParentLevel, m) ==
  CASE IsBranch(jp) -> DelBranch(jp, I, ParentLevel, m)
    [] IsImmed(jp)  -> DelImmed(jp, I, m)
    [] OTHER ->
         IF FitsUplevel(jp, ParentLevel) THEN Uplevel(jp, I, ParentLevel, m)
         ELSE IF jp.type = "LEAF" THEN DelLeaf(jp, I, m)
         ELSE IF jp.pop0 + 1 = LEAF_MAXPOP1[1] THEN LeafB1ToLeaf(jp, I, ParentLevel, m)
         ELSE DelLeafB1(jp, I, m)

-----------------------------------------------------------------------------
(* The JPM goes back to a root leaf when its indexes fit.  If that last    *)
(* malloc() is refused the index is gone.                                  *)
JPMToLeafW(P, m) ==
  LET a == AllocJLW(m, LEAFW_MAXPOP1)
      x == Compressed(P.jp)
  IN  IF Refused(a) THEN Returned(-1, P, a)
      ELSE Returned(1, LeafW(x.keys, x.vals), FreeJPM(Free(a, FreeSM(P.jp))))
DelWalked(P, r) ==
  LET q == JPM(r.jp, P.pop0 - 1, r.m.lastu, r.m.words)
  IN  IF r.rc = -1 THEN Returned(-1, JPM(r.jp, P.pop0, r.m.lastu, r.m.words), r.m)
      ELSE IF q.pop0 + 1 = LEAFW_MAXPOP1 THEN JPMToLeafW(q, r.m)
      ELSE Returned(1, q, r.m)
DelJPM(P, I, m) == DelWalked(P, DelWalk(P.jp, I, ROOTSTATE, m))

DelLeafW(P, I, m) ==
  LET pop1 == Len(P.keys)
      o == SearchLeaf(P.keys, I)
      a == AllocJLW(m, pop1 - 1)
      shrunk == LeafW(DELETECOPY(P.keys, o), DELETECOPY(P.vals, o))
  IN  IF pop1 = 1 THEN Returned(1, NoArray, FreeJLW(m, 1))
      ELSE IF GrowInPlace(LeafWTable, pop1 - 1) THEN Returned(1, shrunk, m)
      ELSE IF Refused(a) THEN Returned(-1, P, a)
      ELSE Returned(1, shrunk, FreeJLW(a, pop1))

JudyLDel(P, I, heap, left) ==
  LET m == Call(P, heap, left)
  IN  IF JudyLGet(P, I) = NULL THEN Returned(0, P, m)
      ELSE IF ReadAsLeafW(P) THEN DelLeafW(P, I, m) ELSE DelJPM(P, I, m)
=============================================================================

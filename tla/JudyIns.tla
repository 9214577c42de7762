------------------------------- MODULE JudyIns ------------------------------
(***************************************************************************)
(* JudyLIns: the walk down the tree, the growth of leaves and immediate    *)
(* JPs, and the nodes that replace a full one.  The caller writes its      *)
(* value where jpm_PValue points, so an operator puts V at that slot.      *)
(***************************************************************************)
EXTENDS JudyMem

CONSTANTS BRANCHL_MAX_POP,    \* above it a linear branch becomes uncompressed
          BRANCHB_MIN_POP, BRANCHB_MAX_POP, BTOU_POP_INCREMENT  \* when a bitmap branch does

(* The result of a walk: 1 inserted, 0 there already, -1 out of memory.    *)
Result(rc, jp, m) == [rc |-> rc, jp |-> jp, m |-> m]

-----------------------------------------------------------------------------
(* j__udyCascade*: a full leaf becomes a leaf one level down, reached by a *)
(* narrow pointer, or a branch over the leaves of its expanses.            *)
JLL2toJLB1(dcd, keys, vals, m) ==
  LET bm == Bitmap(keys)
  IN  Result(1, LeafB1(dcd, Len(keys) - 1, bm, Spread(bm, vals)), AllocJLB1(m, bm))
Stage(l, prefix, ks, vs, m) ==
  LET n   == Len(ks)
      low == [i \in 1 .. n |-> LEASTBYTES(ks[i], l)]
      dcd == prefix + DCD(ks[1], l)
  IN  IF n = 1 THEN Result(1, Immed01(l, prefix + ks[1], vs[1]), m)
      ELSE IF n <= IMMED_MAXPOP1[l] THEN Result(1, Immed(l, low, vs), AllocJV(m, n))
      ELSE IF n <= LEAF_MAXPOP1[l] THEN Result(1, Leaf(l, dcd, n - 1, low, vs), AllocJLL(m, l, n))
      ELSE JLL2toJLB1(dcd, low, vs, m)

(* A JP for each digit, until a malloc() is refused.                       *)
StageAll(jp, ds, m) ==
  LET Of(d)     == SelectSeq([i \in 1 .. Len(jp.keys) |-> i],
                             LAMBDA i : DIGITATSTATE(jp.keys[i], jp.level) = d)
      Next(a, d) ==
        LET is == Of(d)
            s  == Stage(jp.level - 1, jp.dcd, [i \in 1 .. Len(is) |-> jp.keys[is[i]]],
                        [i \in 1 .. Len(is) |-> jp.vals[is[i]]], a.m)
        IN  IF Refused(a.m) THEN a
            ELSE IF Refused(s.m) THEN [a EXCEPT !.m = s.m]
            ELSE [jps |-> Append(a.jps, s.jp), m |-> s.m]
  IN  FoldLeft(Next, [jps |-> <<>>, m |-> m], ds)

(* j__udyCreateBranchL, and j__udyCreateBranchB, which Cascade has in      *)
(* j__udyStageJBBtoJBB: the branch over JPs, with the memory it took.      *)
CreateBranchL(jp, ds, jps, m) ==
  LET a == AllocJBL(m)
  IN  IF Refused(a) THEN Result(-1, jp, a)
      ELSE Result(1, BranchL(jp.level, jp.dcd, jp.pop0, ds, jps), a)
CreateBranchB(jp, ds, jps, m) ==
  LET bm == Bitmap(ds)
      a  == AllocJBB(m, bm)
  IN  IF Refused(a) THEN Result(-1, jp, a)
      ELSE Result(1, BranchB(jp.level, jp.dcd, jp.pop0, bm, Spread(bm, jps)), a)

CascadeDigits(jp) ==
  SelectSeq(Digits, LAMBDA d : \E k \in ToSet(jp.keys) : DIGITATSTATE(k, jp.level) = d)
(* The branch over what was staged, or why there is none.                  *)
Unbranched(st, at, m) == Result(-1, [staged |-> st.jps, at |-> at], m)
BranchOver(jp, ds, st) ==
  LET b == IF Len(ds) <= BRANCHLMAXJPS THEN CreateBranchL(jp, ds, st.jps, st.m)
           ELSE CreateBranchB(jp, ds, st.jps, st.m)
  IN  IF Refused(st.m) THEN Unbranched(st, "LEAF", st.m)
      ELSE IF b.rc = -1 THEN Unbranched(st, "BRANCH", b.m) ELSE b
Splayed(jp, m) == LET ds == CascadeDigits(jp) IN BranchOver(jp, ds, StageAll(jp, ds, m))
(* FREEALLEXIT: what was staged is freed when a malloc() is refused.       *)
FREEALLEXIT(jp, s) ==
  IF s.rc # -1 THEN s
  ELSE Result(-1, jp, Free(s.m, Total([i \in 1 .. Len(s.jp.staged) |-> FreeSM(s.jp.staged[i])])))
OrKeep(jp, s) == IF Refused(s.m) THEN Result(-1, jp, s.m) ELSE s
Cascade1(jp, m) == OrKeep(jp, JLL2toJLB1(jp.dcd, jp.keys, jp.vals, m))
Cascade(jp, m) ==
  IF Len(CascadeDigits(jp)) = 1 THEN OrKeep(jp, Stage(jp.level - 1, jp.dcd, jp.keys, jp.vals, m))
  ELSE FREEALLEXIT(jp, Splayed(jp, m))
(* j__udyCascadeL, of the root leaf: always a branch.  What was staged is  *)
(* lost when a leaf is refused, or the branch over a single leaf.          *)
Lost(s) == s.rc = -1 /\ (s.jp.at = "LEAF" \/ Len(s.jp.staged) = 1)
EndCascadeL(jp, s) == IF Lost(s) THEN Result(-1, jp, s.m) ELSE FREEALLEXIT(jp, s)
CascadeL(jp, m) == EndCascadeL(jp, Splayed(jp, m))

(* j__udyInsertBranch: an Index whose digits differ from those a narrow    *)
(* pointer skipped gets a linear branch above it, at the highest of them.  *)
SplitLevels(jp, I) == {s \in jp.level + 1 .. ROOTSTATE - 1 : DIGITATSTATE(I, s) # DIGITATSTATE(jp.dcd, s)}
SplitLevel_Lowest(jp, I) == Min(SplitLevels(jp, I))
SplitLevel(jp, I)        == Max(SplitLevels(jp, I))
InsertBranch(jp, I, V, m) ==
  LET l   == SplitLevel(jp, I)
      old == DIGITATSTATE(jp.dcd, l)
      new == DIGITATSTATE(I, l)
      jpN == Immed01(l - 1, I, V)
      a   == AllocJBL(m)
  IN  IF Refused(a) THEN Result(-1, jp, a)
      ELSE Result(1, IF new > old THEN BranchL(l, DCD(jp.dcd, l), jp.pop0, <<old, new>>, <<jp, jpN>>)
                     ELSE BranchL(l, DCD(jp.dcd, l), jp.pop0, <<new, old>>, <<jpN, jp>>), a)

-----------------------------------------------------------------------------
(* An immediate JP that grows: its values move to a larger area, then the  *)
(* whole JP to a leaf.  The caller counts the new index.                   *)
InsImmed01(jp, I, V, m) ==
  LET l  == jp.level
      k  == TRIMTODCDSIZE(I)
      o  == SearchLeaf(jp.keys, k)
      ks == [i \in 1 .. 2 |-> LEASTBYTES(INSERTCOPY(jp.keys, o, k)[i], l)]
      vs == INSERTCOPY(jp.vals, o, V)
      grown == 1 < IMMED_MAXPOP1[l]
      a  == IF grown THEN AllocJV(m, 2) ELSE AllocJLL(m, l, 2)
  IN  IF jp.keys[1] = k THEN Result(0, [jp EXCEPT !.vals = <<V>>], m)
      ELSE IF Refused(a) THEN Result(-1, jp, a)
      ELSE Result(1, IF grown THEN Immed(l, ks, vs) ELSE Leaf(l, DCD(I, l), 0, ks, vs), a)
InsImmed(jp, I, V, m) ==
  LET l  == jp.level
      n  == Len(jp.keys)
      k  == LEASTBYTES(I, l)
      o  == SearchLeaf(jp.keys, k)
      ks == INSERTINPLACE(jp.keys, o, k)
      vs == INSERTCOPY(jp.vals, o, V)
      grown == n < IMMED_MAXPOP1[l]
      a  == IF grown THEN AllocJV(m, n + 1) ELSE AllocJLL(m, l, n + 1)
  IN  IF Exists(jp.keys, k) THEN Result(0, [jp EXCEPT !.vals[o + 1] = V], m)
      ELSE IF Refused(a) THEN Result(-1, jp, a)
      ELSE Result(1, IF grown THEN Immed(l, ks, vs) ELSE Leaf(l, DCD(I, l), n - 1, ks, vs), FreeJV(a, n))

RECURSIVE InsWalk(_, _, _, _)

(* A linear leaf grows in place, into a larger one, or cascades.           *)
InsCascaded(c, l, I, V) ==
  IF c.rc = -1 THEN c ELSE InsWalk(c.jp, I, V, FreeJLL(c.m, l, LEAF_MAXPOP1[l]))
InsLeaf(jp, I, V, m) ==
  LET l    == jp.level
      k    == LEASTBYTES(I, l)
      o    == SearchLeaf(jp.keys, k)
      pop1 == jp.pop0 + 1
      grown == [jp EXCEPT !.keys = INSERTCOPY(@, o, k), !.vals = INSERTCOPY(@, o, V)]
      a    == AllocJLL(m, l, pop1 + 1)
  IN  IF Exists(jp.keys, k) THEN Result(0, [jp EXCEPT !.vals[o + 1] = V], m)
      ELSE IF GrowInPlace(LeafTable[l], pop1) THEN Result(1, grown, m)
      ELSE IF pop1 < LEAF_MAXPOP1[l]
      THEN IF Refused(a) THEN Result(-1, jp, a) ELSE Result(1, grown, FreeJLL(a, l, pop1))
      ELSE InsCascaded(IF l = 1 THEN Cascade1(jp, m) ELSE Cascade(jp, m), l, I, V)

InsLeafB1(jp, I, V, m) ==
  LET d == DIGITATSTATE(I, 1)
      s == SubExp(d)
      o == Offset(jp.bitmap[s], d)
      n == Cardinality(jp.bitmap[s])
      a == AllocJV(m, n + 1)
      grown == [jp EXCEPT !.bitmap[s] = @ \cup {d}, !.vals[s] = INSERTCOPY(@, o, V)]
  IN  IF d \in jp.bitmap[s] THEN Result(0, [jp EXCEPT !.vals[s][o + 1] = V], m)
      ELSE IF GrowInPlace(LeafVTable, n) THEN Result(1, grown, m)
      ELSE IF Refused(a) THEN Result(-1, jp, a)
      ELSE Result(1, grown, FreeJV(a, n))

(* Down into the JP of a digit; an index that was added is counted in that *)
(* JP, unless it is an immediate one.                                      *)
InsBelow_Before(jp, d, I, V, m) ==  \* looks at the JP as it was before
  LET r == InsWalk(ChildJP(jp, d), I, V, m)
  IN  [r EXCEPT !.jp = SetChildJP(jp, d,
        IF r.rc = 1 /\ ~ IsImmed(ChildJP(jp, d)) /\ "pop0" \in DOMAIN r.jp THEN [r.jp EXCEPT !.pop0 = @ + 1] ELSE r.jp)]
Counted(jp, d, r) ==
  [r EXCEPT !.jp = SetChildJP(jp, d, IF r.rc = 1 /\ ~ IsImmed(r.jp) THEN [r.jp EXCEPT !.pop0 = @ + 1] ELSE r.jp)]
InsBelow(jp, d, I, V, m) == Counted(jp, d, InsWalk(ChildJP(jp, d), I, V, m))

(* j__udyCreateBranchU and ConvertBranchBtoU: a crowded linear or bitmap   *)
(* branch becomes uncompressed on the way, even if nothing is added below. *)
CreateBranchU(jp) ==
  BranchU(jp.level, jp.dcd, jp.pop0,
          [d \in 0 .. BASE - 1 |-> IF Exists(Expanses(jp), d) THEN ChildJP(jp, d) ELSE Null(jp.level - 1)])
PopOf(jp, m) == IF jp.level = ROOTSTATE THEN m.pop0 ELSE jp.pop0

InsBranchL(jp, I, V, m) ==
  LET l == jp.level
      d == DIGITATSTATE(I, l)
      o == SearchLeaf(jp.expanse, d)
      u == AllocJBU(m)
      b == CreateBranchB(jp, jp.expanse, jp.jps, m)
  IN  IF PopOf(jp, m) > BRANCHL_MAX_POP
      THEN IF Refused(u) THEN Result(-1, jp, u)
           ELSE InsWalk(CreateBranchU(jp), I, V, [FreeJBL(u) EXCEPT !.lastu = m.pop0])
      ELSE IF HasJP(jp, d) THEN InsBelow(jp, d, I, V, m)
      ELSE IF Len(jp.jps) < BRANCHLMAXJPS
      THEN Result(1, [jp EXCEPT !.expanse = INSERTINPLACE(@, o, d),
                                !.jps = INSERTINPLACE(@, o, Immed01(l - 1, I, V))], m)
      ELSE IF b.rc = -1 THEN b
      ELSE InsWalk(b.jp, I, V, FreeJBL(b.m))

(* jpm_Pop0 - jpm_LastUPop0 is unsigned: after deletions it is huge.       *)
ConvertBtoU(jp, m) ==
  /\ m.pop0 < m.lastu \/ m.pop0 - m.lastu > BTOU_POP_INCREMENT
  /\ m.pop0 > BRANCHB_MAX_POP
  /\ PopOf(jp, m) > BRANCHB_MIN_POP
InsBranchB(jp, I, V, m) ==
  LET l == jp.level
      d == DIGITATSTATE(I, l)
      s == SubExp(d)
      n == Cardinality(jp.bitmap[s])
      o == Offset(jp.bitmap[s], d)
      u == AllocJBU(m)
      a == AllocJBBJP(m, n + 1)
      grown == [jp EXCEPT !.bitmap[s] = @ \cup {d}, !.jps[s] = INSERTCOPY(@, o, Immed01(l - 1, I, V))]
  IN  IF ConvertBtoU(jp, m)
      THEN IF Refused(u) THEN Result(-1, jp, u)
           ELSE InsWalk(CreateBranchU(jp), I, V, [FreeJBB(u, jp.bitmap) EXCEPT !.lastu = m.pop0])
      ELSE IF HasJP(jp, d) THEN InsBelow(jp, d, I, V, m)
      ELSE IF GrowInPlace(BranchJPTable, n) THEN Result(1, grown, m)
      ELSE IF Refused(a) THEN Result(-1, jp, a)
      ELSE Result(1, grown, FreeJBBJP(a, n))

InsBranchU(jp, I, V, m) == InsBelow(jp, DIGITATSTATE(I, jp.level), I, V, m)

InsWalk(jp, I, V, m) ==
  CASE jp.type = "NULL" -> Result(1, Immed01(jp.level, I, V), m)
    [] IsImmed(jp) -> IF Len(jp.keys) = 1 THEN InsImmed01(jp, I, V, m) ELSE InsImmed(jp, I, V, m)
    [] OTHER ->
         IF DCDNOTMATCHINDEX(I, jp) THEN InsertBranch(jp, I, V, m)
         ELSE CASE jp.type = "LEAF"     -> InsLeaf(jp, I, V, m)
                [] jp.type = "LEAF_B1"  -> InsLeafB1(jp, I, V, m)
                [] jp.type = "BRANCH_L" -> InsBranchL(jp, I, V, m)
                [] jp.type = "BRANCH_B" -> InsBranchB(jp, I, V, m)
                [] jp.type = "BRANCH_U" -> InsBranchU(jp, I, V, m)

-----------------------------------------------------------------------------
(* A call starts with the words of its JPM, the heap, and a number of      *)
(* malloc()s that will not be refused.                                     *)
Call(P, heap, left) ==
  [words |-> IF P.kind = "JPM" THEN P.words ELSE 0, heap |-> heap, left |-> left, errno |-> "NONE",
   pop0 |-> IF P.kind = "JPM" THEN P.pop0 ELSE 0, lastu |-> IF P.kind = "JPM" THEN P.lastu ELSE 0]
Returned(rc, P, m) == [rc |-> rc, array |-> P, heap |-> m.heap]

InsWalked(P, r) ==
  Returned(r.rc, JPM(r.jp, IF r.rc = 1 THEN P.pop0 + 1 ELSE P.pop0, r.m.lastu, r.m.words), r.m)
InsJPM(P, I, V, m) == InsWalked(P, InsWalk(P.jp, I, V, m))

(* A full root leaf gets a JPM; the walk that follows may still run out of *)
(* memory, and then the JPM has the population of the leaf.                *)
InsRoot(P, c, I, V) ==
  LET pop0 == LEAFW_MAXPOP1 - 1
      f == FreeJLW([c.m EXCEPT !.pop0 = pop0], LEAFW_MAXPOP1)
  IN  IF c.rc = -1 THEN Returned(-1, P, c.m) ELSE InsJPM(JPM(c.jp, pop0, 0, f.words), I, V, f)
InsLeafWCascade(P, I, V, m) ==
  LET a == AllocJPM(m)
  IN  IF Refused(a) THEN Returned(-1, P, a)
      ELSE InsRoot(P, CascadeL(Leaf(ROOTSTATE, 0, LEAFW_MAXPOP1 - 1, P.keys, P.vals), a), I, V)

JudyLIns(P, I, V, heap, left) ==
  LET m == Call(P, heap, left)
      a == AllocJLW(m, 1)
      pop1 == Len(P.keys)
      o == SearchLeaf(P.keys, I)
      grown == LeafW(INSERTCOPY(P.keys, o, I), INSERTCOPY(P.vals, o, V))
      b == AllocJLW(m, pop1 + 1)
  IN  IF P = NoArray THEN IF Refused(a) THEN Returned(-1, P, a) ELSE Returned(1, LeafW(<<I>>, <<V>>), a)
      ELSE IF ~ ReadAsLeafW(P) THEN InsJPM(P, I, V, m)
      ELSE IF Exists(P.keys, I) THEN Returned(0, [P EXCEPT !.vals[o + 1] = V], m)
      ELSE IF GrowInPlace(LeafWTable, pop1) THEN Returned(1, grown, m)
      ELSE IF pop1 < LEAFW_MAXPOP1
      THEN IF Refused(b) THEN Returned(-1, P, b) ELSE Returned(1, grown, FreeJLW(b, pop1))
      ELSE InsLeafWCascade(P, I, V, m)
=============================================================================

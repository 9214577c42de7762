----------------------------- MODULE JudySearch ------------------------------
(***************************************************************************)
(* The searches of a JudyL array: the next and the previous index, the     *)
(* next and the previous absent one, counting, and the index of a given    *)
(* position.  dir is 1 in JudyLNext and -1 in JudyLPrev, which are one     *)
(* source file.  A search rewrites the caller's *PIndex, the variable I    *)
(* here, digit by digit as it goes down.                                   *)
(***************************************************************************)
EXTENDS JudyDel

CONSTANT JPSPERCL  \* JPs in a cache line

MaxIndex == BASE^ROOTSTATE - 1
Outermost(dir) == IF dir = 1 THEN MaxIndex ELSE 0

SETDIGIT(I, d, s)  == I + DIGITTOSTATE(d - DIGITATSTATE(I, s), s)
SETDIGITS(I, x, n) == I - LEASTBYTES(I, n) + LEASTBYTES(x, n)
SETDCD(I, jp)      == I - DCD(I, jp.level) + jp.dcd

NotFound    == [found |-> FALSE]
Found(I, v) == [found |-> TRUE, index |-> I, value |-> v]

(* The members of a sorted sequence: the first in a direction, and the     *)
(* nearest one after x, -1 if there is none.                               *)
Edge(xs, dir) == IF dir = 1 THEN xs[1] ELSE xs[Len(xs)]
Nearest(xs, x, dir) ==
  LET Beyond == SelectSeq(xs, LAMBDA y : dir * (y - x) > 0)
  IN  IF Beyond = <<>> THEN -1 ELSE Edge(Beyond, dir)

(* The digits that a leaf or an immediate JP decodes, and their values.    *)
LeafKeys(jp) == CASE jp.type = "LEAF_B1" -> BitmapDigits(jp.bitmap)
                  [] jp.type = "LEAF" -> jp.keys
                  [] IsImmed(jp) -> [i \in 1 .. Len(jp.keys) |-> LEASTBYTES(jp.keys[i], jp.level)]
LeafVals(jp) == IF jp.type = "LEAF_B1" THEN Gather(jp.vals) ELSE jp.vals
FoundKey(jp, I, k) == Found(SETDIGITS(I, k, jp.level), LeafVals(jp)[SearchLeaf(LeafKeys(jp), k) + 1])

-----------------------------------------------------------------------------
(* SM3Findlimit: the outermost index below a JP, whose digits replace what *)
(* the walk so far has left in I.                                          *)
RECURSIVE Findlimit(_, _, _)
LimitBranch(jp, I, dir) ==
  LET d == Edge(Expanses(jp), dir)
  IN  Findlimit(ChildJP(jp, d), SETDIGIT(I, d, jp.level), dir)
LimitLeaf(jp, I, dir)  == FoundKey(jp, I, Edge(LeafKeys(jp), dir))
LimitImmed(jp, I, dir) == FoundKey(jp, I, Edge(LeafKeys(jp), dir))
Findlimit_Stale(jp, I, dir) ==  \* leaves the digits a narrow pointer skips as they are
  CASE IsBranch(jp) -> LimitBranch(jp, I, dir)
    [] IsImmed(jp)  -> LimitImmed(jp, I, dir)
    [] OTHER        -> LimitLeaf(jp, I, dir)
Findlimit(jp, I, dir) ==
  CASE IsBranch(jp) -> LimitBranch(jp, SETDCD(I, jp), dir)
    [] IsImmed(jp)  -> LimitImmed(jp, I, dir)
    [] OTHER        -> LimitLeaf(jp, SETDCD(I, jp), dir)

(* SM2Backtrack: up to the last branch that has another JP in the          *)
(* direction of the search.                                                *)
RECURSIVE Backtrack(_, _, _)
Backtrack(hist, I, dir) ==
  LET h == hist[Len(hist)]
      d == Nearest(Expanses(h.jp), h.digit, dir)
  IN  IF hist = <<>> THEN NotFound
      ELSE IF d = -1 THEN Backtrack(SubSeq(hist, 1, Len(hist) - 1), I, dir)
      ELSE Findlimit(ChildJP(h.jp, d), SETDIGIT(I, d, h.jp.level), dir)

(* SM1Get: down along the digits of I, which is itself a possible answer.  *)
RECURSIVE SM1Get(_, _, _, _)
(* CHECKDCD: the expanse of jp is all before I, or all after it.           *)
SM1OutsideExp(jp, I, hist, dir) ==
  IF dir * (DCD(I, jp.level) - jp.dcd) > 0 THEN Backtrack(hist, I, dir) ELSE Findlimit(jp, I, dir)
SM1Branch(jp, I, hist, dir) ==
  LET d == DIGITATSTATE(I, jp.level)
      near == Nearest(Expanses(jp), d, dir)
  IN  IF Exists(Expanses(jp), d)
      THEN SM1Get(ChildJP(jp, d), I, Append(hist, [jp |-> jp, digit |-> d]), dir)
      ELSE IF near = -1 THEN Backtrack(hist, I, dir)
      ELSE Findlimit(ChildJP(jp, near), SETDIGIT(I, near, jp.level), dir)
SM1Near(jp, keys, x, I, hist, dir) ==
  LET k == IF Exists(keys, x) THEN x ELSE Nearest(keys, x, dir)
  IN  IF k = -1 THEN Backtrack(hist, I, dir) ELSE FoundKey(jp, I, LEASTBYTES(k, jp.level))
SM1Leaf(jp, I, hist, dir)   == SM1Near(jp, jp.keys, LEASTBYTES(I, jp.level), I, hist, dir)
SM1LeafB1(jp, I, hist, dir) == SM1Near(jp, LeafKeys(jp), DIGITATSTATE(I, 1), I, hist, dir)
SM1Immed(jp, I, hist, dir)  ==
  SM1Near(jp, jp.keys, IF Len(jp.keys) = 1 THEN TRIMTODCDSIZE(I) ELSE LEASTBYTES(I, jp.level), I, hist, dir)
SM1Get(jp, I, hist, dir) ==
  IF IsImmed(jp) THEN SM1Immed(jp, I, hist, dir)
  ELSE IF DCDNOTMATCHINDEX(I, jp) THEN SM1OutsideExp(jp, I, hist, dir)
  ELSE CASE IsBranch(jp)        -> SM1Branch(jp, I, hist, dir)
         [] jp.type = "LEAF"    -> SM1Leaf(jp, I, hist, dir)
         [] jp.type = "LEAF_B1" -> SM1LeafB1(jp, I, hist, dir)

(* JudyLNext and JudyLPrev. *)
PrevNext(P, I, dir) ==
  IF P = NoArray \/ I = Outermost(dir) THEN NotFound
  ELSE IF ReadAsLeafW(P)
  THEN LET k == IF Exists(P.keys, I + dir) THEN I + dir ELSE Nearest(P.keys, I + dir, dir)
       IN  IF k = -1 THEN NotFound ELSE Found(k, P.vals[SearchLeaf(P.keys, k) + 1])
  ELSE SM1Get(P.jp, I + dir, <<>>, dir)

(* JudyLFirst and JudyLLast: the index itself, if it is there. *)
FirstLast(P, I, dir) ==
  IF JudyLGet(P, I) # NULL THEN Found(I, JudyLGet(P, I)) ELSE PrevNext(P, I, dir)

-----------------------------------------------------------------------------
Absent(I) == [found |-> TRUE, index |-> I]

(* j__udySearchLeafEmpty: the first number from x on in the direction of   *)
(* the search that a leaf of n digits lacks, -1 past its last one.         *)
Hole(keys, x, n, dir) ==
  LET free == {y \in {x} \cup {k + dir : k \in ToSet(keys)} :
                 y \in 0 .. BASE^n - 1 /\ ~ Exists(keys, y) /\ dir * (y - x) >= 0}
  IN  IF free = {} THEN -1 ELSE IF dir = 1 THEN Min(free) ELSE Max(free)

(* A subtree with every index of its expanse: a bitmap leaf, or a branch   *)
(* straight under this one.                                                *)
JPFULL_AlmostToo(jp, digits) ==  \* or all but one of them
  /\ jp.type # "NULL" /\ ~ IsImmed(jp)
  /\ IF digits = 2 THEN jp.type = "LEAF_B1" ELSE IsBranch(jp) /\ jp.level = digits - 1
  /\ jp.pop0 >= BASE^(digits - 1) - 2
JPFULL(jp, digits) ==
  /\ jp.type # "NULL" /\ ~ IsImmed(jp)
  /\ IF digits = 2 THEN jp.type = "LEAF_B1" ELSE IsBranch(jp) /\ jp.level = digits - 1
  /\ jp.pop0 = BASE^(digits - 1) - 1

(* SMRESTART: past the whole expanse, and down from the root again.        *)
Restart(I, n, dir) == SETDIGITS(I, IF dir = 1 THEN BASE^n - 1 ELSE 0, n)

(* SMGetContinue.  The result is an index, or where to start again.        *)
RECURSIVE SearchEmpty(_, _, _)
SMRESTART(jp, I, dir) == [found |-> FALSE, index |-> Restart(I, jp.level, dir)]
EmptyBranch(jp, I, dir) ==
  LET l == jp.level
      d == DIGITATSTATE(I, l)
      ds == ToSet(Expanses(jp))
      Open == {e \in 0 .. BASE - 1 : dir * (e - d) >= 0 /\ ~ (e \in ds /\ JPFULL(ChildJP(jp, e), l))}
      e == IF dir = 1 THEN Min(Open) ELSE Max(Open)
      J == IF e = d THEN I ELSE SETDIGIT(Restart(I, l - 1, -dir), e, l)
  IN  IF Open = {} THEN SMRESTART(jp, I, dir)
      ELSE IF e \notin ds THEN Absent(J) ELSE SearchEmpty(ChildJP(jp, e), J, dir)
EmptyLeaf(jp, I, dir) ==
  LET h == Hole(LeafKeys(jp), LEASTBYTES(I, jp.level), jp.level, dir)
  IN  IF h = -1 THEN SMRESTART(jp, I, dir) ELSE Absent(SETDIGITS(I, h, jp.level))
EmptyLeafB1(jp, I, dir) == EmptyLeaf(jp, I, dir)
EmptyImmed(jp, I, dir) ==
  IF Len(jp.keys) = 1 /\ jp.keys[1] # TRIMTODCDSIZE(I) THEN Absent(I) ELSE EmptyLeaf(jp, I, dir)
SearchEmpty(jp, I, dir) ==
  IF IsImmed(jp) THEN EmptyImmed(jp, I, dir)
  ELSE IF DCDNOTMATCHINDEX(I, jp) THEN Absent(I)
  ELSE CASE IsBranch(jp)        -> EmptyBranch(jp, I, dir)
         [] jp.type = "LEAF"    -> EmptyLeaf(jp, I, dir)
         [] jp.type = "LEAF_B1" -> EmptyLeafB1(jp, I, dir)

(* JudyLNextEmpty and JudyLPrevEmpty. *)
RECURSIVE Empty(_, _, _)
Empty(P, I, dir) ==
  LET r == SearchEmpty(P.jp, I + dir, dir)
      h == Hole(P.keys, I + dir, ROOTSTATE, dir)
  IN  IF I = Outermost(dir) THEN NotFound
      ELSE IF P = NoArray THEN Absent(I + dir)
      ELSE IF ReadAsLeafW(P) THEN IF h = -1 THEN NotFound ELSE Absent(h)
      ELSE IF r.found THEN r ELSE Empty(P, r.index, dir)
(* JudyLFirstEmpty and JudyLLastEmpty. *)
FirstLastEmpty(P, I, dir) == IF JudyLGet(P, I) = NULL THEN Absent(I) ELSE Empty(P, I, dir)

-----------------------------------------------------------------------------
(* j__udyJPPop1 *)
JPPop1(jp) == IF IsImmed(jp) THEN Len(jp.keys) ELSE jp.pop0 + 1
Pop1Of(jp, ds) ==
  FoldLeft(LAMBDA n, d : IF d \in ds THEN n + JPPop1(ChildJP(jp, d)) ELSE n, 0, Expanses(jp))

(* CLPERJPS: counting a bitmap branch goes to the side of the digit that   *)
(* reads fewer cache lines.                                                *)
CLPERJPS(n) == CeilDiv(n, JPSPERCL)
FewerBelow(jp, d) ==
  LET s == SubExp(d)
      n == Cardinality({b \in jp.bitmap[s] : b <= d})
      Lines(S) == FoldLeft(LAMBDA w, i : IF i - 1 \in S THEN w + CLPERJPS(Cardinality(jp.bitmap[i - 1])) ELSE w,
                           0, [i \in 1 .. Cardinality(SubExps) |-> i])
  IN  Lines({t \in SubExps : t < s}) + CLPERJPS(n) - 1
        < Lines({t \in SubExps : t > s}) + CLPERJPS(Cardinality(jp.bitmap[s])) - CLPERJPS(n)

(* j__udyCountLeafB1: the indexes before that of I, from the nearer end.   *)
Bits(jp, ds) == Len(SelectSeq(BitmapDigits(jp.bitmap), LAMBDA d : d \in ds))
CountLeafB1_Excluding(jp, I) ==  \* leaves I itself out of what is above it
  LET d == DIGITATSTATE(I, 1)
  IN  IF 2 * SubExp(d) < Cardinality(SubExps) THEN Bits(jp, 0 .. d) - 1
      ELSE jp.pop0 + 1 - Bits(jp, d + 1 .. BASE - 1)
CountLeafB1(jp, I) ==
  LET d == DIGITATSTATE(I, 1)
  IN  IF 2 * SubExp(d) < Cardinality(SubExps) THEN Bits(jp, 0 .. d) - 1
      ELSE jp.pop0 + 1 - Bits(jp, d .. BASE - 1)

(* j__udy1LCountSM: the indexes from I, which is present, to the last; the *)
(* root branch takes its population from the JPM.  A bitmap and an         *)
(* uncompressed branch count on one side of the digit of I only.           *)
RECURSIVE CountSM(_, _, _)
FromChild(jp, d, I)     == CountSM(ChildJP(jp, d), I, JPPop1(ChildJP(jp, d)))
AboveDigit(jp, d)       == Pop1Of(jp, d + 1 .. BASE - 1)
AllBut(jp, d, pop1)     == pop1 - Pop1Of(jp, 0 .. d)
CountBranchL(jp, d, I)  == AboveDigit(jp, d) + FromChild(jp, d, I)
CountBranchB(jp, d, I, pop1) ==
  (IF FewerBelow(jp, d) THEN AllBut(jp, d, pop1) ELSE AboveDigit(jp, d)) + FromChild(jp, d, I)
CountBranchU(jp, d, I, pop1) ==
  (IF d < BASE \div 2 THEN AllBut(jp, d, pop1) ELSE AboveDigit(jp, d)) + FromChild(jp, d, I)
CountLeaf(jp, I, pop1) ==
  CASE jp.type = "LEAF_B1" -> pop1 - CountLeafB1(jp, I)
    [] IsImmed(jp) /\ Len(jp.keys) = 1 -> 1
    [] OTHER -> pop1 - SearchLeaf(LeafKeys(jp), LEASTBYTES(I, jp.level))
CountSM(jp, I, pop1) ==
  LET d == DIGITATSTATE(I, jp.level)
  IN  CASE jp.type = "BRANCH_L" -> CountBranchL(jp, d, I)
        [] jp.type = "BRANCH_B" -> CountBranchB(jp, d, I, pop1)
        [] jp.type = "BRANCH_U" -> CountBranchU(jp, d, I, pop1)
        [] OTHER -> CountLeaf(jp, I, pop1)

FromIndex(P, I) == IF ReadAsLeafW(P) THEN Len(P.keys) - SearchLeaf(P.keys, I)
                   ELSE CountSM(P.jp, I, P.pop0 + 1)
JudyLCount(P, I1, I2) ==
  LET a == FirstLast(P, I1, 1)
      b == FirstLast(P, I2 + 1, 1)
      above1 == IF I1 = 0 THEN LEAFW_POP0(P) + 1 ELSE FromIndex(P, a.index)
  IN  IF P = NoArray \/ I1 > I2 THEN 0
      ELSE IF I1 = I2 THEN IF JudyLGet(P, I1) = NULL THEN 0 ELSE 1
      ELSE IF I1 # 0 /\ ~ a.found THEN 0
      ELSE IF I2 = MaxIndex THEN above1
      ELSE IF ~ b.found THEN above1 ELSE above1 - FromIndex(P, b.index)

-----------------------------------------------------------------------------
(* JudyLByCount.  The search for the part of a node that holds position   *)
(* Count0 starts at its nearer end, except in a linear branch; lower       *)
(* counts the indexes before the parts not yet passed.                     *)
LOWERHALF(Count0, lower, pop1) == Count0 - lower < pop1 \div 2
FromFirst(xs, pop, Count0, lower) ==
  LET Low(a, x) == IF a.done THEN a
                   ELSE IF a.lower + pop[x] > Count0 THEN [a EXCEPT !.done = TRUE, !.at = x]
                   ELSE [a EXCEPT !.lower = @ + pop[x]]
  IN  FoldLeft(Low, [done |-> FALSE, at |-> -1, lower |-> lower], xs)
FromLast(xs, pop, Count0, lower) ==
  LET High(a, x) == LET b == a.lower - pop[x]
                    IN  IF a.done THEN a ELSE [done |-> b = 0 \/ b - 1 < Count0, at |-> x, lower |-> b]
  IN  FoldLeft(High, [done |-> FALSE, at |-> -1, lower |-> lower], Reverse(xs))
Part(xs, pop, Count0, lower, pop1) ==
  IF LOWERHALF(Count0, lower, pop1) THEN FromFirst(xs, pop, Count0, lower)
  ELSE FromLast(xs, pop, Count0, lower + pop1)

RECURSIVE ByCountSM(_, _, _, _, _)
ChildPops(jp) == [d \in ToSet(Expanses(jp)) |-> JPPop1(ChildJP(jp, d))]
ByCountIn(jp, part, Count0, I) ==
  LET c == ChildJP(jp, part.at)
  IN  ByCountSM(c, Count0, SETDIGIT(I, part.at, jp.level), part.lower, JPPop1(c))
ByCountL(jp, Count0, I, lower) ==
  ByCountIn(jp, FromFirst(jp.expanse, ChildPops(jp), Count0, lower), Count0, I)
ByCountB(jp, Count0, I, lower, pop1) ==
  ByCountIn(jp, Part(BitmapDigits(jp.bitmap), ChildPops(jp), Count0, lower, pop1), Count0, I)
ByCountU(jp, Count0, I, lower, pop1) ==
  ByCountIn(jp, Part(Expanses(jp), ChildPops(jp), Count0, lower, pop1), Count0, I)
ByCountLeafB1(jp, Count0, I, lower, pop1) ==
  LET s == Part([i \in 1 .. Cardinality(SubExps) |-> i - 1], [t \in SubExps |-> Cardinality(jp.bitmap[t])],
                Count0, lower, pop1)
  IN  FoundKey(jp, I, SelectSeq(Digits, LAMBDA d : d \in jp.bitmap[s.at])[Count0 - s.lower + 1])
ByCountLeaf(jp, Count0, I, lower) == FoundKey(jp, I, jp.keys[Count0 - lower + 1])
ByCountImmed(jp, Count0, I, lower) ==
  FoundKey(jp, I, LeafKeys(jp)[IF Len(jp.keys) = 1 THEN 1 ELSE Count0 - lower + 1])
ByCountSM(jp, Count0, I, lower, pop1) ==
  CASE IsImmed(jp)           -> ByCountImmed(jp, Count0, I, lower)
    [] jp.type = "BRANCH_L"  -> ByCountL(jp, Count0, SETDCD(I, jp), lower)
    [] jp.type = "BRANCH_B"  -> ByCountB(jp, Count0, SETDCD(I, jp), lower, pop1)
    [] jp.type = "BRANCH_U"  -> ByCountU(jp, Count0, SETDCD(I, jp), lower, pop1)
    [] jp.type = "LEAF_B1"   -> ByCountLeafB1(jp, Count0, SETDCD(I, jp), lower, pop1)
    [] jp.type = "LEAF"      -> ByCountLeaf(jp, Count0, SETDCD(I, jp), lower)

(* Position 0 is that of the index past the last one: Count - 1 wraps.     *)
JudyLByCount(P, Count, I) ==
  LET Count0 == IF Count = 0 THEN MaxIndex ELSE Count - 1
  IN  IF P = NoArray \/ Count0 > LEAFW_POP0(P) THEN NotFound
      ELSE IF ReadAsLeafW(P) THEN Found(P.keys[Count], P.vals[Count])
      ELSE ByCountSM(P.jp, Count0, I, 0, P.pop0 + 1)
=============================================================================

------------------------------ MODULE JudyProps ------------------------------
(***************************************************************************)
(* The properties of a JudyL array.                                        *)
(***************************************************************************)
EXTENDS Judy

(* The indexes below a JP with their values; a branch adds the digit of    *)
(* each JP it has, and the digits that its pointer skipped.                *)
RECURSIVE Pairs(_)
Children(jp) == {<<d, ChildJP(jp, d)>> : d \in ToSet(Expanses(jp))}
Pairs(jp) ==
  LET ks == LeafKeys(jp)
      At(b) == {<<b + ks[i], LeafVals(jp)[i]>> : i \in 1 .. Len(ks)}
      Under(d, ps) == {<<jp.dcd + DIGITTOSTATE(d, jp.level) + LEASTBYTES(x[1], jp.level - 1), x[2]>> : x \in ps}
  IN  CASE jp.type = "NULL" -> {}
        [] IsBranch(jp) -> UNION {Under(c[1], Pairs(c[2])) : c \in Children(jp)}
        [] IsImmed(jp)  -> At(0)
        [] OTHER        -> At(jp.dcd)
AllPairs(P) == CASE P.kind = "NULL"  -> {}
                 [] P.kind = "LEAFW" -> {<<P.keys[i], P.vals[i]>> : i \in 1 .. Len(P.keys)}
                 [] P.kind = "JPM"   -> Pairs(P.jp)
MapOf(P) == LET ps == AllPairs(P)
            IN  [I \in {x[1] : x \in ps} |-> (CHOOSE x \in ps : x[1] = I)[2]]
Contents == MapOf(array)

(* The indexes the searches are asked about.                               *)
Probes == {I \in UNION {{k - 1, k, k + 1} : k \in program.keys} \cup {0, MaxIndex} : I >= 0 /\ I <= MaxIndex}

-----------------------------------------------------------------------------
(* The array is a map: a call that answers 1 adds or takes away one index  *)
(* with its value, one that answers 0 changes nothing, and memory refused  *)
(* in the middle of a conversion costs one index at most (JudyIns.c,       *)
(* JudyDel.c, JudyInsArray.c).                                             *)
AllKeys == UNION {q.keys : q \in Programs}
AllBatches == UNION {q.batches : q \in Programs}
Mapped == INSTANCE JudyMap WITH Indexes <- AllKeys, Batches <- AllBatches, map <- AllPairs(array)
MapSpec == Mapped!Spec

(* With memory enough, the index is the one the call was given: through    *)
(* all the conversions on its way, every other one keeps its value         *)
(* (JudyCascade.c, JudyDecascade.c, JudyInsertBranch.c).                   *)
ItsOwnIndex == Readable(array) =>
  LET map == Contents
      Gives(r, after) == r.rc = 1 /\ MapOf(r.array) = after
  IN  \A I \in program.keys :
        IF I \in DOMAIN map THEN Gives(JudyLDel(array, I, heap, Plenty), Restrict(map, DOMAIN map \ {I}))
        ELSE Gives(JudyLIns(array, I, ValueOf(I), heap, Plenty), (I :> ValueOf(I)) @@ map)

(* JudyLGet finds exactly the indexes the tree holds: a digit that a       *)
(* narrow pointer skipped is compared, a stale one is not (JudyGet.c).     *)
GetAgrees == Readable(array) =>
  LET map == Contents
  IN  \A I \in Probes : JudyLGet(array, I) = IF I \in DOMAIN map THEN map[I] ELSE NULL

(* The tree is well formed (JudyPrivate.h, JudyPrivateBranch.h): every     *)
(* population is the number of indexes below it, on which counting and the *)
(* choice of conversions rely; the digits a pointer skips lead to where it *)
(* hangs; digits ascend; nodes stay within their sizes.                    *)
Ordered(xs) == \A i \in 2 .. Len(xs) : xs[i - 1] < xs[i]
RECURSIVE GoodJP(_, _, _)
GoodJP(jp, l, p) ==
  /\ jp.level <= l /\ (jp.type \in {"NULL", "IMMED"} => jp.level = l)
  /\ IsImmed(jp) => /\ Len(jp.keys) <= IMMED_MAXPOP1[l] /\ Len(jp.vals) = Len(jp.keys) /\ Ordered(jp.keys)
                    /\ Len(jp.keys) = 1 => jp.keys[1] - LEASTBYTES(jp.keys[1], l) = DCD(p, l)
  /\ jp.type \notin {"NULL", "IMMED"} =>
       /\ jp.dcd = DCD(jp.dcd, jp.level) /\ DCD(jp.dcd, l) = DCD(p, l)
       /\ l < ROOTSTATE => jp.pop0 + 1 = Cardinality(Pairs(jp))
  /\ jp.type = "LEAF" => Len(jp.keys) <= LEAF_MAXPOP1[jp.level] /\ Len(jp.vals) = Len(jp.keys) /\ Ordered(jp.keys)
  /\ jp.type = "BRANCH_L" => Len(jp.jps) <= BRANCHLMAXJPS /\ Ordered(jp.expanse)
  /\ IsBranch(jp) =>
       \A d \in ToSet(Expanses(jp)) :
         /\ ChildJP(jp, d).type # "NULL"
         /\ GoodJP(ChildJP(jp, d), jp.level - 1, SETDCD(p, jp) + DIGITTOSTATE(d, jp.level))
WellFormed == /\ array.kind = "LEAFW" => Len(array.keys) <= LEAFW_MAXPOP1 /\ Ordered(array.keys)
              /\ array.kind = "JPM" => /\ array.jp.level = ROOTSTATE /\ GoodJP(array.jp, ROOTSTATE, 0)
                                       /\ array.pop0 + 1 = Cardinality(AllPairs(array))

(* The tree is never more compressed than its indexes need, which the      *)
(* deletions count on: "critical assumption that the tree is always kept   *)
(* in least-compressed form" (JudyDel.c:1398).  A branch, a bitmap leaf or *)
(* a leaf that skips a level has no fewer indexes than the leaf it would   *)
(* otherwise be can hold, and what it needs to go back is one deletion.    *)
RECURSIVE Least(_, _)
Least(jp, l) ==
  /\ IsBranch(jp) /\ jp.level < ROOTSTATE => jp.pop0 + 1 >= LEAF_MAXPOP1[jp.level]
  /\ jp.type = "LEAF_B1" => jp.pop0 + 1 >= LEAF_MAXPOP1[1]
  /\ jp.type \in {"LEAF", "LEAF_B1"} /\ jp.level < l => jp.pop0 + 1 >= LEAF_MAXPOP1[jp.level + 1]
  /\ jp.type = "LEAF" => Len(jp.keys) > IMMED_MAXPOP1[jp.level]
  /\ IsBranch(jp) => \A d \in ToSet(Expanses(jp)) : Least(ChildJP(jp, d), jp.level - 1)
LeastCompressed == array.kind = "JPM" => Least(array.jp, ROOTSTATE)

(* The words a JPM counts are those of the nodes it reaches, so that       *)
(* JudyLFreeArray gives everything back and finds no corruption, and the   *)
(* bytes in use never exceed them (JudyMallocIF.c, JudyFreeArray.c,        *)
(* JudyMemActive.c).                                                       *)
WordsCounted ==
  /\ array.kind = "JPM" => array.words = FreeSM(array.jp) + JPMWORDS
  /\ Readable(array) => JudyLMemActive(array) <= BPW * JudyLMemUsed(array)
(* Unless memory was refused in some call, or a root leaf was loaded, the  *)
(* array accounts for all the memory its program has got for it: no        *)
(* conversion forgets a node or frees one twice.                           *)
NoLeak == short = 0 /\ ~ drift => heap = JudyLMemUsed(array)

(* The tables JudyTables.c generates for a 32-bit machine: an index more   *)
(* in the same words finds the values where they are (JU_INSERTINPLACE     *)
(* shifts within the value area), and the values always end inside the     *)
(* node.  Leaves of 1 to 3 bytes, the root leaf, the value areas           *)
(* (JudyL.h:255-313, JudyL.h:376-452).  They are the same in every state:  *)
(* the empty array stands for all.                                         *)
NodeTypes == {<<1, 4, 0, 25>>, <<2, 4, 0, 42>>, <<3, 4, 0, 36>>, <<4, 4, 1, 31>>, <<4, 0, 0, 32>>, <<8, 0, 0, 32>>}
InPlaceTables == array = NoArray =>
  \A t \in NodeTypes :
    LET words == PopToWords(t[1], t[2], t[3], t[4])
        value == ValueOffset(t[1], t[2], t[3], t[4])
    IN  \A n \in 1 .. t[4] :
          /\ t[2] > 0 => CeilDiv(t[1] * n, BPW) + t[3] <= value[n] /\ value[n] + n <= words[n]
          /\ t[2] > 0 /\ GrowInPlace(words, n) => value[n] = value[n + 1]
          /\ CeilDiv((t[1] + t[2]) * n, BPW) + t[3] <= words[n]

-----------------------------------------------------------------------------
Neighbour(map, I, dir) ==
  LET S == {k \in DOMAIN map : dir * (k - I) > 0}
      k == IF dir = 1 THEN Min(S) ELSE Max(S)
  IN  IF S = {} THEN NotFound ELSE Found(k, map[k])
(* JudyLNext and JudyLPrev give the neighbour of an index, present or not, *)
(* whatever narrow pointers and empty digits the walk meets and however    *)
(* far it backs up (JudyPrevNext.c); JudyLFirst and JudyLLast include the  *)
(* index itself (JudyFirst.c).                                             *)
Neighbours == Readable(array) =>
  LET map == Contents
  IN  \A I \in Probes, dir \in {-1, 1} :
        /\ PrevNext(array, I, dir) = Neighbour(map, I, dir)
        /\ FirstLast(array, I, dir) = IF I \in DOMAIN map THEN Found(I, map[I]) ELSE Neighbour(map, I, dir)

(* JudyLNextEmpty and JudyLPrevEmpty give the nearest absent index: a full *)
(* subtree is passed without a visit, and the search starts again past the *)
(* expanse it has exhausted (JudyPrevNextEmpty.c).                         *)
Gap(held, I, dir) ==
  LET n == CHOOSE n \in 1 .. Cardinality(held) + 1 :
             I + dir * n \notin held /\ \A m \in 1 .. n - 1 : I + dir * m \in held
      y == I + dir * n
  IN  IF y \in 0 .. MaxIndex THEN Absent(y) ELSE NotFound
Gaps == Readable(array) =>
  LET held == DOMAIN Contents
  IN  \A I \in Probes, dir \in {-1, 1} :
        /\ Empty(array, I, dir) = Gap(held, I, dir)
        /\ FirstLastEmpty(array, I, dir) = IF I \in held THEN Gap(held, I, dir) ELSE Absent(I)

(* JudyLCount counts the indexes of a range and JudyLByCount finds the     *)
(* index at a position, from whichever end of a node they start, whatever  *)
(* *PIndex held (JudyCount.c, JudyByCount.c).                              *)
Positions == Readable(array) =>
  LET map == Contents
      S == DOMAIN map
      Rank(k) == Cardinality({x \in S : x <= k})
  IN  /\ \A I \in Probes : JudyLCount(array, 0, I) = Rank(I)
      /\ \A a \in program.keys, b \in program.keys \cup {MaxIndex} :
           a < b => JudyLCount(array, a, b) = Cardinality({x \in S : a <= x /\ x <= b})
      /\ \A k \in S : JudyLByCount(array, Rank(k), MaxIndex) = Found(k, map[k])
      /\ \A n \in {0, Cardinality(S) + 1} : ~ JudyLByCount(array, n, 0).found
=============================================================================

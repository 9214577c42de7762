------------------------------ MODULE JudyMem -------------------------------
(***************************************************************************)
(* The words of memory behind the nodes of a JudyL array: the tables of    *)
(* sizes that JudyTables.c generates, what JudyMallocIF.c allocates,       *)
(* refuses and frees, and the routines that account for a whole array.     *)
(***************************************************************************)
EXTENDS JudyTree

CONSTANTS ALLOCSIZES,  \* the sizes a leaf is allocated in, in words
          BPW          \* bytes in a word

CeilDiv(a, b) == (a + b - 1) \div b

(* GenTable: words and value offset per population of a node with up to    *)
(* size entries of ib index bytes and vb value bytes after ow words.       *)
PopToWords(ib, vb, ow, size) ==
  LET Round(bytes) == CeilDiv(bytes, BPW) + ow
      Step(n) == Min({a \in ALLOCSIZES : Round((ib + vb) * n) <= a})
  IN  [n \in 0 .. size |->
        IF n = 0 THEN 0
        ELSE IF n = size THEN Round((ib + vb) * n)
        ELSE Min({Step(n), Round((ib + vb) * size)})]
(* The values right after the indexes, in every size.                      *)
ValueOffset_Own(ib, vb, ow, size) == [n \in 1 .. size |-> CeilDiv(ib * n, BPW) + ow]
ValueOffset(ib, vb, ow, size) ==
  LET words == PopToWords(ib, vb, ow, size)
      Own(n) == CeilDiv(ib * n, BPW) + ow
      Next(f, n) == <<IF f = <<>> \/ f[1] > words[n] - n THEN Own(n) ELSE f[1]>> \o f
  IN  FoldLeft(Next, <<>>, [i \in 1 .. size |-> size + 1 - i])
(* J__U_GROWCK: one index more takes no more words. *)
GrowInPlace(table, pop1) == pop1 + 1 \in DOMAIN table /\ table[pop1] = table[pop1 + 1]

LeafTable     == [l \in 1 .. ROOTSTATE - 1 |-> PopToWords(l, BPW, 0, LEAF_MAXPOP1[l])]
LeafWTable    == PopToWords(BPW, BPW, 1, LEAFW_MAXPOP1)
LeafVTable    == PopToWords(BPW, 0, 0, BITSPERSUBEXP)
BranchJPTable == PopToWords(2 * BPW, 0, 0, BITSPERSUBEXP)

JPMWORDS == 8
JBLWORDS == CeilDiv(1 + BRANCHLMAXJPS + 2 * BPW * BRANCHLMAXJPS, BPW)
JBBWORDS == 2 * Cardinality(SubExps)
JBUWORDS == 2 * BASE
JLBWORDS == 2 * Cardinality(SubExps)

(* The memory state of a call: words is jpm_TotalMemWords, heap what       *)
(* malloc() has handed out and not got back, left the number of malloc()s  *)
(* that still succeed.  A refused one sets je_Errno.                       *)
Alloc(m, w)   == IF m.left = 0 THEN [m EXCEPT !.errno = "NOMEM"]
                 ELSE [m EXCEPT !.words = @ + w, !.heap = @ + w, !.left = @ - 1]
Free(m, w)    == [m EXCEPT !.words = @ - w, !.heap = @ - w]
Refused(m)    == m.errno = "NOMEM"

(* j__udyAlloc* and j__udyFree*, by the node: a JPM, linear, bitmap and    *)
(* uncompressed branches, the JPs of a subexpanse, linear leaves, a bitmap *)
(* leaf, a value area.  No JPM keeps the words of a root leaf.             *)
AllocJPM(m)        == Alloc(m, JPMWORDS)
AllocJBL(m)        == Alloc(m, JBLWORDS)
AllocJBU(m)        == Alloc(m, JBUWORDS)
AllocJBBJP(m, n)   == Alloc(m, BranchJPTable[n])
AllocJLL(m, l, n)  == Alloc(m, LeafTable[l][n])
AllocJV(m, n)      == Alloc(m, LeafVTable[n])
AllocJLW(m, n)     == IF m.left = 0 THEN [m EXCEPT !.errno = "NOMEM"]
                      ELSE [m EXCEPT !.heap = @ + LeafWTable[n], !.left = @ - 1]
FreeJPM(m)         == Free(m, JPMWORDS)
FreeJBL(m)         == Free(m, JBLWORDS)
FreeJBU(m)         == Free(m, JBUWORDS)
FreeJBBJP(m, n)    == Free(m, BranchJPTable[n])
FreeJLL(m, l, n)   == Free(m, LeafTable[l][n])
FreeJV(m, n)       == Free(m, LeafVTable[n])
(* The population less one where the population is meant.                  *)
FreeJLW_Pop0(m, n) == [m EXCEPT !.heap = @ - LeafWTable[n - 1]]
FreeJLW(m, n)      == [m EXCEPT !.heap = @ - LeafWTable[n]]

(* A branch or a leaf of bitmaps has an area per subexpanse that is not    *)
(* empty.  If one is refused the others are freed.                         *)
AllocAll(m, ws) ==
  LET a == FoldLeft(LAMBDA x, w : IF Refused(x) \/ w = 0 THEN x ELSE Alloc(x, w), m, ws)
  IN  IF Refused(a) THEN Free(a, a.words - m.words) ELSE a
PerSubExp(table, bitmap) == [i \in 1 .. Cardinality(SubExps) |-> table[Cardinality(bitmap[i - 1])]]
Total(ws)                == FoldLeft(LAMBDA w, x : w + x, 0, ws)
AllocJLB1(m, bitmap)     == AllocAll(m, <<JLBWORDS>> \o PerSubExp(LeafVTable, bitmap))
AllocJBB(m, bitmap)      == AllocAll(m, <<JBBWORDS>> \o PerSubExp(BranchJPTable, bitmap))
FreeJBB(m, bitmap)       == Free(m, JBBWORDS + Total(PerSubExp(BranchJPTable, bitmap)))

(* j__udyFreeSM: the words of everything below a JP.                       *)
RECURSIVE FreeSM(_)
FreeBranchSM(jp) ==
  LET Below(jps) == Total([i \in 1 .. Len(jps) |-> FreeSM(jps[i])])
  IN  CASE jp.type = "BRANCH_L" -> JBLWORDS + Below(jp.jps)
        [] jp.type = "BRANCH_B" -> JBBWORDS + Total(PerSubExp(BranchJPTable, jp.bitmap)) + Below(Gather(jp.jps))
        [] jp.type = "BRANCH_U" -> JBUWORDS + Below([i \in 1 .. BASE |-> jp.jps[i - 1]])
FreeSM(jp) ==
  CASE IsBranch(jp) -> FreeBranchSM(jp)
    [] jp.type = "NULL" -> 0
    [] jp.type = "IMMED" -> IF Len(jp.keys) = 1 THEN 0 ELSE LeafVTable[Len(jp.keys)]
    [] jp.type = "LEAF" -> LeafTable[jp.level][jp.pop0 + 1]
    [] jp.type = "LEAF_B1" -> JLBWORDS + Total(PerSubExp(LeafVTable, jp.bitmap))

(* JudyLFreeArray: the words freed, or CORRUPT when they are not the words *)
(* the JPM has counted.                                                    *)
JudyLFreeArray(P, heap) ==
  IF P = NoArray THEN [rc |-> "FREED", array |-> P, heap |-> heap]
  ELSE IF ReadAsLeafW(P)
  THEN [rc |-> "FREED", array |-> NoArray, heap |-> heap - LeafWTable[Len(P.keys)]]
  ELSE LET w == FreeSM(P.jp) + JPMWORDS
       IN  IF w = P.words THEN [rc |-> "FREED", array |-> NoArray, heap |-> heap - w]
           ELSE [rc |-> "CORRUPT", array |-> P, heap |-> heap - w]

(* j__udyGetMemActive and JudyLMemActive: the bytes in use behind a JP,    *)
(* without what the sizes of malloc() round up, and in a whole array.      *)
RECURSIVE GetMemActive(_)
GetBranchMemActive(jp) ==
  LET Below(jps) == Total([i \in 1 .. Len(jps) |-> GetMemActive(jps[i])])
  IN  CASE jp.type = "BRANCH_L" -> Below(jp.jps) + BPW * JBLWORDS
        [] jp.type = "BRANCH_B" -> Below(Gather(jp.jps)) + 2 * BPW * Len(Gather(jp.jps)) + BPW * JBBWORDS
        [] jp.type = "BRANCH_U" -> Below([i \in 1 .. BASE |-> jp.jps[i - 1]]) + BPW * JBUWORDS
GetMemActive(jp) ==
  CASE IsBranch(jp) -> GetBranchMemActive(jp)
    [] jp.type = "NULL" -> 0
    [] jp.type = "IMMED" -> IF Len(jp.keys) = 1 THEN 0 ELSE BPW * Len(jp.keys)
    [] jp.type = "LEAF" -> (jp.level + BPW) * (jp.pop0 + 1)
    [] jp.type = "LEAF_B1" -> BPW * (jp.pop0 + 1 + JLBWORDS)
JudyLMemActive(P) ==
  IF P = NoArray THEN 0
  ELSE IF ReadAsLeafW(P) THEN BPW * (2 * (LEAFW_POP0(P) + 1) + 1)
  ELSE GetMemActive(P.jp) + BPW * JPMWORDS

(* JudyLMemUsed, in words. *)
JudyLMemUsed(P) ==
  IF P = NoArray THEN 0 ELSE IF ReadAsLeafW(P) THEN LeafWTable[Len(P.keys)] ELSE P.words
=============================================================================

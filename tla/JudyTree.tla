------------------------------ MODULE JudyTree ------------------------------
(***************************************************************************)
(* The tree of a JudyL array: what a JP (Judy pointer) and the nodes below *)
(* it hold, how an Index is decoded digit by digit, and JudyLGet.  A JP at *)
(* level n has n digits of the Index left to decode; dcd holds the digits  *)
(* above them that a narrow pointer skipped.  Nodes are values, not        *)
(* addresses: no node of a Judy array is reached by two pointers.          *)
(***************************************************************************)
EXTENDS Integers, Sequences, SequencesExt

CONSTANTS
  ROOTSTATE,      \* digits of an Index (4 on a 32-bit machine, 8 on 64)
  BASE,           \* values of a digit (256)
  BITSPERSUBEXP,  \* digits of one subexpanse of a bitmap (32)
  LEAFW_MAXPOP1,  \* indexes in a root leaf
  LEAF_MAXPOP1,   \* ... in a linear leaf, per level
  IMMED_MAXPOP1,  \* ... in an immediate JP, per level
  BRANCHLMAXJPS   \* JPs in a linear branch

(* What the conversions between the node types rely on: a narrow leaf      *)
(* never fits the leaf of the next level, nor an immediate JP.             *)
ASSUME JudyConstants ==
  /\ ROOTSTATE >= 3 /\ BASE % BITSPERSUBEXP = 0
  /\ \A l \in 1 .. ROOTSTATE - 1 : 1 <= IMMED_MAXPOP1[l] /\ IMMED_MAXPOP1[l] < LEAF_MAXPOP1[l]
  /\ \A l \in 2 .. ROOTSTATE - 2 : LEAF_MAXPOP1[l + 1] <= LEAF_MAXPOP1[l]
  /\ LEAF_MAXPOP1[1] < LEAF_MAXPOP1[2] /\ LEAFW_MAXPOP1 <= LEAF_MAXPOP1[ROOTSTATE - 1]

NULL    == -1                              \* a null pointer where a value is expected
Digits  == [i \in 1 .. BASE |-> i - 1]
SubExps == 0 .. BASE \div BITSPERSUBEXP - 1

DIGITATSTATE(I, s)   == (I \div BASE^(s - 1)) % BASE
DIGITTOSTATE(d, s)   == d * BASE^(s - 1)
LEASTBYTES(I, n)     == I % BASE^n
TRIMTODCDSIZE(I)     == I % BASE^(ROOTSTATE - 1)
(* cJU_DCDMASK: the digits of I between level n and the top one.           *)
DCD(I, n)            == TRIMTODCDSIZE(I) - LEASTBYTES(TRIMTODCDSIZE(I), n)
DCDNOTMATCHINDEX(I, jp) == DCD(I, jp.level) # jp.dcd
SubExp(d)            == d \div BITSPERSUBEXP

(* CountBits(bitmap & (bitmask - 1)): the offset of digit d in its node.   *)
Offset(bitmap, d) == Cardinality({b \in bitmap : b < d})
(* SearchLeaf: the offset of I, or where it belongs; keys are sorted.      *)
SearchLeaf(keys, I) == Cardinality({i \in 1 .. Len(keys) : keys[i] < I})
Exists(keys, I)     == \E i \in 1 .. Len(keys) : keys[i] = I

(* The JPs.  The type and the level stand for cJL_JPNULL1 to IMMED_3_01.   *)
Null(l)            == [type |-> "NULL", level |-> l]
Immed01(l, I, v)   == [type |-> "IMMED", level |-> l, keys |-> <<TRIMTODCDSIZE(I)>>, vals |-> <<v>>]
Immed(l, ks, vs)   == [type |-> "IMMED", level |-> l, keys |-> ks, vals |-> vs]
Leaf(l, d, p, ks, vs) ==
  [type |-> "LEAF", level |-> l, dcd |-> d, pop0 |-> p, keys |-> ks, vals |-> vs]
LeafB1(d, p, bm, vs)  ==
  [type |-> "LEAF_B1", level |-> 1, dcd |-> d, pop0 |-> p, bitmap |-> bm, vals |-> vs]
BranchL(l, d, p, ex, jps) ==
  [type |-> "BRANCH_L", level |-> l, dcd |-> d, pop0 |-> p, expanse |-> ex, jps |-> jps]
BranchB(l, d, p, bm, jps) ==
  [type |-> "BRANCH_B", level |-> l, dcd |-> d, pop0 |-> p, bitmap |-> bm, jps |-> jps]
BranchU(l, d, p, jps)     ==
  [type |-> "BRANCH_U", level |-> l, dcd |-> d, pop0 |-> p, jps |-> jps]

IsImmed(jp)  == jp.type = "IMMED"
IsBranch(jp) == jp.type \in {"BRANCH_L", "BRANCH_B", "BRANCH_U"}

(* Splitting a sorted sequence of digits over the subexpanses of a bitmap, *)
(* with the JPs or the values that go with them.                           *)
Bitmap(ds)        == [s \in SubExps |-> {d \in ToSet(ds) : SubExp(d) = s}]
Before(bitmap, s) == LET N[t \in 0 .. s] == IF t = 0 THEN 0 ELSE N[t - 1] + Cardinality(bitmap[t - 1])
                     IN  N[s]
Spread(bitmap, xs) ==
  [s \in SubExps |-> SubSeq(xs, Before(bitmap, s) + 1, Before(bitmap, s) + Cardinality(bitmap[s]))]
Gather(xs)        == LET G[s \in {-1} \cup SubExps] == IF s = -1 THEN <<>> ELSE G[s - 1] \o xs[s]
                     IN  G[BASE \div BITSPERSUBEXP - 1]
BitmapDigits(bitmap) == SelectSeq(Digits, LAMBDA d : d \in bitmap[SubExp(d)])

(* The digits that have a JP in a branch, in order, and the JP of a digit. *)
Expanses(jp) == CASE jp.type = "BRANCH_L" -> jp.expanse
                  [] jp.type = "BRANCH_B" -> BitmapDigits(jp.bitmap)
                  [] jp.type = "BRANCH_U" -> SelectSeq(Digits, LAMBDA d : jp.jps[d].type # "NULL")
HasJP(jp, d) == CASE jp.type = "BRANCH_L" -> Exists(jp.expanse, d)
                  [] jp.type = "BRANCH_B" -> d \in jp.bitmap[SubExp(d)]
                  [] jp.type = "BRANCH_U" -> TRUE
ChildJP(jp, d) ==
  CASE jp.type = "BRANCH_L" -> jp.jps[SearchLeaf(jp.expanse, d) + 1]
    [] jp.type = "BRANCH_B" -> jp.jps[SubExp(d)][Offset(jp.bitmap[SubExp(d)], d) + 1]
    [] jp.type = "BRANCH_U" -> jp.jps[d]
SetChildJP(jp, d, c) ==
  CASE jp.type = "BRANCH_L" -> [jp EXCEPT !.jps[SearchLeaf(jp.expanse, d) + 1] = c]
    [] jp.type = "BRANCH_B" -> [jp EXCEPT !.jps[SubExp(d)][Offset(jp.bitmap[SubExp(d)], d) + 1] = c]
    [] jp.type = "BRANCH_U" -> [jp EXCEPT !.jps[d] = c]

(* JU_INSERTINPLACE and JU_DELETEINPLACE shift the entries of a leaf or of *)
(* a value area; JU_INSERTCOPY and JU_DELETECOPY do it into another node.  *)
INSERTINPLACE(xs, offset, x) == InsertAt(xs, offset + 1, x)
DELETEINPLACE(xs, offset)    == RemoveAt(xs, offset + 1)
INSERTCOPY(xs, offset, x)    == InsertAt(xs, offset + 1, x)
DELETECOPY(xs, offset)       == RemoveAt(xs, offset + 1)

-----------------------------------------------------------------------------
(* The root pointer: null, a root leaf, or a JPM.  Both kinds of node      *)
(* start with the population less one, and that word alone says which it   *)
(* is (JU_LEAFW_POP0 is less than cJU_LEAFW_MAXPOP1).                       *)
NoArray           == [kind |-> "NULL"]
LeafW(ks, vs)     == [kind |-> "LEAFW", keys |-> ks, vals |-> vs]
JPM(jp, p, u, w)  == [kind |-> "JPM", jp |-> jp, pop0 |-> p, lastu |-> u, words |-> w]
LEAFW_POP0(P)     == IF P.kind = "LEAFW" THEN Len(P.keys) - 1 ELSE P.pop0
ReadAsLeafW(P)    == LEAFW_POP0(P) < LEAFW_MAXPOP1
(* A JPM with so few indexes would be read as a root leaf.                 *)
Readable(P)       == P.kind = IF P = NoArray THEN "NULL" ELSE IF ReadAsLeafW(P) THEN "LEAFW" ELSE "JPM"

(* JudyLGet walks down; a leaf or an immediate JP ends the walk.           *)
ValueAt(jp, x) == IF Exists(jp.keys, x) THEN jp.vals[SearchLeaf(jp.keys, x) + 1] ELSE NULL
GetImmed(jp, I) == ValueAt(jp, IF Len(jp.keys) = 1 THEN TRIMTODCDSIZE(I) ELSE LEASTBYTES(I, jp.level))
GetLeaf(jp, I)  == ValueAt(jp, LEASTBYTES(I, jp.level))
GetLeafB1(jp, I) ==
  LET d  == DIGITATSTATE(I, 1)
      bm == jp.bitmap[SubExp(d)]
  IN  IF d \in bm THEN jp.vals[SubExp(d)][Offset(bm, d) + 1] ELSE NULL

RECURSIVE GetWalk(_, _)
GetBranch(jp, I) ==
  LET d == DIGITATSTATE(I, jp.level)
  IN  IF HasJP(jp, d) THEN GetWalk(ChildJP(jp, d), I) ELSE NULL
(* A narrow pointer taken for one that skips nothing.                      *)
GetWalk_NoDcd(jp, I) ==
  CASE jp.type = "NULL" -> NULL
    [] IsImmed(jp) -> GetImmed(jp, I)
    [] jp.type = "LEAF" -> GetLeaf(jp, I)
    [] jp.type = "LEAF_B1" -> GetLeafB1(jp, I)
    [] IsBranch(jp) -> GetBranch(jp, I)
GetWalk(jp, I) ==
  CASE jp.type = "NULL" -> NULL
    [] IsImmed(jp) -> GetImmed(jp, I)
    [] OTHER -> IF DCDNOTMATCHINDEX(I, jp) THEN NULL
                ELSE CASE jp.type = "LEAF" -> GetLeaf(jp, I)
                       [] jp.type = "LEAF_B1" -> GetLeafB1(jp, I)
                       [] IsBranch(jp) -> GetBranch(jp, I)

GetLeafW(P, I) == IF Exists(P.keys, I) THEN P.vals[SearchLeaf(P.keys, I) + 1] ELSE NULL
JudyLGet(P, I) ==
  IF P = NoArray THEN NULL ELSE IF ReadAsLeafW(P) THEN GetLeafW(P, I) ELSE GetWalk(P.jp, I)
=============================================================================

----------------------------- MODULE JudyStrings -----------------------------
(***************************************************************************)
(* An array of strings of either kind and the calls a program makes on it. *)
(* A call may find memory short, as in Judy.                               *)
(***************************************************************************)
EXTENDS JudyNodes

CONSTANTS HASHES, SLStrings, HSStrings,  \* the strings that go into an array of each kind
          Shortages,                     \* malloc()s left to a call that finds memory short
          Plenty, MaxShortages

VARIABLES kind,   \* "SL" or "HS"
          root, heap, rc,
          short   \* calls that found memory short: bounded by MaxShortages
vars == <<kind, root, heap, rc, short>>

SL == INSTANCE JudySL
HS == INSTANCE JudyHS

Strings == IF kind = "SL" THEN SLStrings ELSE HSStrings
Init == kind \in {"SL", "HS"} /\ root = Nil /\ heap = 0 /\ rc = 0 /\ short = 0

Lefts == {Plenty} \cup IF short < MaxShortages THEN Shortages ELSE {}
Call(left) == [heap |-> heap, left |-> left, refused |-> FALSE]
Reply(r) == /\ root' = r.node /\ heap' = r.m.heap /\ rc' = r.rc
            /\ short' = IF r.m.refused THEN short + 1 ELSE short
            /\ UNCHANGED kind

(* The caller stores its value in the slot that an insertion returns: one  *)
(* for each string, which shows a value that strays.                       *)
ValueOf(s)  == [of |-> s]
SLInsert(s) == kind = "SL" /\ \E left \in Lefts : Reply(SL!JudySLIns(root, s, ValueOf(s), Call(left)))
SLDelete(s) == kind = "SL" /\ \E left \in Lefts : Reply(SL!JudySLDel(root, s, Call(left)))
SLFree == /\ kind = "SL" /\ root # Nil
          /\ Reply(Result(1, Nil, JudyFree(Call(Plenty), SL!JudySLFreeArray(root))))
HSInsert(s) == kind = "HS" /\ \E left \in Lefts : Reply(HS!JudyHSIns(root, s, ValueOf(s), Call(left)))
HSDelete(s) == kind = "HS" /\ \E left \in Lefts : Reply(HS!JudyHSDel(root, s, Call(left)))
HSFree == /\ kind = "HS" /\ root # Nil
          /\ Reply(Result(1, Nil, JudyFree(Call(Plenty), HS!JudyHSFreeArray(root))))

Next == \/ \E s \in SLStrings : SLInsert(s) \/ SLDelete(s)
        \/ \E s \in HSStrings : HSInsert(s) \/ HSDelete(s)
        \/ SLFree \/ HSFree
Spec == Init /\ [][Next]_vars

-----------------------------------------------------------------------------
(* The strings below a node with their values; p has the characters above  *)
(* it, and n those still to come in an array of kind HS.                   *)
RECURSIVE SLPairs(_, _)
SLPairs(node, p) ==
  IF node.kind = "LEAF" THEN {<<p \o node.str, node.val>>}
  ELSE UNION {LET q == p \o SL!COPYWORDtoSTRING(w)
              IN  IF SL!LASTWORD_BY_VALUE(w) THEN {<<q, node.at[w].val>>} ELSE SLPairs(node.at[w], q)
              : w \in WordsOf(node)}
Chars(w, n) == SubSeq([i \in 1 .. WORDSIZE |-> (w \div CHARS^(WORDSIZE - i)) % CHARS], 1, n)
RECURSIVE HSPairs(_, _, _)
HSPairs(node, p, n) ==
  IF node.kind = "LEAF" THEN {<<p \o node.str, node.val>>}
  ELSE UNION {IF n <= WORDSIZE THEN {<<p \o Chars(w, n), node.at[w].val>>}
              ELSE HSPairs(node.at[w], p \o Chars(w, WORDSIZE), n - WORDSIZE) : w \in WordsOf(node)}
PairsOf(r) == IF kind = "SL" THEN SLPairs(r, <<>>)
              ELSE UNION {IF n <= WORDSIZE THEN HSPairs(r.at[n], <<>>, n)
                          ELSE UNION {HSPairs(r.at[n].at[h], <<>>, n) : h \in WordsOf(r.at[n])}
                          : n \in WordsOf(r)}
Pairs == PairsOf(root)

(* Both kinds are maps: a call that answers 1 adds or takes away one       *)
(* string with its value, one that answers 0 changes nothing, and memory   *)
(* refused in the middle costs one string at most (JudySL.c, JudyHS.c).    *)
Mapped == INSTANCE JudyMap WITH Indexes <- SLStrings \cup HSStrings, Batches <- {},
                                map <- Pairs
StringMap == Mapped!Spec

(* A string is found with its own value if and only if the array holds it, *)
(* also past the dead ends that refused memory has left (JudySL.c:357-361) *)
(* and among strings of the same hash.                                     *)
GetFindsHeld ==
  LET held == Pairs
  IN  \A s \in Strings : LET v == IF kind = "SL" THEN SL!JudySLGet(root, s) ELSE HS!JudyHSGet(root, s)
                         IN  v = IF \E x \in held : x[1] = s THEN ValueOf(s) ELSE NULL

(* With memory enough, the string is the one the call was given, whatever  *)
(* words and hashes it shares with others, and each of those keeps its     *)
(* value when its leaf is carried down or split (JudySL.c:427-507,         *)
(* JudyHS.c:365-431).                                                      *)
ItsOwnString ==
  LET held == Pairs
      Ins(s) == IF kind = "SL" THEN SL!JudySLIns(root, s, ValueOf(s), Call(Plenty))
                ELSE HS!JudyHSIns(root, s, ValueOf(s), Call(Plenty))
      Del(s) == IF kind = "SL" THEN SL!JudySLDel(root, s, Call(Plenty)) ELSE HS!JudyHSDel(root, s, Call(Plenty))
  IN  \A s \in Strings : /\ PairsOf(Ins(s).node) = held \cup {<<s, ValueOf(s)>>}
                         /\ PairsOf(Del(s).node) = held \ {<<s, ValueOf(s)>>}

(* JudySLNext and JudySLPrev give the neighbour of a string in the order   *)
(* of strcmp(), held or not, through however many arrays the search has to *)
(* go down and back up (JudySL.c:732-985).                                 *)
Neighbour(held, s, dir) ==
  LET S == {x \in held : IF dir = 1 THEN SL!Less(s, x[1]) ELSE SL!Less(x[1], s)}
      Nearest == CHOOSE x \in S : \A y \in S : x = y \/ IF dir = 1 THEN SL!Less(x[1], y[1]) ELSE SL!Less(y[1], x[1])
  IN  IF S = {} THEN NULL ELSE SL!Found(Nearest[1], Nearest[2])
NeighboursFound ==
  LET held == Pairs
  IN  \A s \in SLStrings : /\ SL!JudySLNext(root, s) = Neighbour(held, s, 1)
                           /\ SL!JudySLPrev(root, s) = Neighbour(held, s, -1)
                           /\ <<s, ValueOf(s)>> \in held => SL!JudySLFirst(root, s) = SL!JudySLLast(root, s)
StringNeighbours == kind = "SL" /\ short = 0 => NeighboursFound

(* As long as memory was never refused, what malloc() has handed out for   *)
(* leaves is what JudySLFreeArray and JudyHSFreeArray find and give back:  *)
(* a leaf that is carried down or split is freed with the size it was got  *)
(* (JudySL.c:443-504, JudyHS.c:373-419).                                   *)
LeavesCounted == short = 0 =>
  heap = IF kind = "SL" THEN SL!JudySLFreeArray(root) ELSE HS!JudyHSFreeArray(root)

(* ... and every slot of every array leads to a string: a deletion takes   *)
(* what it empties with it (JudySL.c:686-705, JudyHS.c:609-635).           *)
RECURSIVE NoneEmpty(_)
NoneEmpty(node) == node.kind = "ARRAY" => \A w \in DOMAIN node.at : node.at[w] # Nil /\ NoneEmpty(node.at[w])
NoEmptySlot == short = 0 => NoneEmpty(root)

(* "the get, delete, and search functions understand dead-ends and handle  *)
(* them appropriately" (JudySL.c:360-361): the searches pass a dead end as *)
(* if it were not there.                                                   *)
DeadEndsPassed == kind = "SL" => NeighboursFound
=============================================================================

-------------------------------- MODULE Judy --------------------------------
(***************************************************************************)
(* A JudyL array and the calls a program makes on it.  XPSPL's databases   *)
(* are such arrays.  A call may find memory short: the first left of its   *)
(* malloc()s succeed and the others are refused.                           *)
(***************************************************************************)
EXTENDS JudySearch, JudyInsArray

CONSTANTS Programs,     \* what a program may do: see program
          Plenty,       \* malloc()s that no call exceeds
          MaxShortages  \* bound on the calls that find memory short

VARIABLES array,   \* the root pointer
          heap,    \* words asked of malloc() less the words named to free()
          rc,      \* what the last call returned
          short,   \* calls that found memory short
          drift,   \* whether a root leaf was loaded into a node of another size
          program  \* its keys, the sequences it loads, the malloc()s left when memory is short
vars == <<array, heap, rc, short, drift, program>>

Init == /\ array = NoArray /\ heap = 0 /\ rc = 0 /\ short = 0 /\ drift = FALSE
        /\ program \in Programs

(* The value stored with an index; distinct ones show a value that strays. *)
ValueOf(I) == I

Reply(r, left) == /\ array' = r.array /\ heap' = r.heap /\ rc' = r.rc
                  /\ short' = IF r.rc = -1 /\ left # Plenty THEN short + 1 ELSE short
                  /\ UNCHANGED program
Lefts == {Plenty} \cup IF short < MaxShortages THEN program.shortages ELSE {}

Insert(I) == /\ Readable(array)
             /\ \E left \in Lefts : Reply(JudyLIns(array, I, ValueOf(I), heap, left), left)
             /\ UNCHANGED drift
Delete(I) == /\ Readable(array)
             /\ \E left \in Lefts : Reply(JudyLDel(array, I, heap, left), left)
             /\ UNCHANGED drift
(* Bound: a program loads one sequence that fits a root leaf, whose node   *)
(* is got with one size and given back with another.                       *)
Load(b)   == /\ array = NoArray /\ (drift => Len(b) > LEAFW_MAXPOP1)
             /\ \E left \in Lefts, past \in PastTable :
                  Reply(JudyLInsArray(b, [i \in 1 .. Len(b) |-> ValueOf(b[i])], heap, left, past), left)
             /\ drift' = (drift \/ Len(b) <= LEAFW_MAXPOP1)
FreeArray == LET f == JudyLFreeArray(array, heap)
             IN  /\ Readable(array) /\ array # NoArray
                 /\ Reply([array |-> f.array, heap |-> f.heap, rc |-> IF f.rc = "FREED" THEN 1 ELSE -1], Plenty)
                 /\ UNCHANGED drift

Next == \/ \E I \in program.keys : Insert(I) \/ Delete(I)
        \/ \E b \in program.batches : Load(b)
        \/ FreeArray
Spec == Init /\ [][Next]_vars
=============================================================================

------------------------------- MODULE JudyMap -------------------------------
(***************************************************************************)
(* What a JudyL array promises its program: indexes with their values.     *)
(* map is the set of the pairs.  A call answers 1 when it changed them, 0  *)
(* when it found nothing to change, and -1 when memory was refused.        *)
(***************************************************************************)
EXTENDS Integers, Sequences, Functions

CONSTANTS Indexes,      \* the indexes that are inserted and deleted one by one
          Batches,      \* the sequences of indexes that are loaded at once
          ValueOf(_)    \* the value of an index

VARIABLES map, rc

Map(S) == {<<I, ValueOf(I)>> : I \in S}
Init   == map = {} /\ rc = 0

(* An index that is there is inserted, or one that is not is deleted.      *)
Nothing == rc' = 0 /\ map' = map
Adds    == \E x \in Map(Indexes) \cap (map' \ map) : map' = map \cup {x}
Removes == \E x \in Map(Indexes) \cap (map \ map') : map' = map \ {x}
Insert  == rc' = 1 /\ Adds
Delete  == rc' = 1 /\ Removes
Load    == rc' = 1 /\ map = {} /\ map' \in {Map(Range(b)) : b \in Batches}
Clear   == rc' = 1 /\ map' = {}

(* Memory refused: nothing has changed, or an index is gone (a deletion    *)
(* was made all the same; an array of strings lost the one it was moving), *)
(* or a load keeps the indexes before some place.                          *)
Refused       == rc' = -1 /\ map' = map
OneGone       == rc' = -1 /\ Removes
LoadRefused   == /\ rc' = -1 /\ map = {}
                 /\ map' \in UNION {{Map({b[i] : i \in 1 .. n}) : n \in 1 .. Len(b) - 1} : b \in Batches}

Next == Nothing \/ Insert \/ Delete \/ Load \/ Clear \/ Refused \/ OneGone \/ LoadRefused
Spec == Init /\ [][Next]_<<map, rc>>
=============================================================================

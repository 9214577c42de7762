---------------------------- MODULE MCJudyStrings ----------------------------
EXTENDS JudyStrings
(* Words that part in the first, the second and the third word, ends in    *)
(* the middle and at the end of a word.                                    *)
MCSLStrings == {<<1>>, <<1, 1>>, <<1, 1, 1>>, <<1, 1, 1, 1, 2>>, <<1, 1, 1, 1, 3, 1>>, <<1, 1, 2, 1, 1>>}
(* Long strings of one hash that part in each word, one of another hash,   *)
(* short ones.                                                             *)
MCHSStrings == {<<1, 1, 1, 1, 1>>, <<1, 1, 1, 1, 3>>, <<1, 1, 1, 2, 2>>, <<2, 1, 1, 1, 2>>, <<1, 1, 1, 1, 2>>, <<1, 0>>, <<>>}
=============================================================================

---------------------------- MODULE MCProcessor ----------------------------
(***************************************************************************)
(* Small instances of Processor for TLC.                                   *)
(***************************************************************************)
EXTENDS ProcessorProps, TLC

CONSTANTS s1, s2, p1, p2, p3

\* Two signals of their own, or two objects of one signal.
IndexOwn    == s1 :> 1 @@ s2 :> 2
IndexShared == s1 :> 1 @@ s2 :> 1

OneSignal == s1 :> 1

Symmetry == Permutations(Procs)
=============================================================================

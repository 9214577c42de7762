----------------------------- MODULE MCNetwork -----------------------------
(***************************************************************************)
(* A small instance of Network for TLC.                                    *)
(***************************************************************************)
EXTENDS Network

CONSTANTS c1, c2
=============================================================================

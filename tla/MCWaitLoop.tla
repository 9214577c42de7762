----------------------------- MODULE MCWaitLoop -----------------------------
(***************************************************************************)
(* Small instances of WaitLoop for TLC.                                    *)
(***************************************************************************)
EXTENDS WaitLoop, TLC

CONSTANTS a1, a2, a3, c1

\* Every second, every other second, every third one; a cron every other one.
MCLength == [t \in Timers |-> CASE t = a1 -> 1 [] t = a3 -> 3 [] OTHER -> 2]
=============================================================================

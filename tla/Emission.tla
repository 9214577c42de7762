------------------------------ MODULE Emission ------------------------------
(***************************************************************************)
(* What emit() promises (api/emit.php): the interruptions before, then the *)
(* installed processes, then the interruptions after, each process once    *)
(* and one at a time, until the end or until a process halts the signal.   *)
(***************************************************************************)
EXTENDS Sequences

CONSTANTS Procs, Nobody

VARIABLES todo,    \* processes the emission has still to run, in order
          running  \* the process that is running, or Nobody

Init == todo = <<>> /\ running = Nobody

\* A signal is emitted: what is installed then is what will run.
Begin ==
  /\ todo = <<>> /\ running = Nobody
  /\ todo' \in Seq(Procs)
  /\ \A i, j \in DOMAIN todo' : todo'[i] = todo'[j] => i = j
  /\ running' = Nobody

Run ==
  /\ running = Nobody /\ todo # <<>>
  /\ running' = Head(todo)
  /\ todo' = Tail(todo)

\* The process returns, and may have halted the signal.
Return ==
  /\ running # Nobody
  /\ running' = Nobody
  /\ todo' \in {todo, <<>>}

\* The process halts the signal itself, and goes on.
Halt ==
  /\ running # Nobody
  /\ todo' = <<>>
  /\ UNCHANGED running

Next == Begin \/ Run \/ Return \/ Halt

Spec == Init /\ [][Next]_<<todo, running>>
=============================================================================

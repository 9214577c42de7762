------------------------------ MODULE Registry ------------------------------
(***************************************************************************)
(* What the processor promises about the processes installed on signals,   *)
(* without the databases, their keys and their pointers: each signal has a *)
(* set of processes, a registered process loses executions one by one, as  *)
(* it runs, and it leaves the registry when it has none left, when         *)
(* somebody deletes it, or with its signal.                                *)
(***************************************************************************)
EXTENDS Integers

CONSTANTS Procs, Idx, Places, Never

VARIABLES registered,  \* processes of each index, per place
          left         \* executions each process has left, or Never exhausts

Everywhere == UNION {registered[w][i] : w \in Places, i \in Idx}

Init ==
  /\ registered = [w \in Places |-> [i \in Idx |-> {}]]
  /\ left = [p \in Procs |-> Never]

\* Nothing is promised of a process that is not registered: it is constructed,
\* with some count, or still runs in a loop over a database that was taken off.
Construct(p) ==
  /\ p \notin Everywhere
  /\ \A q \in Procs \ {p} : left'[q] = left[q]

Add(w, i, p) ==
  /\ Construct(p)
  /\ registered' = [registered EXCEPT ![w][i] = @ \cup {p}]

\* Constructing it is all that happens when PHP fails to install it.
Fail(p) == Construct(p) /\ UNCHANGED registered

Run(p) ==
  /\ p \in Everywhere
  /\ left[p] # Never /\ left[p] > 0
  /\ left' = [left EXCEPT ![p] = @ - 1]
  /\ UNCHANGED registered

\* delete_process() reaches the installed processes only; from the others a
\* process goes when it is exhausted.
Remove(w, i, p) ==
  /\ p \in registered[w][i]
  /\ w = "index" \/ left[p] = 0
  /\ registered' = [registered EXCEPT ![w][i] = @ \ {p}]
  /\ UNCHANGED left

Clear(i) ==
  /\ registered' = [registered EXCEPT !["index"][i] = {}]
  /\ UNCHANGED left

ClearAll ==
  /\ registered' = [w \in Places |-> [i \in Idx |-> {}]]
  /\ UNCHANGED left

Next ==
  \/ \E w \in Places, i \in Idx, p \in Procs : Add(w, i, p) \/ Remove(w, i, p)
  \/ \E p \in Procs : Run(p) \/ Fail(p)
  \/ \E i \in Idx : Clear(i)
  \/ ClearAll

Spec == Init /\ [][Next]_<<registered, left>>
=============================================================================

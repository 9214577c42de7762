------------------------------- MODULE Timers -------------------------------
(***************************************************************************)
(* What the time module promises of an awake (time/sig_awake.php): once    *)
(* its time has passed it is due and a new time starts; then its process   *)
(* runs, if it has one, once.  It never runs early, none that is due is    *)
(* forgotten unless the loop fails, and only one process runs at a time.   *)
(***************************************************************************)
EXTENDS Naturals

CONSTANTS Awakes, Length, Nobody

VARIABLES time,     \* seconds left of the time of each awake
          due,      \* awakes that passed, and whose process has not run since
          live,     \* awakes that have a process
          running,  \* the awake whose process is running, or Nobody
          failed    \* an exception has ended the loop
vars == <<time, due, live, running, failed>>

Init ==
  /\ time = [t \in Awakes |-> 0]
  /\ due = {} /\ live = {} /\ running = Nobody /\ failed = FALSE

\* A new awake.
Start(t) ==
  /\ t \notin due /\ running # t
  /\ time' = [time EXCEPT ![t] = Length[t]]
  /\ live' = live \cup {t}
  /\ UNCHANGED <<due, running, failed>>

Tick ==
  /\ time' = [t \in Awakes |-> IF time[t] = 0 THEN 0 ELSE time[t] - 1]
  /\ UNCHANGED <<due, live, running, failed>>

Pass(t) ==
  /\ time[t] = 0 /\ t \notin due
  /\ time' = [time EXCEPT ![t] = Length[t]]
  /\ due' = due \cup {t}
  /\ UNCHANGED <<live, running, failed>>

\* The process runs, perhaps for the last time.
Fire(t) ==
  /\ running = Nobody /\ t \in due \cap live
  /\ running' = t
  /\ due' = due \ {t}
  /\ live' \in {live, live \ {t}}
  /\ UNCHANGED <<time, failed>>

\* There is no process to run.
Drop(t) ==
  /\ t \in due \ live
  /\ due' = due \ {t}
  /\ UNCHANGED <<time, live, running, failed>>

Return ==
  /\ running # Nobody /\ running' = Nobody
  /\ UNCHANGED <<time, due, live, failed>>

\* Processes are installed on an awake and deleted.
Install(t) ==
  /\ live' = live \cup {t}
  /\ UNCHANGED <<time, due, running, failed>>

Delete ==
  /\ live' \subseteq live
  /\ UNCHANGED <<time, due, running, failed>>

\* An exception leaves the loop, with all that is due.
Fail ==
  /\ ~failed /\ failed' = TRUE
  /\ due' = {}
  /\ UNCHANGED <<time, live, running>>

Catch ==
  /\ failed /\ failed' = FALSE
  /\ UNCHANGED <<time, due, live, running>>

Next ==
  \/ Tick \/ Return \/ Delete \/ Fail \/ Catch
  \/ \E t \in Awakes : Start(t) \/ Pass(t) \/ Fire(t) \/ Drop(t) \/ Install(t)
=============================================================================

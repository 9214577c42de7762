------------------------------ MODULE WaitLoop ------------------------------
(***************************************************************************)
(* Processor::wait_loop() and the routines that drive it: awake signals,   *)
(* sockets and cron signals.  Each turn of the loop runs the routine of    *)
(* every registered routine signal, emits the signals they queued in the   *)
(* Routine object, and lets one of the idle objects they queued put the    *)
(* program to sleep.                                                       *)
(*                                                                         *)
(* A signal has one process here, and its body is user code that calls     *)
(* this API, shuts the processor down or takes its time; the module        *)
(* Processor has emission in full.  Time is what is left on each timer, in *)
(* ticks of a second: the clock moves in any state.                        *)
(***************************************************************************)
EXTENDS Integers, SequencesExt

CONSTANTS Awakes,      \* time\SIG_Awake objects
          Sockets,     \* network\Socket objects
          Crons,       \* time\SIG_CRON objects
          SIG_Startup, SIG_Shutdown,
          Length,      \* ticks an awake or a cron signal waits for
          Milli,       \* the awakes timed in milliseconds
          Poll,        \* ticks a socket waits for when nothing else is due
          Rates,       \* exhaust rates processes are installed with
          Calls,       \* functions of the API the main program calls
          BodyCalls,   \* functions of the API the processes call
          MaxCalls,    \* bound: API calls in a behaviour
          MaxLoops,    \* bound: calls of wait_loop in a behaviour
          Never,       \* the exhaust rate null
          Nobody       \* no signal

Timers   == Awakes \cup Crons
Routines == Timers \cup Sockets
Signals  == Routines \cup {SIG_Startup, SIG_Shutdown}

ASSUME KindsType    == /\ Awakes \cap Sockets = {} /\ Awakes \cap Crons = {}
                       /\ Sockets \cap Crons = {} /\ Nobody \notin Signals
                       /\ {SIG_Startup, SIG_Shutdown} \cap Routines = {}
ASSUME LengthType   == Length \in [Timers -> Nat] /\ Milli \subseteq Awakes
ASSUME PollType     == Poll \in Nat
ASSUME RatesType    == Rates \subseteq (Nat \ {0}) \cup {Never} /\ Never \notin Nat
ASSUME BoundsType   == MaxCalls \in Nat /\ MaxLoops \in Nat

VARIABLES halted,      \* the processor is in STATE_HALTED
          registered,  \* Processor::$_sig_routine, in order of registration
          left,        \* executions left to the process of each signal
          remaining,   \* ticks until the stop time of each timer
          connected,   \* sockets that have their connection
          routine,     \* Processor::$_routine, [signals, idle]
          pc,          \* where wait_loop is; "main" when it does not run
          todo,        \* what the foreach in progress has still to visit
          idler,       \* routine signal that idles the processor
          deadline,    \* ticks until its idle returns
          running,     \* signal whose process is running
          consulted,   \* history: idles compared since the clock last moved
          calls, loops

processor == <<halted, registered, left, routine>>
clock     == <<remaining, deadline>>
machine   == <<pc, todo, idler, running>>
bounds    == <<calls, loops>>
vars      == <<processor, clock, connected, machine, consulted, bounds>>

Empty == [signals |-> <<>>, idle |-> <<>>]

Init ==
  /\ halted = FALSE
  /\ registered = <<>>
  /\ left = [s \in Signals |-> 0]
  /\ remaining = [t \in Timers |-> 0]
  /\ connected = {}
  /\ routine = Empty
  /\ pc = "main" /\ todo = <<>> /\ idler = Nobody /\ running = Nobody
  /\ deadline = 0
  /\ consulted = {}
  /\ calls = 0 /\ loops = 0

----------------------------------------------------------------------------
(* What the routines add to the Routine object.                            *)

\* has_signal_exhausted: no process is left, or there never was one.
Exhausted(s) == left[s] = 0

\* Idle objects: a process for a socket, a time for the others.
Class(s) == IF s \in Sockets THEN "Process" ELSE "Time"

Priority(s) == IF Class(s) = "Process" THEN 1 ELSE 2

\* convert_length(get_time_left(), TIME_SECONDS), in tenths of a second.  A
\* tick is 1000 milliseconds, which the code multiplies by .0001.
Tenths(s, time) == IF s \in Milli THEN time[s] ELSE 10 * time[s]

\* (Mutant) the longer idle wins.
Override_Longer(slot, s, time) ==
  time[slot] = 0 \/ Tenths(slot, time) < Tenths(s, time)

\* Time::override: the idle of s replaces that of slot.
Override(slot, s, time) ==
  time[slot] = 0 \/ Tenths(s, time) < Tenths(slot, time)

Slot(idle, s) == {i \in DOMAIN idle : Class(idle[i]) = Class(s)}

\* add_idle throws: there is a process idle and it allows no override.
Refused(s) == Class(s) = "Process" /\ Slot(routine.idle, s) # {}

\* (Mutant) an idle of another class is appended.
AddIdle_Appends(idle, s, time) ==
  IF Slot(idle, s) # {}
    THEN [i \in DOMAIN idle |->
            IF i \in Slot(idle, s) /\ Override(idle[i], s, time) THEN s ELSE idle[i]]
    ELSE Append(idle, s)

\* Routine::add_idle, for an idle that is not refused.  Its usort has one
\* idle of each class before it at most.
AddIdle(idle, s, time) ==
  IF Slot(idle, s) # {}
    THEN [i \in DOMAIN idle |->
            IF i \in Slot(idle, s) /\ Override(idle[i], s, time) THEN s ELSE idle[i]]
    ELSE IF \A i \in DOMAIN idle : Priority(idle[i]) <= Priority(s)
           THEN Append(idle, s)
           ELSE <<s>> \o idle

\* An exception leaves wait_loop; the Routine object stays as it is.
Raise == pc' = "raised" /\ todo' = <<>> /\ idler' = Nobody /\ running' = Nobody

----------------------------------------------------------------------------
(* One turn of the loop.                                                   *)

WaitLoop ==
  /\ pc = "main" /\ loops < MaxLoops
  /\ pc' = "startup" /\ todo' = <<SIG_Startup>> /\ loops' = loops + 1
  /\ UNCHANGED <<processor, clock, connected, idler, running, consulted, calls>>

\* emit(), in wait_loop: an exhausted signal runs no process.  A socket in the
\* queue stands for the SIG_Connect of its own connection, which has none.
Emits(s) ==
  IF s \in Sockets \/ Exhausted(s)
    THEN UNCHANGED <<left, running>>
    ELSE /\ running' = s
         /\ left' = [left EXCEPT ![s] = IF @ = Never THEN Never ELSE @ - 1]

EmitNext ==
  /\ pc \in {"startup", "emit", "shutdown"} /\ running = Nobody /\ todo # <<>>
  /\ Emits(Head(todo))
  /\ todo' = Tail(todo)
  /\ UNCHANGED <<halted, registered, routine, clock, connected, pc, idler, consulted, bounds>>

Started ==
  /\ pc = "startup" /\ running = Nobody /\ todo = <<>>
  /\ pc' = "routine"
  /\ UNCHANGED <<processor, clock, connected, todo, idler, running, consulted, bounds>>

\* The loop ends in SIG_Shutdown; it does not reset the Routine object.
End == pc' = "shutdown" /\ todo' = <<SIG_Shutdown>> /\ UNCHANGED <<idler, running>>

RoutineHalted ==
  /\ pc = "routine" /\ halted
  /\ End
  /\ UNCHANGED <<processor, clock, connected, consulted, bounds>>

\* (Mutant) shutdown() is not looked at.
RoutineStart_Halted ==
  /\ pc = "routine"
  /\ pc' = "routines" /\ todo' = registered
  /\ consulted' = {}
  /\ UNCHANGED <<processor, clock, connected, idler, running, bounds>>

RoutineStart ==
  /\ pc = "routine" /\ ~halted
  /\ pc' = "routines" /\ todo' = registered
  /\ consulted' = {}
  /\ UNCHANGED <<processor, clock, connected, idler, running, bounds>>

Visits(s) == pc = "routines" /\ todo # <<>> /\ s = Head(todo)

\* (Mutant) every turn starts a new Time.
RunAwake_Restarts(s) ==
  LET passed == remaining[s] = 0
      time   == [remaining EXCEPT ![s] = Length[s]]
  IN  /\ Visits(s) /\ s \in Awakes
      /\ routine' = [signals |-> IF passed THEN Append(routine.signals, s)
                                           ELSE routine.signals,
                     idle    |-> AddIdle(routine.idle, s, time)]
      /\ remaining' = time
      /\ consulted' = consulted \cup {s}
      /\ todo' = Tail(todo)
      /\ UNCHANGED <<halted, registered, left, deadline, connected, pc, idler, running, bounds>>

\* SIG_Awake::routine.  A new Time starts when the old one has passed, and the
\* awake asks for the idle whether or not its process is exhausted.
RunAwake(s) ==
  LET passed == remaining[s] = 0
      time   == IF passed THEN [remaining EXCEPT ![s] = Length[s]] ELSE remaining
  IN  /\ Visits(s) /\ s \in Awakes
      /\ routine' = [signals |-> IF passed THEN Append(routine.signals, s)
                                           ELSE routine.signals,
                     idle    |-> AddIdle(routine.idle, s, time)]
      /\ remaining' = time
      /\ consulted' = consulted \cup {s}
      /\ todo' = Tail(todo)
      /\ UNCHANGED <<halted, registered, left, deadline, connected, pc, idler, running, bounds>>

\* Socket::routine.
RunSocket(s) ==
  /\ Visits(s) /\ s \in Sockets
  /\ connected' = connected \cup {s}
  /\ LET signals == IF s \in connected THEN routine.signals ELSE Append(routine.signals, s)
     IN  IF Refused(s)
           THEN Raise /\ routine' = [routine EXCEPT !.signals = signals]
           ELSE /\ routine' = [signals |-> signals,
                               idle    |-> AddIdle(routine.idle, s, remaining)]
                /\ todo' = Tail(todo)
                /\ UNCHANGED <<pc, idler, running>>
  /\ UNCHANGED <<halted, registered, left, clock, consulted, bounds>>

\* SIG_CRON::routine.  Until it is due it builds a Time from two properties it
\* does not have, and the constructor of Time throws.
RunCron(s) ==
  /\ Visits(s) /\ s \in Crons
  /\ IF remaining[s] = 0
       THEN /\ remaining' = [remaining EXCEPT ![s] = Length[s]]
            /\ routine' = [routine EXCEPT !.signals = Append(@, s)]
            /\ todo' = Tail(todo)
            /\ UNCHANGED <<pc, idler, running>>
       ELSE Raise /\ UNCHANGED <<remaining, routine>>
  /\ UNCHANGED <<halted, registered, left, deadline, connected, consulted, bounds>>

RoutineEnd ==
  /\ pc = "routines" /\ todo = <<>>
  /\ pc' = "emit" /\ todo' = routine.signals
  /\ UNCHANGED <<processor, clock, connected, idler, running, consulted, bounds>>

\* Ticks a socket waits for: it polls when signals were queued, and until the
\* Time idle otherwise.  Its select() takes a fraction of a second for none.
SocketWait ==
  LET times == {i \in DOMAIN routine.idle : Class(routine.idle[i]) = "Time"}
  IN  IF routine.signals # <<>> THEN 0
      ELSE IF times = {} THEN Poll
      ELSE Tenths(routine.idle[CHOOSE i \in times : TRUE], remaining) \div 10

\* The first idle whose signal is not exhausted idles the processor.
Idles(i) == /\ i \in DOMAIN routine.idle
            /\ ~Exhausted(routine.idle[i])
            /\ \A j \in 1..(i - 1) : Exhausted(routine.idle[j])

ChooseIdle ==
  /\ pc = "emit" /\ running = Nobody /\ todo = <<>>
  /\ \E i \in DOMAIN routine.idle :
       /\ Idles(i)
       /\ idler' = routine.idle[i]
       /\ deadline' = IF idler' \in Sockets THEN SocketWait ELSE remaining[idler']
  /\ pc' = "idle"
  /\ UNCHANGED <<processor, remaining, connected, todo, running, consulted, bounds>>

\* No idle is left.
LoopEnd ==
  /\ pc = "emit" /\ running = Nobody /\ todo = <<>>
  /\ \A i \in DOMAIN routine.idle : Exhausted(routine.idle[i])
  /\ End
  /\ UNCHANGED <<processor, clock, connected, consulted, bounds>>

\* The socket's select() returns early; its handlers run, as one body.
SocketEvent ==
  /\ pc = "idle" /\ idler \in Sockets /\ running = Nobody
  /\ running' = idler /\ pc' = "event" /\ deadline' = 0
  /\ UNCHANGED <<processor, remaining, connected, todo, idler, consulted, bounds>>

\* (Mutant) the Routine object is not reset.
Wake_Keeps ==
  /\ pc \in {"idle", "event"} /\ running = Nobody /\ deadline = 0
  /\ pc' = "routine" /\ idler' = Nobody
  /\ UNCHANGED <<processor, clock, connected, todo, running, consulted, bounds>>

Wake ==
  /\ pc \in {"idle", "event"} /\ running = Nobody /\ deadline = 0
  /\ routine' = Empty
  /\ pc' = "routine" /\ idler' = Nobody
  /\ UNCHANGED <<halted, registered, left, clock, connected, todo, running, consulted, bounds>>

LoopReturn ==
  /\ pc = "shutdown" /\ running = Nobody /\ todo = <<>>
  /\ pc' = "main"
  /\ UNCHANGED <<processor, clock, connected, todo, idler, running, consulted, bounds>>

\* The main program catches what wait_loop threw.
Catch ==
  /\ pc = "raised"
  /\ pc' = "main"
  /\ UNCHANGED <<processor, clock, connected, todo, idler, running, consulted, bounds>>

\* A process returns.
Return ==
  /\ running # Nobody
  /\ running' = Nobody
  /\ UNCHANGED <<processor, clock, connected, pc, todo, idler, consulted, bounds>>

----------------------------------------------------------------------------
(* The clock, and user code.                                               *)

\* (Mutant) a timer runs on after its time has passed.
Tick_RunsOn ==
  /\ remaining' = [t \in Timers |-> remaining[t] - 1]
  /\ deadline' = IF deadline = 0 THEN 0 ELSE deadline - 1
  /\ consulted' = IF pc = "routines" THEN {} ELSE consulted
  /\ UNCHANGED <<processor, connected, machine, bounds>>

\* A second passes.  An idle compared with another one before it did may be
\* over by the time the routines end.
Tick ==
  /\ remaining' = [t \in Timers |-> IF remaining[t] = 0 THEN 0 ELSE remaining[t] - 1]
  /\ deadline' = IF deadline = 0 THEN 0 ELSE deadline - 1
  /\ consulted' = IF pc = "routines" THEN {} ELSE consulted
  /\ UNCHANGED <<processor, connected, machine, bounds>>

Calling(f) ==
  /\ \/ pc = "main" /\ f \in Calls
     \/ running # Nobody /\ f \in BodyCalls
  /\ calls < MaxCalls /\ calls' = calls + 1
  /\ UNCHANGED <<connected, machine, consulted, loops, deadline>>

\* The signal object s is not in use: it stands for a new one.
Fresh(s) == s \notin Range(registered) \cup Range(routine.signals)
                     \cup Range(routine.idle) \cup Range(todo) \cup {running, idler}

\* time\awake and time\CRON: a new signal with a new process.
StartTimer(s, rate) ==
  /\ Fresh(s)
  /\ registered' = Append(registered, s)
  /\ left' = [left EXCEPT ![s] = rate]
  /\ remaining' = [remaining EXCEPT ![s] = Length[s]]
  /\ UNCHANGED <<halted, routine>>

Awake(s, rate) == Calling("awake") /\ s \in Awakes /\ StartTimer(s, rate)

CRON(s, rate) == Calling("CRON") /\ s \in Crons /\ StartTimer(s, rate)

\* network\connect: a socket signal with a null exhaust process.
Connect(s) ==
  /\ Calling("connect") /\ s \in Sockets /\ Fresh(s) /\ s \notin connected
  /\ registered' = Append(registered, s)
  /\ left' = [left EXCEPT ![s] = Never]
  /\ UNCHANGED <<halted, remaining, routine>>

\* A process for a signal that has none left.
Install(s, rate) ==
  /\ Calling("install") /\ Exhausted(s)
  /\ s \in Range(registered) \cup {SIG_Startup, SIG_Shutdown}
  /\ left' = [left EXCEPT ![s] = rate]
  /\ UNCHANGED <<halted, registered, remaining, routine>>

\* Once the processor is halted nothing starts it again.
Shutdown ==
  /\ Calling("shutdown")
  /\ halted' = TRUE
  /\ UNCHANGED <<registered, left, remaining, routine>>

DeleteSignal(s) ==
  /\ Calling("delete_signal")
  /\ \E i \in DOMAIN registered :
       registered[i] = s /\ registered' = RemoveAt(registered, i)
  /\ left' = [left EXCEPT ![s] = 0]
  /\ UNCHANGED <<halted, remaining, routine>>

\* flush() frees the databases; it makes a Routine object only if there is none.
Flush ==
  /\ Calling("flush")
  /\ registered' = <<>>
  /\ left' = [s \in Signals |-> 0]
  /\ UNCHANGED <<halted, remaining, routine>>

Step == \/ EmitNext \/ Started \/ RoutineHalted \/ RoutineStart
        \/ \E s \in Routines : RunAwake(s) \/ RunSocket(s) \/ RunCron(s)
        \/ RoutineEnd \/ ChooseIdle \/ LoopEnd \/ Wake \/ LoopReturn \/ Return

User == \/ WaitLoop \/ Catch \/ Shutdown \/ Flush
        \/ \E s \in Routines : Connect(s) \/ DeleteSignal(s)
        \/ \E s \in Signals, rate \in Rates :
             Awake(s, rate) \/ CRON(s, rate) \/ Install(s, rate)

Next == Step \/ SocketEvent \/ Tick \/ User

Spec == Init /\ [][Next]_vars

\* PHP executes, processes return and the clock goes on.
FairSpec == Spec /\ WF_vars(Step) /\ WF_vars(Tick)

----------------------------------------------------------------------------

TypeOK ==
  /\ halted \in BOOLEAN
  /\ registered \in Seq(Routines)
  /\ left \in [Signals -> Nat \cup {Never}]
  /\ remaining \in [Timers -> Nat] /\ deadline \in Nat
  /\ connected \subseteq Sockets
  /\ routine \in [signals : Seq(Routines), idle : Seq(Routines)]
  /\ pc \in {"main", "startup", "routine", "routines", "emit", "idle", "event",
             "shutdown", "raised"}
  /\ todo \in Seq(Signals)
  /\ idler \in Routines \cup {Nobody} /\ running \in Signals \cup {Nobody}
  /\ consulted \subseteq Awakes
  /\ calls \in Nat /\ loops \in Nat

\* The Routine object holds one idle of a class at most, in the order of their
\* priorities: sockets are served while the program sleeps, and a sleep never
\* hides them (Routine::add_idle).
IdleSlots ==
  \A i, j \in DOMAIN routine.idle :
    i < j => Priority(routine.idle[i]) < Priority(routine.idle[j])

Live(s) == s \in Range(registered) /\ ~Exhausted(s)

\* The program never sleeps past an awake that its routines took into account:
\* whatever idles, in whatever order the routines ran and however long the
\* processes took, the idle ends by the time of every live awake compared since
\* the clock last moved (SIG_Awake::routine, Routine::add_idle, Time::override,
\* Socket's idle).
IdleUntilNext ==
  pc = "idle" => \A s \in consulted : Live(s) => deadline <= remaining[s]

\* What the awakes are doing: the time left, those that passed and whose
\* processes have still to run, those that have one, and the one that runs.
awaited == [t \in Awakes |-> remaining[t]]

due == Awakes \cap CASE pc = "routines" -> Range(routine.signals)
                     [] pc = "emit"     -> Range(todo)
                     [] OTHER           -> {}

alive == {t \in Awakes : ~Exhausted(t)}

firing == IF running \in Awakes THEN running ELSE Nobody

failed == pc = "raised"

T == INSTANCE Timers WITH time <- awaited, live <- alive, running <- firing

\* In the first wait_loop an awake is emitted once each time it has passed, and
\* never before, whatever processes register, delete and flush between the
\* routine that queues it and its turn in the queue, and whoever idles: none is
\* lost but by an exception, and none is left of an earlier turn
\* (SIG_Awake::routine, Routine::add_signal, Routine::reset, the foreach of
\* wait_loop).
TimersSpec ==
  T!Init /\ [][loops' <= 1 => T!Next]_(T!vars)

\* A live awake of a running loop fires, unless the processor is halted.
AwakesFire ==
  \A s \in Awakes :
    (pc # "main" /\ Live(s)) ~> (running = s \/ halted)

\* After shutdown() the loop ends, whatever is registered or idling.
ShutdownHonoured == halted ~> pc = "main"

----------------------------------------------------------------------------
(* What the documentation says of the loop, and the code does not do.      *)

\* The loop of a processor that was not halted ends when no awake is left.
ShutdownWhenDone ==
  pc = "shutdown" /\ ~halted => \A s \in Awakes : ~Live(s)
=============================================================================

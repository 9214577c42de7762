-------------------------- MODULE WaitLoop_proofs --------------------------
(***************************************************************************)
(* What holds of the wait loop for every set of awakes, sockets and crons. *)
(***************************************************************************)
EXTENDS WaitLoop, SequenceLemmas

LEMMA SignalsType ==
  /\ Awakes \subseteq Timers /\ Crons \subseteq Timers
  /\ Timers \subseteq Routines /\ Sockets \subseteq Routines
  /\ Routines \subseteq Signals /\ Nobody \notin Signals
  /\ SIG_Startup \in Signals /\ SIG_Shutdown \in Signals
BY KindsType DEF Timers, Routines, Signals

\* A queue is ordered: at most one idle of a class, by priority.
Ordered(idle) ==
  \A i, j \in DOMAIN idle : i < j => Priority(idle[i]) < Priority(idle[j])

LEMMA AddIdleType ==
  ASSUME NEW idle \in Seq(Routines), NEW s \in Routines, NEW time
  PROVE  AddIdle(idle, s, time) \in Seq(Routines)
<1>1. CASE Slot(idle, s) # {}
  <2> DEFINE r == [i \in DOMAIN idle |->
             IF i \in Slot(idle, s) /\ Override(idle[i], s, time) THEN s ELSE idle[i]]
  <2>1. DOMAIN idle = 1..Len(idle) /\ Len(idle) \in Nat
        /\ \A i \in DOMAIN idle : idle[i] \in Routines
    BY LenProperties, ElementOfSeq
  <2>2. r \in [1..Len(idle) -> Routines]
    BY <2>1
  <2>3. r \in Seq(Routines)
    BY <2>1, <2>2, SeqDef
  <2> QED
    BY <1>1, <2>3 DEF AddIdle
<1>2. CASE Slot(idle, s) = {}
  BY <1>2, AppendProperties, ConcatProperties DEF AddIdle
<1> QED
  BY <1>1, <1>2

\* Routine::add_idle keeps the idles ordered.
LEMMA AddIdleOrdered ==
  ASSUME NEW idle \in Seq(Routines), Ordered(idle), NEW s \in Routines, NEW time
  PROVE  Ordered(AddIdle(idle, s, time))
<1>1. DOMAIN idle = 1..Len(idle) /\ Len(idle) \in Nat
  BY LenProperties
<1>2. \A r, t : /\ Priority(r) \in {1, 2}
                /\ Class(r) = Class(t) <=> Priority(r) = Priority(t)
  BY DEF Priority, Class
<1>3. CASE Slot(idle, s) # {}
  <2>1. ASSUME NEW i \in DOMAIN idle
        PROVE  Priority(AddIdle(idle, s, time)[i]) = Priority(idle[i])
    BY <1>2, <1>3 DEF AddIdle, Slot
  <2>2. DOMAIN AddIdle(idle, s, time) = DOMAIN idle
    BY <1>3 DEF AddIdle
  <2> QED
    BY <2>1, <2>2 DEF Ordered
<1>4. ASSUME Slot(idle, s) = {}, NEW i \in DOMAIN idle
      PROVE  Priority(idle[i]) # Priority(s)
  BY <1>2, <1>4 DEF Slot
<1>5. CASE Slot(idle, s) = {} /\ \A i \in DOMAIN idle : Priority(idle[i]) <= Priority(s)
  <2>1. AddIdle(idle, s, time) = Append(idle, s)
    BY <1>5 DEF AddIdle
  <2>2. /\ DOMAIN Append(idle, s) = 1..(Len(idle) + 1)
        /\ \A i \in 1..Len(idle) : Append(idle, s)[i] = idle[i]
        /\ Append(idle, s)[Len(idle) + 1] = s
    BY <1>1, AppendProperties
  <2>3. ASSUME NEW i \in 1..Len(idle)
        PROVE  Priority(idle[i]) < Priority(s)
    <3>1. Priority(idle[i]) \in {1, 2} /\ Priority(s) \in {1, 2}
      BY <1>2
    <3>2. Priority(idle[i]) # Priority(s) /\ Priority(idle[i]) <= Priority(s)
      BY <1>1, <1>4, <1>5
    <3> QED
      BY <3>1, <3>2
  <2> QED
    BY <1>1, <2>1, <2>2, <2>3 DEF Ordered
<1>6. CASE Slot(idle, s) = {} /\ ~\A i \in DOMAIN idle : Priority(idle[i]) <= Priority(s)
  <2>1. AddIdle(idle, s, time) = <<s>> \o idle
    BY <1>6 DEF AddIdle
  <2>2. Len(<<s>>) = 1 /\ <<s>>[1] = s /\ <<s>> \in Seq(Routines)
    OBVIOUS
  <2>3. /\ DOMAIN (<<s>> \o idle) = 1..(Len(idle) + 1)
        /\ (<<s>> \o idle)[1] = s
        /\ \A i \in 2..(Len(idle) + 1) : (<<s>> \o idle)[i] = idle[i - 1]
    BY <1>1, <2>2, ConcatProperties
  <2>4. ASSUME NEW i \in 1..Len(idle)
        PROVE  Priority(s) < Priority(idle[i])
    <3>1. PICK k \in DOMAIN idle : ~(Priority(idle[k]) <= Priority(s))
      BY <1>6
    <3>2. /\ Priority(idle[i]) \in {1, 2} /\ Priority(idle[k]) \in {1, 2}
          /\ Priority(s) \in {1, 2}
      BY <1>2
    <3>3. Priority(idle[i]) # Priority(s)
      BY <1>1, <1>4, <1>6
    <3> QED
      BY <3>1, <3>2, <3>3
  <2>5. ASSUME NEW i \in 1..(Len(idle) + 1), NEW j \in 1..(Len(idle) + 1), i < j
        PROVE  Priority((<<s>> \o idle)[i]) < Priority((<<s>> \o idle)[j])
    <3>1. j - 1 \in 1..Len(idle) /\ (<<s>> \o idle)[j] = idle[j - 1]
      BY <1>1, <2>3, <2>5
    <3>2. CASE i = 1
      BY <2>3, <2>4, <3>1, <3>2
    <3>3. CASE i # 1
      <4>1. i - 1 \in 1..Len(idle) /\ (<<s>> \o idle)[i] = idle[i - 1] /\ i - 1 < j - 1
        BY <1>1, <2>3, <2>5, <3>3
      <4> QED
        BY <1>1, <3>1, <4>1 DEF Ordered
    <3> QED
      BY <3>2, <3>3
  <2> QED
    BY <2>1, <2>3, <2>5 DEF Ordered
<1> QED
  BY <1>3, <1>5, <1>6

----------------------------------------------------------------------------
(* Type correctness, and the order of the idles, which RunAwake and        *)
(* RunSocket need of the Routine object they add to.                       *)

Inv == TypeOK /\ Ordered(routine.idle)

LEMMA InitInv == Init => Inv
<1> SUFFICES ASSUME Init PROVE Inv
  OBVIOUS
<1>1. TypeOK
  BY SignalsType, EmptySeq, BoundsType DEF Init, TypeOK, Empty
<1>2. Ordered(routine.idle)
  BY DEF Init, Empty, Ordered
<1> QED
  BY <1>1, <1>2 DEF Inv

LEMMA RunAwakeInv ==
  ASSUME TypeOK, Ordered(routine.idle), NEW s \in Routines, RunAwake(s)
  PROVE  TypeOK' /\ Ordered(routine.idle)'
<1> DEFINE time == IF remaining[s] = 0 THEN [remaining EXCEPT ![s] = Length[s]] ELSE remaining
<1>1. s \in Awakes /\ s \in Timers /\ Length[s] \in Nat
  BY SignalsType, LengthType DEF RunAwake
<1>2. time \in [Timers -> Nat] /\ remaining' = time
  BY <1>1 DEF RunAwake, TypeOK
<1>3. /\ AddIdle(routine.idle, s, time) \in Seq(Routines)
      /\ Ordered(AddIdle(routine.idle, s, time))
  BY AddIdleType, AddIdleOrdered DEF TypeOK
<1>4. Append(routine.signals, s) \in Seq(Routines)
  BY AppendProperties DEF TypeOK
<1>5. routine' \in [signals : Seq(Routines), idle : Seq(Routines)]
      /\ routine'.idle = AddIdle(routine.idle, s, time)
  BY <1>3, <1>4 DEF RunAwake, TypeOK
<1>6. Tail(todo) \in Seq(Signals)
  BY HeadTailType DEF RunAwake, Visits, TypeOK
<1>7. consulted' \subseteq Awakes
  BY <1>1 DEF RunAwake, TypeOK
<1>8. TypeOK'
  BY <1>2, <1>5, <1>6, <1>7 DEF RunAwake, TypeOK, bounds
<1> QED
  BY <1>3, <1>5, <1>8

LEMMA RunSocketInv ==
  ASSUME TypeOK, Ordered(routine.idle), NEW s \in Routines, RunSocket(s)
  PROVE  TypeOK' /\ Ordered(routine.idle)'
<1> DEFINE signals == IF s \in connected THEN routine.signals ELSE Append(routine.signals, s)
<1>1. signals \in Seq(Routines)
  BY AppendProperties DEF TypeOK
<1>2. /\ AddIdle(routine.idle, s, remaining) \in Seq(Routines)
      /\ Ordered(AddIdle(routine.idle, s, remaining))
  BY AddIdleType, AddIdleOrdered DEF TypeOK
<1>3. Tail(todo) \in Seq(Signals) /\ <<>> \in Seq(Signals)
  BY HeadTailType, EmptySeq DEF RunSocket, Visits, TypeOK
<1>4. connected' \subseteq Sockets
  BY DEF RunSocket, TypeOK
<1>5. CASE Refused(s)
  <2>1. /\ routine' = [routine EXCEPT !.signals = signals]
        /\ pc' = "raised" /\ todo' = <<>> /\ idler' = Nobody /\ running' = Nobody
    BY <1>5 DEF RunSocket, Raise
  <2>2. routine' \in [signals : Seq(Routines), idle : Seq(Routines)] /\ routine'.idle = routine.idle
    BY <1>1, <2>1 DEF TypeOK
  <2>3. TypeOK'
    BY <1>3, <1>4, <2>1, <2>2 DEF RunSocket, TypeOK, clock, bounds
  <2> QED
    BY <2>2, <2>3
<1>6. CASE ~Refused(s)
  <2>1. /\ routine' = [signals |-> signals, idle |-> AddIdle(routine.idle, s, remaining)]
        /\ todo' = Tail(todo) /\ UNCHANGED <<pc, idler, running>>
    BY <1>6 DEF RunSocket
  <2>2. routine' \in [signals : Seq(Routines), idle : Seq(Routines)]
    BY <1>1, <1>2, <2>1
  <2>3. TypeOK'
    BY <1>3, <1>4, <2>1, <2>2 DEF RunSocket, TypeOK, clock, bounds
  <2> QED
    BY <1>2, <2>1, <2>3
<1> QED
  BY <1>5, <1>6

LEMMA RunCronInv ==
  ASSUME TypeOK, Ordered(routine.idle), NEW s \in Routines, RunCron(s)
  PROVE  TypeOK' /\ Ordered(routine.idle)'
<1>1. s \in Timers /\ Length[s] \in Nat
  BY SignalsType, LengthType DEF RunCron
<1>2. Tail(todo) \in Seq(Signals) /\ <<>> \in Seq(Signals)
  BY HeadTailType, EmptySeq DEF RunCron, Visits, TypeOK
<1>3. Append(routine.signals, s) \in Seq(Routines)
  BY AppendProperties DEF TypeOK
<1>4. CASE remaining[s] = 0
  <2>1. /\ remaining' = [remaining EXCEPT ![s] = Length[s]]
        /\ routine' = [routine EXCEPT !.signals = Append(@, s)]
        /\ todo' = Tail(todo) /\ UNCHANGED <<pc, idler, running>>
    BY <1>4 DEF RunCron
  <2>2. /\ routine' \in [signals : Seq(Routines), idle : Seq(Routines)]
        /\ routine'.idle = routine.idle /\ remaining' \in [Timers -> Nat]
    BY <1>1, <1>3, <2>1 DEF TypeOK
  <2>3. TypeOK'
    BY <1>2, <2>1, <2>2 DEF RunCron, TypeOK, bounds
  <2> QED
    BY <2>2, <2>3
<1>5. CASE remaining[s] # 0
  <2>1. /\ UNCHANGED <<remaining, routine>>
        /\ pc' = "raised" /\ todo' = <<>> /\ idler' = Nobody /\ running' = Nobody
    BY <1>5 DEF RunCron, Raise
  <2>2. TypeOK'
    BY <1>2, <2>1 DEF RunCron, TypeOK, bounds
  <2> QED
    BY <2>1, <2>2
<1> QED
  BY <1>4, <1>5

LEMMA ChooseIdleInv ==
  ASSUME TypeOK, ChooseIdle
  PROVE  TypeOK'
<1>1. PICK i \in DOMAIN routine.idle :
        /\ idler' = routine.idle[i]
        /\ deadline' = IF idler' \in Sockets THEN SocketWait ELSE remaining[idler']
  BY DEF ChooseIdle
<1>2. ASSUME NEW j \in DOMAIN routine.idle, routine.idle[j] \notin Sockets
      PROVE  routine.idle[j] \in Timers /\ remaining[routine.idle[j]] \in Nat
  <2>1. routine.idle[j] \in Routines
    BY ElementOfSeq, LenProperties DEF TypeOK
  <2> QED
    BY <1>2, <2>1 DEF Routines, TypeOK
<1>3. SocketWait \in Nat
  <2> DEFINE times == {j \in DOMAIN routine.idle : Class(routine.idle[j]) = "Time"}
  <2>1. CASE routine.signals # <<>> \/ times = {}
    BY <2>1, PollType DEF SocketWait
  <2>2. CASE routine.signals = <<>> /\ times # {}
    <3> DEFINE j == CHOOSE k \in times : TRUE
    <3>1. j \in times
      BY <2>2
    <3>2. remaining[routine.idle[j]] \in Nat
      BY <1>2, <3>1 DEF Class
    <3>3. Tenths(routine.idle[j], remaining) \in Nat
      BY <3>2 DEF Tenths
    <3>4. SocketWait = Tenths(routine.idle[j], remaining) \div 10
      BY <2>2 DEF SocketWait
    <3> HIDE DEF j
    <3>5. \A n \in Nat : n \div 10 \in Nat
      OBVIOUS
    <3> QED
      BY <3>3, <3>4, <3>5
  <2> QED
    BY <2>1, <2>2
<1>4. idler' \in Routines /\ deadline' \in Nat
  BY <1>1, <1>2, <1>3, ElementOfSeq, LenProperties DEF TypeOK
<1> QED
  BY <1>4 DEF ChooseIdle, TypeOK, processor, bounds

LEMMA StepInv ==
  ASSUME TypeOK, Ordered(routine.idle), Step \/ SocketEvent \/ Tick
  PROVE  TypeOK' /\ Ordered(routine.idle)'
<1>1. CASE EmitNext
  <2>1. Head(todo) \in Signals /\ Tail(todo) \in Seq(Signals)
    BY <1>1, HeadTailType DEF EmitNext, TypeOK
  <2>2. left' \in [Signals -> Nat \cup {Never}] /\ running' \in Signals \cup {Nobody}
    <3>1. CASE Head(todo) \in Sockets \/ Exhausted(Head(todo))
      BY <1>1, <3>1 DEF EmitNext, Emits, TypeOK
    <3>2. CASE ~(Head(todo) \in Sockets \/ Exhausted(Head(todo)))
      <4>1. left[Head(todo)] \in (Nat \ {0}) \cup {Never}
        BY <2>1, <3>2 DEF Exhausted, TypeOK
      <4> QED
        BY <1>1, <2>1, <3>2, <4>1 DEF EmitNext, Emits, TypeOK
    <3> QED
      BY <3>1, <3>2
  <2> QED
    BY <1>1, <2>1, <2>2 DEF EmitNext, TypeOK, clock, bounds
<1>2. CASE Started \/ LoopReturn \/ Return
  BY <1>2 DEF Started, LoopReturn, Return, TypeOK, processor, clock, bounds
<1>3. CASE RoutineHalted \/ LoopEnd
  <2>1. <<SIG_Shutdown>> \in Seq(Signals)
    BY SignalsType
  <2> QED
    BY <1>3, <2>1 DEF RoutineHalted, LoopEnd, End, TypeOK, processor, clock, bounds
<1>4. CASE RoutineStart \/ RoutineEnd
  <2>1. registered \in Seq(Signals) /\ routine.signals \in Seq(Signals)
    BY SignalsType, SeqMonotone DEF TypeOK
  <2> QED
    BY <1>4, <2>1 DEF RoutineStart, RoutineEnd, TypeOK, processor, clock, bounds
<1>5. CASE \E s \in Routines : RunAwake(s) \/ RunSocket(s) \/ RunCron(s)
  BY <1>5, RunAwakeInv, RunSocketInv, RunCronInv
<1>6. CASE ChooseIdle
  BY <1>6, ChooseIdleInv DEF ChooseIdle, processor
<1>7. CASE Wake
  <2>1. routine' = Empty /\ Empty \in [signals : Seq(Routines), idle : Seq(Routines)]
    BY <1>7, EmptySeq DEF Wake, Empty
  <2>2. Ordered(routine.idle)'
    BY <2>1 DEF Empty, Ordered
  <2> QED
    BY <1>7, <2>1, <2>2 DEF Wake, TypeOK, clock, bounds
<1>8. CASE SocketEvent
  <2>1. idler \in Signals
    BY <1>8, SignalsType DEF SocketEvent
  <2> QED
    BY <1>8, <2>1 DEF SocketEvent, TypeOK, processor, bounds
<1>9. CASE Tick
  <2>1. remaining' \in [Timers -> Nat] /\ deadline' \in Nat
    BY <1>9 DEF Tick, TypeOK
  <2> QED
    BY <1>9, <2>1 DEF Tick, TypeOK, processor, machine, bounds
<1> QED
  BY <1>1, <1>2, <1>3, <1>4, <1>5, <1>6, <1>7, <1>8, <1>9 DEF Step

\* A call of the API changes neither the machine nor the Routine object.
LEMMA CallType ==
  ASSUME TypeOK, NEW f, Calling(f), UNCHANGED routine,
         halted' \in BOOLEAN, registered' \in Seq(Routines),
         left' \in [Signals -> Nat \cup {Never}], remaining' \in [Timers -> Nat]
  PROVE  TypeOK'
<1>1. UNCHANGED <<connected, pc, todo, idler, running, consulted, loops, deadline>>
  BY DEF Calling, machine
<1>2. calls' \in Nat
  BY DEF Calling, TypeOK
<1> QED
  BY <1>1, <1>2 DEF TypeOK

LEMMA UserInv ==
  ASSUME TypeOK, Ordered(routine.idle), User
  PROVE  TypeOK' /\ Ordered(routine.idle)'
<1>1. Rates \subseteq Nat \cup {Never}
  BY RatesType
<1>2. CASE WaitLoop
  <2>1. <<SIG_Startup>> \in Seq(Signals)
    BY SignalsType
  <2> QED
    BY <1>2, <2>1 DEF WaitLoop, TypeOK, processor, clock
<1>3. CASE Catch
  BY <1>3 DEF Catch, TypeOK, processor, clock, bounds
<1>4. ASSUME NEW f, Calling(f), UNCHANGED routine,
             halted' \in BOOLEAN, registered' \in Seq(Routines),
             left' \in [Signals -> Nat \cup {Never}], remaining' \in [Timers -> Nat]
      PROVE  TypeOK' /\ Ordered(routine.idle)'
  <2>1. TypeOK'
    BY <1>4, CallType
  <2> QED
    BY <1>4, <2>1
<1>5. CASE Shutdown
  <2>1. /\ Calling("shutdown") /\ UNCHANGED routine /\ halted' \in BOOLEAN
        /\ UNCHANGED <<registered, left, remaining>>
    BY <1>5 DEF Shutdown
  <2> QED
    BY <1>4, <2>1 DEF TypeOK
<1>6. CASE Flush
  <2>1. /\ Calling("flush") /\ UNCHANGED routine /\ registered' = <<>>
        /\ left' = [s \in Signals |-> 0] /\ UNCHANGED <<halted, remaining>>
    BY <1>6 DEF Flush
  <2>2. registered' \in Seq(Routines) /\ left' \in [Signals -> Nat \cup {Never}]
    BY <2>1, EmptySeq
  <2> QED
    BY <1>4, <2>1, <2>2 DEF TypeOK
<1>7. ASSUME NEW s \in Routines, Connect(s)
      PROVE  TypeOK' /\ Ordered(routine.idle)'
  <2>1. /\ Calling("connect") /\ UNCHANGED <<halted, remaining, routine>>
        /\ registered' = Append(registered, s) /\ left' = [left EXCEPT ![s] = Never]
    BY <1>7 DEF Connect
  <2>2. registered' \in Seq(Routines) /\ left' \in [Signals -> Nat \cup {Never}]
    BY <2>1, SignalsType, AppendProperties DEF TypeOK
  <2> QED
    BY <1>4, <2>1, <2>2 DEF TypeOK
<1>8. ASSUME NEW s \in Routines, DeleteSignal(s)
      PROVE  TypeOK' /\ Ordered(routine.idle)'
  <2>1. PICK i \in DOMAIN registered : registered' = RemoveAt(registered, i)
    BY <1>8 DEF DeleteSignal
  <2>2. /\ Calling("delete_signal") /\ UNCHANGED <<halted, remaining, routine>>
        /\ left' = [left EXCEPT ![s] = 0]
    BY <1>8 DEF DeleteSignal
  <2>3. registered' \in Seq(Routines)
    BY <2>1, LenProperties DEF RemoveAt, TypeOK
  <2>4. left' \in [Signals -> Nat \cup {Never}]
    BY <2>2 DEF TypeOK
  <2> QED
    BY <1>4, <2>2, <2>3, <2>4 DEF TypeOK
<1>9. ASSUME NEW s \in Signals, NEW rate \in Rates, Awake(s, rate) \/ CRON(s, rate)
      PROVE  TypeOK' /\ Ordered(routine.idle)'
  <2>1. s \in Timers /\ s \in Routines /\ Length[s] \in Nat
    BY <1>9, SignalsType, LengthType DEF Awake, CRON
  <2>2. /\ registered' = Append(registered, s) /\ left' = [left EXCEPT ![s] = rate]
        /\ remaining' = [remaining EXCEPT ![s] = Length[s]] /\ UNCHANGED <<halted, routine>>
    BY <1>9 DEF Awake, CRON, StartTimer
  <2>3. registered' \in Seq(Routines) /\ remaining' \in [Timers -> Nat]
    BY <2>1, <2>2, AppendProperties DEF TypeOK
  <2>4. left' \in [Signals -> Nat \cup {Never}]
    BY <1>1, <2>2 DEF TypeOK
  <2>5. Calling("awake") \/ Calling("CRON")
    BY <1>9 DEF Awake, CRON
  <2> QED
    BY <1>4, <2>2, <2>3, <2>4, <2>5 DEF TypeOK
<1>10. ASSUME NEW s \in Signals, NEW rate \in Rates, Install(s, rate)
       PROVE  TypeOK' /\ Ordered(routine.idle)'
  <2>1. /\ Calling("install") /\ UNCHANGED <<halted, registered, remaining, routine>>
        /\ left' = [left EXCEPT ![s] = rate]
    BY <1>10 DEF Install
  <2>2. left' \in [Signals -> Nat \cup {Never}]
    BY <1>1, <2>1 DEF TypeOK
  <2> QED
    BY <1>4, <2>1, <2>2 DEF TypeOK
<1> QED
  BY <1>2, <1>3, <1>5, <1>6, <1>7, <1>8, <1>9, <1>10 DEF User

LEMMA NextInv == Inv /\ [Next]_vars => Inv'
<1> SUFFICES ASSUME TypeOK, Ordered(routine.idle), [Next]_vars
             PROVE  TypeOK' /\ Ordered(routine.idle)'
  BY DEF Inv
<1>1. CASE UNCHANGED vars
  BY <1>1 DEF vars, processor, clock, machine, bounds, TypeOK
<1> QED
  BY <1>1, StepInv, UserInv DEF Next

\* Every variable of the wait loop keeps its type: only routine signals are
\* registered, queued or idling, and no timer runs below zero.
THEOREM TypeCorrect == Spec => []TypeOK
<1>1. Inv => TypeOK
  BY DEF Inv
<1> QED
  BY <1>1, InitInv, NextInv, PTL DEF Spec

\* Whatever is registered, and in whatever order, the Routine object holds one
\* idle of each class at most and the socket before the time.
THEOREM IdlesOrdered == Spec => []IdleSlots
<1>1. Inv => IdleSlots
  BY DEF Inv, Ordered, IdleSlots
<1> QED
  BY <1>1, InitInv, NextInv, PTL DEF Spec

----------------------------------------------------------------------------
(* The awakes a turn queues and emits.  In the first wait_loop every turn   *)
(* starts from an empty Routine object, and visits each registered signal   *)
(* once: a signal that is still to be visited is not queued.                *)

QueueInv ==
  /\ IsInjective(routine.signals) /\ IsInjective(todo)
  /\ \A s \in Range(todo) : s \notin Range(routine.signals)

DueInv ==
  /\ IsInjective(registered)
  /\ loops = 0 => pc = "main"
  /\ loops = 0 \/ (loops = 1 /\ pc \in {"startup", "routine"}) => routine = Empty
  /\ loops = 1 /\ pc = "routines" => QueueInv
  /\ loops = 1 /\ pc = "emit" => IsInjective(todo)
  /\ pc \in {"startup", "shutdown"} => \A s \in Range(todo) : s \notin Routines
  /\ running # Nobody => pc \in {"startup", "emit", "event", "shutdown"}

LEMMA EmptyQueue == Range(<<>>) = {} /\ IsInjective(<<>>)
BY DEF Range, IsInjective

LEMMA OneInQueue ==
  ASSUME NEW s, s \notin Routines
  PROVE  IsInjective(<<s>>) /\ \A x \in Range(<<s>>) : x \notin Routines
BY DEF Range, IsInjective

LEMMA TailRange ==
  ASSUME NEW S, NEW q \in Seq(S), q # <<>>
  PROVE  Head(q) \in Range(q) /\ Range(q) = {Head(q)} \cup Range(Tail(q))
<1>1. /\ Len(q) \in Nat /\ DOMAIN q = 1..Len(q) /\ 1 \in DOMAIN q /\ Head(q) = q[1]
      /\ DOMAIN Tail(q) = 1..(Len(q) - 1)
      /\ \A i \in 1..(Len(q) - 1) : Tail(q)[i] = q[i + 1]
  BY LenProperties, EmptySeq, HeadTailProperties
<1>2. \A i \in DOMAIN Tail(q) : i + 1 \in DOMAIN q /\ Tail(q)[i] = q[i + 1]
  BY <1>1
<1>3. \A i \in DOMAIN q : i = 1 \/ (i - 1 \in DOMAIN Tail(q) /\ Tail(q)[i - 1] = q[i])
  BY <1>1
<1>4. \A x : x \in Range(q) <=> \E i \in DOMAIN q : q[i] = x
  BY DEF Range
<1>5. \A x : x \in Range(Tail(q)) <=> \E i \in DOMAIN Tail(q) : Tail(q)[i] = x
  BY DEF Range
<1> QED
  BY <1>1, <1>2, <1>3, <1>4, <1>5

\* Visiting the head of todo queues it or does not, and it is not seen again.
LEMMA VisitDue ==
  ASSUME TypeOK, DueInv, NEW s \in Routines, Visits(s),
         UNCHANGED <<registered, loops, pc, running>>, todo' = Tail(todo),
         routine'.signals \in {routine.signals, Append(routine.signals, s)}
  PROVE  DueInv'
<1>1. pc = "routines" /\ todo \in Seq(Signals) /\ todo # <<>> /\ s = Head(todo)
      /\ routine.signals \in Seq(Routines) /\ loops # 0
  BY DEF Visits, TypeOK, DueInv
<1>2. CASE loops # 1
  BY <1>1, <1>2 DEF DueInv
<1>3. CASE loops = 1
  <2>1. /\ IsInjective(todo) /\ \A r \in Range(todo) : r \notin Range(routine.signals)
        /\ IsInjective(routine.signals)
    BY <1>1, <1>3 DEF DueInv, QueueInv
  <2>2. /\ IsInjective(Tail(todo)) /\ Range(Tail(todo)) \subseteq Range(todo)
        /\ s \in Range(todo) /\ s \notin Range(Tail(todo))
    BY <1>1, <2>1, QueueTail
  <2>3. IsInjective(Append(routine.signals, s))
        /\ Range(Append(routine.signals, s)) = Range(routine.signals) \cup {s}
    BY <1>1, <2>1, <2>2, QueueAppend
  <2>4. IsInjective(routine'.signals)
        /\ \A r \in Range(Tail(todo)) : r \notin Range(routine'.signals)
    BY <2>1, <2>2, <2>3
  <2>5. QueueInv'
    BY <2>2, <2>4 DEF QueueInv
  <2> QED
    BY <1>1, <1>3, <2>5 DEF DueInv
<1> QED
  BY <1>2, <1>3

LEMMA RaiseDue ==
  ASSUME DueInv, pc = "routines", Raise, UNCHANGED <<registered, loops>>
  PROVE  DueInv'
BY DEF DueInv, Raise

LEMMA StepDue ==
  ASSUME TypeOK, DueInv, Step \/ SocketEvent \/ Tick
  PROVE  DueInv'
<1>1. CASE EmitNext
  <2>1. /\ todo # <<>> /\ todo \in Seq(Signals) /\ todo' = Tail(todo)
        /\ UNCHANGED <<registered, routine, pc, loops>> /\ pc \in {"startup", "emit", "shutdown"}
    BY <1>1 DEF EmitNext, TypeOK, bounds
  <2>2. /\ Range(Tail(todo)) \subseteq Range(todo)
        /\ IsInjective(todo) => IsInjective(Tail(todo))
    BY <2>1, QueueTail, TailRange
  <2> QED
    BY <2>1, <2>2 DEF DueInv
<1>2. CASE Return \/ Tick
  BY <1>2 DEF Return, Tick, DueInv, QueueInv, processor, machine, bounds
<1>3. CASE Started \/ LoopReturn \/ SocketEvent \/ ChooseIdle
  BY <1>3 DEF Started, LoopReturn, SocketEvent, ChooseIdle, DueInv, processor, bounds
<1>4. CASE RoutineHalted \/ LoopEnd
  <2>1. \A s \in Range(<<SIG_Shutdown>>) : s \notin Routines
    BY OneInQueue, KindsType
  <2>2. /\ UNCHANGED <<registered, routine, running, loops>> /\ pc' = "shutdown"
        /\ todo' = <<SIG_Shutdown>> /\ pc # "main"
    BY <1>4 DEF RoutineHalted, LoopEnd, End, processor, bounds
  <2> QED
    BY <2>1, <2>2 DEF DueInv
<1>5. CASE RoutineStart
  <2>1. /\ UNCHANGED <<registered, routine, loops, running>> /\ pc' = "routines"
        /\ todo' = registered /\ pc = "routine"
    BY <1>5 DEF RoutineStart, processor, bounds
  <2>2. loops = 1 => routine.signals = <<>>
    BY <2>1 DEF DueInv, Empty
  <2>3. loops = 1 => QueueInv'
    BY <2>1, <2>2, EmptyQueue DEF QueueInv, DueInv
  <2> QED
    BY <2>1, <2>3 DEF DueInv
<1>6. CASE RoutineEnd
  <2>1. /\ UNCHANGED <<registered, routine, loops, running>> /\ pc' = "emit"
        /\ todo' = routine.signals /\ pc = "routines"
    BY <1>6 DEF RoutineEnd, processor, bounds
  <2>2. loops = 1 => IsInjective(routine.signals)
    BY <2>1 DEF DueInv, QueueInv
  <2> QED
    BY <2>1, <2>2 DEF DueInv
<1>7. ASSUME NEW s \in Routines, RunAwake(s) PROVE DueInv'
  <2>1. /\ Visits(s) /\ UNCHANGED <<registered, loops, pc, running>> /\ todo' = Tail(todo)
        /\ routine'.signals \in {routine.signals, Append(routine.signals, s)}
    BY <1>7 DEF RunAwake, bounds
  <2> QED
    BY <2>1, VisitDue
<1>8. ASSUME NEW s \in Routines, RunSocket(s) PROVE DueInv'
  <2>1. Visits(s) /\ pc = "routines" /\ UNCHANGED <<registered, loops>>
    BY <1>8 DEF RunSocket, Visits, bounds
  <2>2. CASE Refused(s)
    BY <1>8, <2>1, <2>2, RaiseDue DEF RunSocket
  <2>3. CASE ~Refused(s)
    <3>1. /\ todo' = Tail(todo) /\ UNCHANGED <<pc, running>>
          /\ routine'.signals \in {routine.signals, Append(routine.signals, s)}
      BY <1>8, <2>3 DEF RunSocket
    <3> QED
      BY <2>1, <3>1, VisitDue
  <2> QED
    BY <2>2, <2>3
<1>9. ASSUME NEW s \in Routines, RunCron(s) PROVE DueInv'
  <2>1. Visits(s) /\ pc = "routines" /\ UNCHANGED <<registered, loops>>
    BY <1>9 DEF RunCron, Visits, bounds
  <2>2. CASE remaining[s] # 0
    BY <1>9, <2>1, <2>2, RaiseDue DEF RunCron
  <2>3. CASE remaining[s] = 0
    <3>1. /\ todo' = Tail(todo) /\ UNCHANGED <<pc, running>>
          /\ routine' = [routine EXCEPT !.signals = Append(@, s)]
      BY <1>9, <2>3 DEF RunCron
    <3>2. routine'.signals = Append(routine.signals, s)
      BY <3>1 DEF TypeOK
    <3> QED
      BY <2>1, <3>1, <3>2, VisitDue
  <2> QED
    BY <2>2, <2>3
<1>10. CASE Wake
  BY <1>10 DEF Wake, DueInv, bounds
<1> QED
  BY <1>1, <1>2, <1>3, <1>4, <1>5, <1>6, <1>7, <1>8, <1>9, <1>10 DEF Step

LEMMA UserDue ==
  ASSUME TypeOK, DueInv, User
  PROVE  DueInv'
<1>1. CASE WaitLoop
  <2>1. \A s \in Range(<<SIG_Startup>>) : s \notin Routines
    BY OneInQueue, KindsType
  <2>2. /\ UNCHANGED <<registered, routine, running>> /\ pc = "main" /\ pc' = "startup"
        /\ todo' = <<SIG_Startup>> /\ loops' = loops + 1 /\ loops \in Nat
    BY <1>1 DEF WaitLoop, TypeOK, processor
  <2> QED
    BY <2>1, <2>2 DEF DueInv
<1>2. CASE Catch
  BY <1>2 DEF Catch, DueInv, processor, bounds
<1>3. ASSUME NEW f, Calling(f), UNCHANGED routine, IsInjective(registered)'
      PROVE  DueInv'
  <2>1. UNCHANGED <<pc, todo, running, loops>>
    BY <1>3 DEF Calling, machine
  <2> QED
    BY <1>3, <2>1 DEF DueInv, QueueInv
<1>4. CASE Shutdown
  <2>1. Calling("shutdown") /\ UNCHANGED <<routine, registered>>
    BY <1>4 DEF Shutdown
  <2> QED
    BY <1>3, <2>1 DEF DueInv
<1>5. CASE Flush
  <2>1. Calling("flush") /\ UNCHANGED routine /\ registered' = <<>>
    BY <1>5 DEF Flush
  <2> QED
    BY <1>3, <2>1, EmptyQueue
<1>6. ASSUME NEW s \in Routines, Fresh(s), registered' = Append(registered, s)
      PROVE  IsInjective(registered)'
  <2>1. s \notin Range(registered) /\ IsInjective(registered) /\ registered \in Seq(Routines)
    BY <1>6 DEF Fresh, DueInv, TypeOK
  <2> QED
    BY <1>6, <2>1, QueueAppend
<1>7. ASSUME NEW s \in Routines, Connect(s) PROVE DueInv'
  <2>1. Calling("connect") /\ UNCHANGED routine /\ Fresh(s) /\ registered' = Append(registered, s)
    BY <1>7 DEF Connect
  <2> QED
    BY <1>3, <1>6, <2>1
<1>8. ASSUME NEW s \in Routines, DeleteSignal(s) PROVE DueInv'
  <2>1. PICK i \in DOMAIN registered : registered' = RemoveAt(registered, i)
    BY <1>8 DEF DeleteSignal
  <2>2. Calling("delete_signal") /\ UNCHANGED routine
    BY <1>8 DEF DeleteSignal
  <2>3. \A m, n \in DOMAIN registered : registered[m] = registered[n] => m = n
    BY DEF DueInv, IsInjective
  <2>4. IsInjective(RemoveAt(registered, i))
    BY <2>3, RemoveAtMembers DEF TypeOK, IsInjective
  <2> QED
    BY <1>3, <2>1, <2>2, <2>4
<1>9. ASSUME NEW s \in Signals, NEW rate \in Rates, Awake(s, rate) \/ CRON(s, rate)
      PROVE  DueInv'
  <2>1. s \in Routines /\ Fresh(s) /\ registered' = Append(registered, s) /\ UNCHANGED routine
    BY <1>9, SignalsType DEF Awake, CRON, StartTimer
  <2>2. Calling("awake") \/ Calling("CRON")
    BY <1>9 DEF Awake, CRON
  <2> QED
    BY <1>3, <1>6, <2>1, <2>2
<1>10. ASSUME NEW s \in Signals, NEW rate \in Rates, Install(s, rate) PROVE DueInv'
  <2>1. Calling("install") /\ UNCHANGED <<registered, routine>>
    BY <1>10 DEF Install
  <2> QED
    BY <1>3, <2>1 DEF DueInv
<1> QED
  BY <1>1, <1>2, <1>4, <1>5, <1>7, <1>8, <1>9, <1>10 DEF User

LEMMA DueInit == Init => DueInv
BY EmptyQueue DEF Init, DueInv

LEMMA DueNext ==
  ASSUME TypeOK, DueInv, [Next]_vars
  PROVE  DueInv'
<1>1. CASE UNCHANGED vars
  BY <1>1 DEF vars, processor, machine, bounds, DueInv, QueueInv
<1> QED
  BY <1>1, StepDue, UserDue DEF Next

----------------------------------------------------------------------------
(* The first wait_loop implements Timers.                                  *)

LEMMA DueIs ==
  /\ pc = "routines" => due = Awakes \cap Range(routine.signals)
  /\ pc = "emit" => due = Awakes \cap Range(todo)
  /\ pc \notin {"routines", "emit"} => due = {}
BY DEF due

LEMMA DueIsNext ==
  /\ pc' = "routines" => due' = Awakes \cap Range(routine'.signals)
  /\ pc' = "emit" => due' = Awakes \cap Range(todo')
  /\ pc' \notin {"routines", "emit"} => due' = {}
BY DEF due

\* What does not concern the awakes.
LEMMA TimersStay ==
  /\ UNCHANGED remaining => UNCHANGED awaited
  /\ UNCHANGED left => UNCHANGED alive
  /\ UNCHANGED running \/ (running \notin Awakes /\ running' \notin Awakes) => UNCHANGED firing
  /\ UNCHANGED <<pc, todo, routine>> => UNCHANGED <<due, failed>>
BY DEF awaited, alive, firing, due, failed, Exhausted

LEMMA OthersStay ==
  ASSUME TypeOK, NEW s, s \notin Awakes
  PROVE  /\ \A n : left' = [left EXCEPT ![s] = n] => UNCHANGED alive
         /\ \A n : remaining' = [remaining EXCEPT ![s] = n] => UNCHANGED awaited
<1>1. Awakes \subseteq Signals /\ Awakes \subseteq Timers
  BY SignalsType
<1> QED
  BY <1>1 DEF TypeOK, alive, awaited, Exhausted

LEMMA AwakeAlone == \A s \in Awakes : s \notin Sockets /\ s \notin Crons /\ s # Nobody /\ s \in Signals /\ s \in Timers
BY SignalsType, KindsType

LEMMA EmitNextTimers ==
  ASSUME TypeOK, DueInv, EmitNext, loops <= 1
  PROVE  T!Next \/ UNCHANGED T!vars
<1>1. PICK s : s = Head(todo)
  OBVIOUS
<1>2. /\ pc \in {"startup", "emit", "shutdown"} /\ running = Nobody /\ todo # <<>>
      /\ todo \in Seq(Signals) /\ todo' = Tail(todo) /\ s \in Range(todo) /\ s \in Signals
      /\ UNCHANGED <<routine, remaining, pc>> /\ loops = 1
      /\ Range(todo) = {s} \cup Range(Tail(todo))
  BY <1>1, TailRange, HeadTailType DEF EmitNext, TypeOK, DueInv, clock
<1>3. firing = Nobody /\ UNCHANGED <<awaited, failed>>
  BY <1>2, TimersStay, KindsType DEF firing, failed, Signals, Routines, Timers
<1>4. CASE s \notin Awakes
  <2>1. UNCHANGED alive
    <3>1. \/ UNCHANGED left
          \/ \E n : left' = [left EXCEPT ![s] = n]
      BY <1>1 DEF EmitNext, Emits
    <3> QED
      BY <1>4, <3>1, TimersStay, OthersStay
  <2>2. UNCHANGED firing
    BY <1>1, <1>2, <1>4, KindsType DEF firing, EmitNext, Emits, Signals, Routines, Timers
  <2>3. UNCHANGED due
    BY <1>2, <1>4, DueIs, DueIsNext
  <2> QED
    BY <1>3, <2>1, <2>2, <2>3 DEF T!vars
<1>5. CASE s \in Awakes
  <2>1. pc = "emit" /\ s \notin Sockets /\ s # Nobody
    BY <1>2, <1>5, AwakeAlone, SignalsType DEF DueInv
  <2>2. s \notin Range(Tail(todo))
    BY <1>1, <1>2, <2>1, QueueTail DEF DueInv
  <2>3. s \in due /\ due' = due \ {s}
    BY <1>2, <1>5, <2>1, <2>2, DueIs, DueIsNext
  <2>4. CASE Exhausted(s)
    <3>1. UNCHANGED <<alive, firing>> /\ s \notin alive
      BY <1>1, <2>4, TimersStay DEF EmitNext, Emits, alive
    <3> QED
      BY <1>3, <1>5, <2>3, <3>1 DEF T!Next, T!Drop
  <2>5. CASE ~Exhausted(s)
    <3>1. /\ running' = s /\ s \in alive
          /\ left' = [left EXCEPT ![s] = IF left[s] = Never THEN Never ELSE left[s] - 1]
      BY <1>1, <1>5, <2>1, <2>5 DEF EmitNext, Emits, alive
    <3>2. firing' = s
      BY <1>5, <3>1 DEF firing
    <3>3. \A t \in Awakes \ {s} : left'[t] = left[t]
      BY <3>1, AwakeAlone DEF TypeOK
    <3>4. alive' \ {s} = alive \ {s} /\ alive' \subseteq Awakes /\ alive \subseteq Awakes
      BY <3>3 DEF alive, Exhausted
    <3>5. alive' \in {alive, alive \ {s}}
      BY <3>1, <3>4
    <3> QED
      BY <1>3, <1>5, <2>3, <3>1, <3>2, <3>5 DEF T!Next, T!Fire
  <2> QED
    BY <2>4, <2>5
<1> QED
  BY <1>4, <1>5

LEMMA RunAwakeTimers ==
  ASSUME TypeOK, DueInv, NEW s \in Routines, RunAwake(s), loops <= 1
  PROVE  T!Next \/ UNCHANGED T!vars
<1>1. /\ pc = "routines" /\ s \in Awakes /\ UNCHANGED <<pc, left, running>>
      /\ todo # <<>> /\ s = Head(todo) /\ todo \in Seq(Signals) /\ loops = 1
  BY DEF RunAwake, Visits, TypeOK, DueInv
<1>2. UNCHANGED <<alive, firing, failed>>
  BY <1>1, TimersStay DEF failed
<1>3. due = Awakes \cap Range(routine.signals) /\ due' = Awakes \cap Range(routine'.signals)
  BY <1>1, DueIs, DueIsNext
<1>4. CASE remaining[s] # 0
  <2>1. routine'.signals = routine.signals /\ UNCHANGED remaining
    BY <1>4 DEF RunAwake
  <2> QED
    BY <1>2, <1>3, <2>1, TimersStay DEF T!vars
<1>5. CASE remaining[s] = 0
  <2>1. /\ routine'.signals = Append(routine.signals, s)
        /\ remaining' = [remaining EXCEPT ![s] = Length[s]]
    BY <1>5 DEF RunAwake
  <2>2. s \notin Range(routine.signals) /\ IsInjective(routine.signals)
    BY <1>1, TailRange DEF DueInv, QueueInv
  <2>3. Range(routine'.signals) = Range(routine.signals) \cup {s}
    BY <2>1, <2>2, QueueAppend DEF TypeOK
  <2>4. s \notin due /\ due' = due \cup {s}
    BY <1>1, <1>3, <2>2, <2>3
  <2>5. awaited[s] = 0 /\ awaited' = [awaited EXCEPT ![s] = Length[s]]
    BY <1>1, <1>5, <2>1, AwakeAlone DEF awaited, TypeOK
  <2> QED
    BY <1>1, <1>2, <2>4, <2>5 DEF T!Next, T!Pass
<1> QED
  BY <1>4, <1>5

LEMMA RaiseTimers ==
  ASSUME DueInv, pc = "routines", Raise, UNCHANGED <<remaining, left>>
  PROVE  T!Next
<1>1. pc' = "raised" /\ running = Nobody /\ running' = Nobody
  BY DEF Raise, DueInv
<1>2. UNCHANGED <<awaited, alive, firing>>
  BY <1>1, TimersStay
<1>3. due' = {} /\ ~failed /\ failed' = TRUE
  BY <1>1, DueIsNext DEF failed
<1> QED
  BY <1>2, <1>3 DEF T!Next, T!Fail

LEMMA RunOtherTimers ==
  ASSUME TypeOK, DueInv, NEW s \in Routines, RunSocket(s) \/ RunCron(s), loops <= 1
  PROVE  T!Next \/ UNCHANGED T!vars
<1>1. /\ pc = "routines" /\ s \notin Awakes /\ UNCHANGED left /\ loops = 1
      /\ routine.signals \in Seq(Routines) /\ todo # <<>> /\ s = Head(todo) /\ todo \in Seq(Signals)
  BY KindsType DEF RunSocket, RunCron, Visits, TypeOK, DueInv
<1>2. s \notin Range(routine.signals) /\ IsInjective(routine.signals)
  BY <1>1, TailRange DEF DueInv, QueueInv
<1>3. ASSUME routine'.signals \in {routine.signals, Append(routine.signals, s)}, UNCHANGED <<pc, running>>
      PROVE  UNCHANGED <<due, alive, firing, failed>>
  <2>1. Range(Append(routine.signals, s)) = Range(routine.signals) \cup {s}
    BY <1>1, <1>2, QueueAppend
  <2> QED
    BY <1>1, <1>3, <2>1, DueIs, DueIsNext, TimersStay DEF failed
<1>4. CASE RunSocket(s)
  <2>1. UNCHANGED remaining
    BY <1>4 DEF RunSocket, clock
  <2>2. CASE Refused(s)
    BY <1>1, <1>4, <2>1, <2>2, RaiseTimers DEF RunSocket
  <2>3. CASE ~Refused(s)
    <3>1. routine'.signals \in {routine.signals, Append(routine.signals, s)} /\ UNCHANGED <<pc, running>>
      BY <1>4, <2>3 DEF RunSocket
    <3> QED
      BY <1>3, <2>1, <3>1, TimersStay DEF T!vars
  <2> QED
    BY <2>2, <2>3
<1>5. CASE RunCron(s)
  <2>1. CASE remaining[s] # 0
    BY <1>1, <1>5, <2>1, RaiseTimers DEF RunCron
  <2>2. CASE remaining[s] = 0
    <3>1. /\ routine' = [routine EXCEPT !.signals = Append(@, s)] /\ UNCHANGED <<pc, running>>
          /\ remaining' = [remaining EXCEPT ![s] = Length[s]]
      BY <1>5, <2>2 DEF RunCron
    <3>2. routine'.signals = Append(routine.signals, s)
      BY <3>1 DEF TypeOK
    <3>3. UNCHANGED awaited
      BY <1>1, <3>1, OthersStay
    <3> QED
      BY <1>3, <3>1, <3>2, <3>3 DEF T!vars
  <2> QED
    BY <2>1, <2>2
<1> QED
  BY <1>4, <1>5

LEMMA StepTimers ==
  ASSUME TypeOK, DueInv, Step \/ SocketEvent \/ Tick, loops <= 1
  PROVE  T!Next \/ UNCHANGED T!vars
<1>1. CASE EmitNext
  BY <1>1, EmitNextTimers
<1>2. CASE \E s \in Routines : RunAwake(s) \/ RunSocket(s) \/ RunCron(s)
  BY <1>2, RunAwakeTimers, RunOtherTimers
<1>3. CASE Return
  <2>1. /\ running # Nobody /\ running' = Nobody /\ UNCHANGED <<remaining, left, pc, todo, routine>>
    BY <1>3 DEF Return, processor, clock
  <2>2. UNCHANGED <<awaited, alive, due, failed>>
    BY <2>1, TimersStay
  <2>3. firing' = Nobody
    BY <2>1 DEF firing
  <2> QED
    BY <2>2, <2>3 DEF T!vars, T!Next, T!Return
<1>4. CASE Tick
  <2>1. /\ UNCHANGED <<left, pc, todo, routine, running>>
        /\ remaining' = [t \in Timers |-> IF remaining[t] = 0 THEN 0 ELSE remaining[t] - 1]
    BY <1>4 DEF Tick, processor, machine
  <2>2. UNCHANGED <<alive, due, failed, firing>>
    BY <2>1, TimersStay
  <2>3. awaited' = [t \in Awakes |-> IF awaited[t] = 0 THEN 0 ELSE awaited[t] - 1]
    BY <2>1, AwakeAlone DEF awaited
  <2> QED
    BY <2>2, <2>3 DEF T!Next, T!Tick
<1>5. CASE SocketEvent
  <2>1. /\ UNCHANGED <<remaining, left>> /\ pc = "idle" /\ pc' = "event"
        /\ running = Nobody /\ running' \in Sockets
    BY <1>5 DEF SocketEvent, processor
  <2>2. UNCHANGED firing
    BY <2>1, AwakeAlone, TimersStay
  <2> QED
    BY <2>1, <2>2, DueIs, DueIsNext, TimersStay DEF T!vars, failed
<1>6. CASE Started \/ RoutineHalted \/ ChooseIdle \/ LoopEnd \/ Wake \/ LoopReturn
  <2>1. /\ UNCHANGED <<remaining, left, running>> /\ pc \in {"startup", "routine", "emit", "idle", "event", "shutdown"}
        /\ pc' \in {"routine", "idle", "shutdown", "main"} /\ (pc = "emit" => todo = <<>>)
    BY <1>6 DEF Started, RoutineHalted, ChooseIdle, LoopEnd, End, Wake, LoopReturn, processor, clock
  <2>2. due = {} /\ due' = {}
    BY <2>1, DueIs, DueIsNext, EmptyQueue
  <2> QED
    BY <2>1, <2>2, TimersStay DEF T!vars, failed
<1>7. CASE RoutineStart
  <2>1. /\ UNCHANGED <<remaining, left, running, routine>> /\ pc = "routine" /\ pc' = "routines" /\ loops = 1
    BY <1>7 DEF RoutineStart, processor, clock, DueInv, TypeOK
  <2>2. routine.signals = <<>>
    BY <2>1 DEF DueInv, Empty
  <2>3. due = {} /\ due' = {}
    BY <2>1, <2>2, DueIs, DueIsNext, EmptyQueue
  <2> QED
    BY <2>1, <2>3, TimersStay DEF T!vars, failed
<1>8. CASE RoutineEnd
  <2>1. /\ UNCHANGED <<remaining, left, running>> /\ pc = "routines" /\ pc' = "emit"
        /\ todo' = routine.signals
    BY <1>8 DEF RoutineEnd, processor, clock
  <2> QED
    BY <2>1, DueIs, DueIsNext, TimersStay DEF T!vars, failed
<1> QED
  BY <1>1, <1>2, <1>3, <1>4, <1>5, <1>6, <1>7, <1>8 DEF Step

LEMMA UserTimers ==
  ASSUME TypeOK, DueInv, User
  PROVE  T!Next \/ UNCHANGED T!vars
<1>1. CASE WaitLoop
  <2>1. UNCHANGED <<remaining, left, running>> /\ pc = "main" /\ pc' = "startup"
    BY <1>1 DEF WaitLoop, processor, clock
  <2> QED
    BY <2>1, DueIs, DueIsNext, TimersStay DEF T!vars, failed
<1>2. CASE Catch
  <2>1. UNCHANGED <<remaining, left, running>> /\ pc = "raised" /\ pc' = "main"
    BY <1>2 DEF Catch, processor, clock
  <2>2. UNCHANGED <<awaited, alive, firing, due>> /\ failed /\ failed' = FALSE
    BY <2>1, DueIs, DueIsNext, TimersStay DEF failed
  <2> QED
    BY <2>2 DEF T!Next, T!Catch
<1>3. ASSUME NEW f, Calling(f), UNCHANGED routine
      PROVE  UNCHANGED <<due, firing, failed>>
  BY <1>3, TimersStay DEF Calling, machine
<1>4. CASE Shutdown
  BY <1>3, <1>4, TimersStay DEF Shutdown, T!vars
<1>5. ASSUME UNCHANGED <<due, firing, failed, remaining>>, alive' \subseteq alive
      PROVE  T!Next
  BY <1>5, TimersStay DEF T!Next, T!Delete
<1>6. CASE Flush
  <2>1. left' = [s \in Signals |-> 0] /\ Calling("flush") /\ UNCHANGED <<remaining, routine>>
    BY <1>6 DEF Flush
  <2>2. alive' = {}
    BY <2>1, AwakeAlone DEF alive, Exhausted
  <2> QED
    BY <1>3, <1>5, <2>1, <2>2
<1>7. ASSUME NEW s \in Routines, DeleteSignal(s) PROVE T!Next
  <2>1. left' = [left EXCEPT ![s] = 0] /\ Calling("delete_signal") /\ UNCHANGED <<remaining, routine>>
    BY <1>7 DEF DeleteSignal
  <2>2. alive' \subseteq alive
    BY <2>1, AwakeAlone DEF alive, Exhausted, TypeOK
  <2> QED
    BY <1>3, <1>5, <2>1, <2>2
<1>8. ASSUME NEW s \in Routines, Connect(s) PROVE UNCHANGED T!vars
  <2>1. /\ left' = [left EXCEPT ![s] = Never] /\ Calling("connect") /\ s \notin Awakes
        /\ UNCHANGED <<remaining, routine>>
    BY <1>8, KindsType DEF Connect
  <2> QED
    BY <1>3, <2>1, TimersStay, OthersStay DEF T!vars
<1>9. ASSUME NEW s \in Awakes, NEW rate \in Rates, left' = [left EXCEPT ![s] = rate]
      PROVE  alive' = alive \cup {s}
  <2>1. rate # 0
    BY RatesType
  <2> QED
    BY <1>9, <2>1, AwakeAlone DEF alive, Exhausted, TypeOK
<1>10. ASSUME NEW s \in Signals, NEW rate \in Rates, Awake(s, rate) PROVE T!Next
  <2>1. /\ Calling("awake") /\ s \in Awakes /\ Fresh(s) /\ left' = [left EXCEPT ![s] = rate]
        /\ remaining' = [remaining EXCEPT ![s] = Length[s]] /\ UNCHANGED routine
    BY <1>10 DEF Awake, StartTimer
  <2>2. alive' = alive \cup {s} /\ UNCHANGED <<due, firing, failed>>
    BY <1>3, <1>9, <2>1
  <2>3. s \notin due /\ firing # s
    BY <2>1, AwakeAlone DEF Fresh, due, firing
  <2>4. awaited' = [awaited EXCEPT ![s] = Length[s]]
    BY <2>1, AwakeAlone DEF awaited, TypeOK
  <2> QED
    BY <2>1, <2>2, <2>3, <2>4 DEF T!Next, T!Start
<1>11. ASSUME NEW s \in Signals, NEW rate \in Rates, CRON(s, rate) PROVE UNCHANGED T!vars
  <2>1. /\ Calling("CRON") /\ s \notin Awakes /\ left' = [left EXCEPT ![s] = rate]
        /\ remaining' = [remaining EXCEPT ![s] = Length[s]] /\ UNCHANGED routine
    BY <1>11, KindsType DEF CRON, StartTimer
  <2> QED
    BY <1>3, <2>1, OthersStay DEF T!vars
<1>12. ASSUME NEW s \in Signals, NEW rate \in Rates, Install(s, rate)
       PROVE  T!Next \/ UNCHANGED T!vars
  <2>1. /\ Calling("install") /\ left' = [left EXCEPT ![s] = rate] /\ UNCHANGED <<remaining, routine>>
    BY <1>12 DEF Install
  <2>2. UNCHANGED <<due, firing, failed, awaited>>
    BY <1>3, <2>1, TimersStay
  <2>3. CASE s \in Awakes
    BY <1>9, <2>1, <2>2, <2>3 DEF T!Next, T!Install
  <2>4. CASE s \notin Awakes
    BY <2>1, <2>2, <2>4, OthersStay DEF T!vars
  <2> QED
    BY <2>3, <2>4
<1> QED
  BY <1>1, <1>2, <1>4, <1>6, <1>7, <1>8, <1>10, <1>11, <1>12 DEF User

LEMMA TimersNext ==
  ASSUME TypeOK, DueInv, [Next]_vars
  PROVE  loops' <= 1 => T!Next \/ UNCHANGED T!vars
<1>1. CASE UNCHANGED vars
  <2>1. UNCHANGED <<remaining, left, running, pc, todo, routine>>
    BY <1>1 DEF vars, processor, clock, machine
  <2> QED
    BY <2>1, TimersStay DEF T!vars
<1>2. CASE Step \/ SocketEvent \/ Tick
  <2>1. UNCHANGED loops
    BY <1>2 DEF Step, SocketEvent, Tick, EmitNext, Started, RoutineHalted, RoutineStart, RunAwake,
                RunSocket, RunCron, RoutineEnd, ChooseIdle, LoopEnd, Wake, LoopReturn, Return, bounds
  <2> QED
    BY <1>2, <2>1, StepTimers
<1>3. CASE User
  BY <1>3, UserTimers
<1> QED
  BY <1>1, <1>2, <1>3 DEF Next

LEMMA TimersInit == Init => T!Init
<1> SUFFICES ASSUME Init PROVE T!Init
  OBVIOUS
<1>1. awaited = [t \in Awakes |-> 0] /\ alive = {}
  BY AwakeAlone DEF Init, awaited, alive, Exhausted
<1>2. due = {} /\ firing = Nobody /\ failed = FALSE
  BY DueIs DEF Init, firing, failed
<1> QED
  BY <1>1, <1>2 DEF T!Init

\* In the first wait_loop, for any awakes, sockets and crons and whatever
\* processes register, install, delete and flush: a process of an awake runs
\* once for each time that has passed and never before, and unless an exception
\* leaves the loop none is forgotten as long as it has a process. The routines,
\* the Routine object and the queue of wait_loop implement Timers.
THEOREM LoopImplementsTimers == Spec => TimersSpec
<1>1. Init => Inv /\ DueInv /\ T!Init
  BY InitInv, DueInit, TimersInit
<1>2. (Inv /\ DueInv) /\ [Next]_vars => (Inv /\ DueInv)'
  BY NextInv, DueNext DEF Inv
<1>3. (Inv /\ DueInv) /\ [Next]_vars => [loops' <= 1 => T!Next]_(T!vars)
  BY TimersNext DEF Inv
<1> QED
  BY <1>1, <1>2, <1>3, PTL DEF Spec, TimersSpec

----------------------------------------------------------------------------
(* How long the program sleeps.  The Time idle of the Routine object has   *)
(* no more left than any awake it was compared with, as long as the clock  *)
(* stands still while the routines run; it passes at the pace of the       *)
(* others from then on.                                                    *)

Times(idle) == {r \in Range(idle) : Class(r) = "Time"}

\* No awake is timed in milliseconds or waits for no time at all.
WholeSeconds == Milli = {} /\ \A a \in Awakes : Length[a] > 0

LEMMA TimesType ==
  ASSUME TypeOK, NEW u \in Times(routine.idle)
  PROVE  u \in Timers /\ u \notin Sockets /\ remaining[u] \in Nat
<1>1. u \in Routines /\ u \notin Sockets
  BY ElementOfSeq, LenProperties DEF Times, Range, Class, TypeOK
<1> QED
  BY <1>1 DEF Routines, TypeOK

LEMMA OneTime ==
  ASSUME NEW idle \in Seq(Routines), Ordered(idle),
         NEW u \in Times(idle), NEW v \in Times(idle)
  PROVE  u = v
<1>1. PICK i \in DOMAIN idle : idle[i] = u
  BY DEF Times, Range
<1>2. PICK j \in DOMAIN idle : idle[j] = v
  BY DEF Times, Range
<1>3. Priority(idle[i]) = 2 /\ Priority(idle[j]) = 2
  BY <1>1, <1>2 DEF Times, Priority
<1>4. i \in Int /\ j \in Int
  BY LenProperties
<1>5. ~(i < j) /\ ~(j < i)
  BY <1>3 DEF Ordered
<1> QED
  BY <1>1, <1>2, <1>4, <1>5

\* Of an awake and the Time idle there was, add_idle leaves the one that
\* Time::override prefers.
LEMMA AddIdleTimes ==
  ASSUME NEW idle \in Seq(Routines), Ordered(idle),
         NEW s \in Routines, s \notin Sockets, NEW time
  PROVE  \E u \in Times(AddIdle(idle, s, time)) :
           \/ u = s /\ \A o \in Times(idle) : Override(o, s, time)
           \/ u \in Times(idle) /\ ~Override(u, s, time)
<1>0. Class(s) = "Time" /\ DOMAIN idle = 1..Len(idle) /\ Len(idle) \in Nat
  BY LenProperties DEF Class
<1>1. CASE Slot(idle, s) = {}
  <2>1. Times(idle) = {}
    BY <1>0, <1>1 DEF Times, Slot, Range
  <2>2. s \in Range(AddIdle(idle, s, time))
    <3>1. s \in Range(Append(idle, s))
      <4>1. Len(idle) + 1 \in DOMAIN Append(idle, s) /\ Append(idle, s)[Len(idle) + 1] = s
        BY <1>0, AppendProperties
      <4> QED
        BY <4>1 DEF Range
    <3>2. s \in Range(<<s>> \o idle)
      <4>1. Len(<<s>>) = 1 /\ <<s>>[1] = s /\ <<s>> \in Seq(Routines)
        OBVIOUS
      <4>2. 1 \in DOMAIN (<<s>> \o idle) /\ (<<s>> \o idle)[1] = s
        BY <1>0, <4>1, ConcatProperties
      <4> QED
        BY <4>2 DEF Range
    <3> QED
      BY <1>1, <3>1, <3>2 DEF AddIdle
  <2> QED
    BY <1>0, <2>1, <2>2 DEF Times
<1>2. CASE Slot(idle, s) # {}
  <2>1. PICK i \in DOMAIN idle : Class(idle[i]) = "Time" /\ i \in Slot(idle, s)
    BY <1>0, <1>2 DEF Slot
  <2>2. idle[i] \in Times(idle) /\ \A o \in Times(idle) : o = idle[i]
    <3>1. idle[i] \in Times(idle)
      BY <2>1 DEF Times, Range
    <3> QED
      BY <3>1, OneTime
  <2>3. DOMAIN AddIdle(idle, s, time) = DOMAIN idle
        /\ AddIdle(idle, s, time)[i] = IF Override(idle[i], s, time) THEN s ELSE idle[i]
    BY <1>2, <2>1 DEF AddIdle
  <2>4. AddIdle(idle, s, time)[i] \in Range(AddIdle(idle, s, time))
    BY <2>3 DEF Range
  <2>5. CASE Override(idle[i], s, time)
    BY <1>0, <2>2, <2>3, <2>4, <2>5 DEF Times
  <2>6. CASE ~Override(idle[i], s, time)
    BY <2>1, <2>2, <2>3, <2>4, <2>6 DEF Times
  <2> QED
    BY <2>5, <2>6
<1> QED
  BY <1>1, <1>2

\* A socket's idle leaves the Time idle where it is.
LEMMA AddIdleSocket ==
  ASSUME NEW idle \in Seq(Routines), NEW s \in Sockets, s \in Routines,
         Slot(idle, s) = {}, NEW time
  PROVE  Times(AddIdle(idle, s, time)) = Times(idle)
<1>0. Class(s) # "Time" /\ DOMAIN idle = 1..Len(idle) /\ Len(idle) \in Nat
  BY LenProperties DEF Class
<1>1. Range(Append(idle, s)) = Range(idle) \cup {s}
  <2>1. /\ DOMAIN Append(idle, s) = 1..(Len(idle) + 1)
        /\ \A i \in 1..Len(idle) : Append(idle, s)[i] = idle[i]
        /\ Append(idle, s)[Len(idle) + 1] = s
    BY <1>0, AppendProperties
  <2>2. \A i \in 1..(Len(idle) + 1) : Append(idle, s)[i] \in Range(idle) \cup {s}
    BY <1>0, <2>1 DEF Range
  <2>3. \A i \in 1..Len(idle) : idle[i] \in Range(Append(idle, s))
    <3>1. \A i \in 1..Len(idle) : i \in DOMAIN Append(idle, s)
      BY <1>0, <2>1
    <3> QED
      BY <2>1, <3>1 DEF Range
  <2>4. s \in Range(Append(idle, s))
    <3>1. Len(idle) + 1 \in DOMAIN Append(idle, s)
      BY <1>0, <2>1
    <3> QED
      BY <2>1, <3>1 DEF Range
  <2> QED
    BY <1>0, <2>1, <2>2, <2>3, <2>4 DEF Range
<1>2. Range(<<s>> \o idle) = Range(idle) \cup {s}
  <2>1. Len(<<s>>) = 1 /\ <<s>>[1] = s /\ <<s>> \in Seq(Routines)
    OBVIOUS
  <2> DEFINE c == <<s>> \o idle
  <2>2. /\ DOMAIN c = 1..(Len(idle) + 1) /\ c[1] = s
        /\ \A i \in 2..(Len(idle) + 1) : c[i] = idle[i - 1]
    BY <1>0, <2>1, ConcatProperties
  <2> HIDE DEF c
  <2>3. \A i \in 1..(Len(idle) + 1) : c[i] \in Range(idle) \cup {s}
    <3>1. \A i \in 2..(Len(idle) + 1) : i - 1 \in DOMAIN idle
      BY <1>0
    <3>2. \A i \in 2..(Len(idle) + 1) : c[i] \in Range(idle)
      BY <2>2, <3>1 DEF Range
    <3>3. \A i \in 1..(Len(idle) + 1) : i = 1 \/ i \in 2..(Len(idle) + 1)
      BY <1>0
    <3> QED
      BY <2>2, <3>2, <3>3
  <2>4. ASSUME NEW i \in 1..Len(idle) PROVE idle[i] \in Range(c)
    <3>1. i + 1 \in DOMAIN c /\ c[i + 1] = idle[i]
      BY <1>0, <2>2
    <3> QED
      BY <3>1 DEF Range
  <2>5. s \in Range(c)
    <3>1. 1 \in DOMAIN c
      BY <1>0, <2>2
    <3> QED
      BY <2>2, <3>1 DEF Range
  <2>6. Range(c) = Range(idle) \cup {s}
    BY <1>0, <2>2, <2>3, <2>4, <2>5 DEF Range
  <2> QED
    BY <2>6 DEF c
<1>3. AddIdle(idle, s, time) \in {Append(idle, s), <<s>> \o idle}
  BY DEF AddIdle
<1>4. Range(AddIdle(idle, s, time)) = Range(idle) \cup {s}
  BY <1>1, <1>2, <1>3
<1> QED
  BY <1>0, <1>4 DEF Times

IdleInv ==
  /\ \A a \in Timers : remaining[a] <= Length[a]
  /\ pc \in {"routines", "emit"} /\ consulted # {} =>
       \E u \in Times(routine.idle) :
         /\ pc = "routines" => remaining[u] > 0
         /\ \A s \in consulted : remaining[u] <= remaining[s]
  /\ pc = "idle" => \A s \in consulted : deadline <= remaining[s]

LEMMA RunAwakeIdle ==
  ASSUME WholeSeconds, TypeOK, Ordered(routine.idle), IdleInv, NEW s \in Routines, RunAwake(s)
  PROVE  IdleInv'
<1> DEFINE time == IF remaining[s] = 0 THEN [remaining EXCEPT ![s] = Length[s]] ELSE remaining
<1>1. /\ s \in Awakes /\ s \in Timers /\ s \notin Sockets
      /\ Length[s] \in Nat /\ Length[s] > 0
  BY SignalsType, LengthType, KindsType DEF RunAwake, WholeSeconds
<1>2. /\ remaining' = time /\ consulted' = consulted \cup {s}
      /\ pc = "routines" /\ pc' = "routines"
      /\ routine'.idle = AddIdle(routine.idle, s, time)
  BY DEF RunAwake, Visits
<1>3. time \in [Timers -> Nat] /\ time[s] > 0 /\ \A r \in Timers : r # s => time[r] = remaining[r]
  BY <1>1 DEF TypeOK
<1>4. \A a \in Timers : time[a] <= Length[a]
  BY <1>1 DEF TypeOK, IdleInv
<1>5. remaining[s] # 0 => time = remaining
  OBVIOUS
<1> HIDE DEF time
<1>6. PICK u \in Times(AddIdle(routine.idle, s, time)) :
        \/ u = s /\ \A o \in Times(routine.idle) : Override(o, s, time)
        \/ u \in Times(routine.idle) /\ ~Override(u, s, time)
  BY <1>1, AddIdleTimes DEF TypeOK
<1>7. \A r : Tenths(r, time) = 10 * time[r]
  BY DEF WholeSeconds, Tenths
<1>8. consulted \subseteq Timers
  BY SignalsType DEF TypeOK
<1>9. ASSUME u \in Times(routine.idle), ~Override(u, s, time)
      PROVE  u \in Timers /\ time[u] > 0 /\ time[u] <= time[s]
  <2>1. u \in Timers
    BY <1>9, TimesType
  <2>2. time[u] # 0 /\ ~(Tenths(s, time) < Tenths(u, time))
    BY <1>9 DEF Override
  <2> QED
    BY <1>1, <1>3, <1>7, <2>1, <2>2
<1>10. time[u] > 0 /\ time[u] <= time[s]
  <2>1. CASE u = s
    BY <1>1, <1>3, <2>1
  <2> QED
    BY <1>6, <1>9, <2>1
<1>11. ASSUME NEW r \in consulted PROVE time[u] <= time[r]
  <2>1. PICK o \in Times(routine.idle) :
          remaining[o] > 0 /\ \A q \in consulted : remaining[o] <= remaining[q]
    BY <1>2, <1>11 DEF IdleInv
  <2>2. o \in Timers /\ r \in Timers /\ remaining[o] \in Nat /\ remaining[r] \in Nat
    BY <1>8, <1>11, <2>1, TimesType DEF TypeOK
  <2>3. remaining[o] <= remaining[r] /\ remaining[r] > 0
    BY <1>11, <2>1, <2>2
  <2>4. time[o] = remaining[o] /\ time[r] = remaining[r]
    BY <1>3, <1>5, <2>1, <2>2, <2>3
  <2>5. CASE u = s /\ \A x \in Times(routine.idle) : Override(x, s, time)
    <3>1. time[o] = 0 \/ 10 * time[s] < 10 * time[o]
      BY <1>7, <2>1, <2>5 DEF Override
    <3>2. time[s] <= time[o]
      BY <1>1, <1>3, <2>1, <2>2, <2>4, <3>1
    <3> QED
      BY <1>1, <1>3, <2>2, <2>3, <2>4, <2>5, <3>2
  <2>6. CASE u \in Times(routine.idle) /\ ~Override(u, s, time)
    <3>1. u = o
      BY <2>6, OneTime DEF TypeOK
    <3> QED
      BY <2>3, <2>4, <3>1
  <2> QED
    BY <1>6, <2>5, <2>6
<1>12. \A r \in consulted' : remaining'[u] <= remaining'[r]
  BY <1>2, <1>10, <1>11
<1> QED
  BY <1>2, <1>4, <1>6, <1>10, <1>12 DEF IdleInv

LEMMA RunSocketIdle ==
  ASSUME TypeOK, IdleInv, NEW s \in Routines, RunSocket(s)
  PROVE  IdleInv'
<1>1. UNCHANGED <<remaining, deadline, consulted>> /\ pc = "routines" /\ s \in Sockets
  BY DEF RunSocket, Visits, clock
<1>2. CASE Refused(s)
  <2>1. pc' = "raised"
    BY <1>2 DEF RunSocket, Raise
  <2> QED
    BY <1>1, <2>1 DEF IdleInv
<1>3. CASE ~Refused(s)
  <2>1. routine'.idle = AddIdle(routine.idle, s, remaining) /\ UNCHANGED pc
    BY <1>3 DEF RunSocket
  <2>2. Slot(routine.idle, s) = {}
    BY <1>1, <1>3 DEF Refused, Class
  <2>3. Times(routine'.idle) = Times(routine.idle)
    BY <1>1, <2>1, <2>2, AddIdleSocket DEF TypeOK
  <2> QED
    BY <1>1, <2>1, <2>3 DEF IdleInv
<1> QED
  BY <1>2, <1>3

LEMMA RunCronIdle ==
  ASSUME TypeOK, IdleInv, NEW s \in Routines, RunCron(s)
  PROVE  IdleInv'
<1>1. UNCHANGED <<deadline, consulted>> /\ pc = "routines" /\ s \in Crons
  BY DEF RunCron, Visits
<1>2. CASE remaining[s] # 0
  <2>1. pc' = "raised" /\ UNCHANGED remaining
    BY <1>2 DEF RunCron, Raise
  <2> QED
    BY <1>1, <2>1 DEF IdleInv
<1>3. CASE remaining[s] = 0
  <2>1. /\ remaining' = [remaining EXCEPT ![s] = Length[s]] /\ UNCHANGED pc
        /\ routine' = [routine EXCEPT !.signals = Append(@, s)]
    BY <1>3 DEF RunCron
  <2>2. routine'.idle = routine.idle
    BY <2>1 DEF TypeOK
  <2>3. s \in Timers /\ Length[s] \in Nat /\ consulted \subseteq Timers /\ s \notin consulted
    BY <1>1, SignalsType, LengthType, KindsType DEF TypeOK
  <2>4. \A a \in Timers : remaining'[a] <= Length[a]
    BY <2>1, <2>3 DEF TypeOK, IdleInv
  <2>5. \A r \in Timers : r # s => remaining'[r] = remaining[r]
    BY <2>1 DEF TypeOK
  <2>6. CASE consulted = {}
    BY <1>1, <2>1, <2>4, <2>6 DEF IdleInv
  <2>7. CASE consulted # {}
    <3>1. PICK u \in Times(routine.idle) :
            remaining[u] > 0 /\ \A q \in consulted : remaining[u] <= remaining[q]
      BY <1>1, <2>7 DEF IdleInv
    <3>2. u \in Timers /\ u # s
      BY <1>3, <3>1, TimesType
    <3>3. remaining'[u] > 0 /\ \A q \in consulted : remaining'[u] <= remaining'[q]
      BY <2>3, <2>5, <3>1, <3>2
    <3> QED
      BY <1>1, <2>1, <2>2, <2>4, <3>1, <3>3 DEF IdleInv
  <2> QED
    BY <2>6, <2>7
<1> QED
  BY <1>2, <1>3

LEMMA ChooseIdleIdle ==
  ASSUME WholeSeconds, TypeOK, Ordered(routine.idle), IdleInv, ChooseIdle
  PROVE  IdleInv'
<1>1. /\ UNCHANGED <<remaining, consulted>> /\ pc = "emit" /\ pc' = "idle"
  BY DEF ChooseIdle
<1>2. PICK i \in DOMAIN routine.idle :
        /\ idler' = routine.idle[i]
        /\ deadline' = IF idler' \in Sockets THEN SocketWait ELSE remaining[idler']
  BY DEF ChooseIdle
<1>3. CASE consulted = {}
  BY <1>1, <1>3 DEF IdleInv
<1>4. CASE consulted # {}
  <2>1. PICK u \in Times(routine.idle) : \A q \in consulted : remaining[u] <= remaining[q]
    BY <1>1, <1>4 DEF IdleInv
  <2>2. u \in Timers /\ remaining[u] \in Nat
    BY <2>1, TimesType
  <2>3. ASSUME NEW j \in DOMAIN routine.idle, Class(routine.idle[j]) = "Time"
        PROVE  routine.idle[j] = u
    <3>1. routine.idle[j] \in Times(routine.idle)
      BY <2>3 DEF Times, Range
    <3> QED
      BY <3>1, OneTime DEF TypeOK
  <2>4. CASE idler' \notin Sockets
    <3>1. deadline' = remaining[u]
      BY <1>2, <2>3, <2>4 DEF Class
    <3> QED
      BY <1>1, <2>1, <3>1 DEF IdleInv
  <2>5. CASE idler' \in Sockets
    <3> DEFINE times == {j \in DOMAIN routine.idle : Class(routine.idle[j]) = "Time"}
    <3>1. times # {}
      BY DEF Times, Range
    <3>2. routine.idle[CHOOSE j \in times : TRUE] = u
      <4>1. (CHOOSE j \in times : TRUE) \in times
        BY <3>1
      <4> QED
        BY <2>3, <4>1
    <3>3. Tenths(u, remaining) \div 10 = remaining[u]
      <4>1. \A n \in Nat : (10 * n) \div 10 = n
        OBVIOUS
      <4> QED
        BY <2>2, <4>1 DEF WholeSeconds, Tenths
    <3>4. SocketWait = IF routine.signals # <<>> THEN 0 ELSE remaining[u]
      BY <3>1, <3>2, <3>3 DEF SocketWait
    <3>5. deadline' = 0 \/ deadline' = remaining[u]
      BY <1>2, <2>5, <3>4
    <3>6. \A q \in consulted : 0 <= remaining[q]
      BY SignalsType DEF TypeOK
    <3> QED
      BY <1>1, <2>1, <3>5, <3>6 DEF IdleInv
  <2> QED
    BY <2>4, <2>5
<1> QED
  BY <1>3, <1>4

LEMMA TickIdle ==
  ASSUME TypeOK, IdleInv, Tick
  PROVE  IdleInv'
<1>1. /\ \A r \in Timers : remaining'[r] = IF remaining[r] = 0 THEN 0 ELSE remaining[r] - 1
      /\ \A r \in Timers : remaining[r] \in Nat /\ Length[r] \in Nat
      /\ deadline \in Nat /\ deadline' = IF deadline = 0 THEN 0 ELSE deadline - 1
      /\ UNCHANGED <<pc, routine>> /\ consulted \subseteq Timers
      /\ consulted' = IF pc = "routines" THEN {} ELSE consulted
  BY SignalsType, LengthType DEF Tick, TypeOK, processor, machine
<1>2. \A a \in Timers : remaining'[a] <= Length[a]
  BY <1>1 DEF IdleInv
<1>3. ASSUME NEW r \in Timers, NEW q \in Timers, remaining[r] <= remaining[q]
      PROVE  remaining'[r] <= remaining'[q]
  BY <1>1, <1>3
<1>4. ASSUME pc = "emit", consulted # {}
      PROVE  \E u \in Times(routine.idle) : \A s \in consulted : remaining'[u] <= remaining'[s]
  <2>1. PICK u \in Times(routine.idle) : \A s \in consulted : remaining[u] <= remaining[s]
    BY <1>4 DEF IdleInv
  <2> QED
    BY <1>1, <1>3, <2>1, TimesType
<1>5. ASSUME pc = "idle", NEW s \in consulted
      PROVE  deadline' <= remaining'[s]
  <2>1. deadline <= remaining[s]
    BY <1>5 DEF IdleInv
  <2> QED
    BY <1>1, <2>1
<1> QED
  BY <1>1, <1>2, <1>4, <1>5 DEF IdleInv

LEMMA StepIdle ==
  ASSUME WholeSeconds, TypeOK, Ordered(routine.idle), IdleInv, Step \/ SocketEvent \/ Tick
  PROVE  IdleInv'
<1>1. CASE EmitNext \/ Return \/ Started \/ RoutineEnd
  BY <1>1 DEF EmitNext, Return, Started, RoutineEnd, IdleInv, processor, clock
<1>2. CASE RoutineHalted \/ LoopEnd \/ LoopReturn
  BY <1>2 DEF RoutineHalted, LoopEnd, End, LoopReturn, IdleInv, clock
<1>3. CASE SocketEvent
  BY <1>3 DEF SocketEvent, IdleInv
<1>4. CASE RoutineStart
  BY <1>4 DEF RoutineStart, IdleInv, clock
<1>5. CASE Wake
  BY <1>5 DEF Wake, IdleInv, clock
<1>6. CASE \E s \in Routines : RunAwake(s) \/ RunSocket(s) \/ RunCron(s)
  BY <1>6, RunAwakeIdle, RunSocketIdle, RunCronIdle
<1> QED
  BY <1>1, <1>2, <1>3, <1>4, <1>5, <1>6, ChooseIdleIdle, TickIdle DEF Step

\* A new awake idles nobody yet, and it has all of its time left.
LEMMA UserIdle ==
  ASSUME TypeOK, IdleInv, User
  PROVE  IdleInv'
<1>1. CASE WaitLoop \/ Catch
  BY <1>1 DEF WaitLoop, Catch, IdleInv, clock
<1>2. ASSUME NEW f, Calling(f), UNCHANGED routine, UNCHANGED remaining
      PROVE  IdleInv'
  <2>1. UNCHANGED <<pc, consulted, deadline>>
    BY <1>2 DEF Calling, machine
  <2> QED
    BY <1>2, <2>1 DEF IdleInv
<1>3. CASE Shutdown \/ Flush
  BY <1>2, <1>3 DEF Shutdown, Flush
<1>4. ASSUME NEW s \in Routines, Connect(s) \/ DeleteSignal(s) PROVE IdleInv'
  BY <1>2, <1>4 DEF Connect, DeleteSignal
<1>5. ASSUME NEW s \in Signals, NEW rate \in Rates, Install(s, rate) PROVE IdleInv'
  BY <1>2, <1>5 DEF Install
<1>6. ASSUME NEW s \in Signals, NEW rate \in Rates, Awake(s, rate) \/ CRON(s, rate)
      PROVE  IdleInv'
  <2>1. /\ s \in Timers /\ Fresh(s) /\ UNCHANGED routine
        /\ remaining' = [remaining EXCEPT ![s] = Length[s]]
    BY <1>6, SignalsType DEF Awake, CRON, StartTimer
  <2>2. UNCHANGED <<pc, consulted, deadline>>
    BY <1>6 DEF Awake, CRON, Calling, machine
  <2>3. /\ \A r \in Timers : r # s => remaining'[r] = remaining[r]
        /\ \A r \in Timers : remaining[r] <= remaining'[r] /\ remaining'[r] <= Length[r]
        /\ \A r \in Timers : remaining[r] \in Nat /\ remaining'[r] \in Nat
        /\ consulted \subseteq Timers /\ deadline \in Nat
    <3>1. remaining \in [Timers -> Nat] /\ Length[s] \in Nat /\ remaining[s] <= Length[s]
      BY <2>1, LengthType DEF TypeOK, IdleInv
    <3>2. ASSUME NEW r \in Timers
          PROVE  /\ r # s => remaining'[r] = remaining[r]
                 /\ remaining[r] <= remaining'[r] /\ remaining'[r] <= Length[r]
                 /\ remaining[r] \in Nat /\ remaining'[r] \in Nat
      <4>1. remaining[r] <= Length[r] /\ Length[r] \in Nat
        BY LengthType DEF IdleInv
      <4>2. CASE r = s
        BY <2>1, <3>1, <4>2
      <4>3. CASE r # s
        BY <2>1, <3>1, <4>1, <4>3
      <4> QED
        BY <4>2, <4>3
    <3> QED
      BY <3>2, SignalsType DEF TypeOK
  <2>4. ASSUME NEW u \in Times(routine.idle) PROVE u \in Timers /\ remaining'[u] = remaining[u]
    BY <2>1, <2>3, TimesType DEF Fresh, Times
  <2>5. ASSUME pc \in {"routines", "emit"}, consulted # {}
        PROVE  \E u \in Times(routine.idle) :
                 /\ pc = "routines" => remaining'[u] > 0
                 /\ \A q \in consulted : remaining'[u] <= remaining'[q]
    <3>1. PICK u \in Times(routine.idle) :
            /\ pc = "routines" => remaining[u] > 0
            /\ \A q \in consulted : remaining[u] <= remaining[q]
      BY <2>5 DEF IdleInv
    <3>2. \A q \in consulted : remaining'[u] <= remaining'[q]
      BY <2>3, <2>4, <3>1
    <3> QED
      BY <2>4, <3>1, <3>2
  <2>6. ASSUME pc = "idle", NEW q \in consulted PROVE deadline <= remaining'[q]
    <3>1. deadline <= remaining[q]
      BY <2>6 DEF IdleInv
    <3> QED
      BY <2>3, <3>1
  <2> QED
    BY <2>1, <2>2, <2>3, <2>5, <2>6 DEF IdleInv
<1> QED
  BY <1>1, <1>3, <1>4, <1>5, <1>6 DEF User

\* When every awake is timed in seconds, and none in no time at all, the program
\* never sleeps past an awake it compared while the clock stood still: for any
\* number of awakes and sockets, in any order, whatever processes do meanwhile.
THEOREM SleepsUntilNext ==
  ASSUME WholeSeconds
  PROVE  Spec => []IdleUntilNext
<1>1. Init => Inv /\ IdleInv
  <2> SUFFICES ASSUME Init PROVE IdleInv
    BY InitInv
  <2> QED
    BY LengthType DEF Init, IdleInv
<1>2. (Inv /\ IdleInv) /\ [Next]_vars => (Inv /\ IdleInv)'
  <2> SUFFICES ASSUME Inv, IdleInv, [Next]_vars PROVE IdleInv'
    BY NextInv
  <2>1. CASE UNCHANGED vars
    BY <2>1 DEF vars, processor, clock, machine, IdleInv
  <2> QED
    BY <2>1, StepIdle, UserIdle DEF Next, Inv
<1>3. IdleInv => IdleUntilNext
  BY DEF IdleInv, IdleUntilNext
<1> QED
  BY <1>1, <1>2, <1>3, PTL DEF Spec
=============================================================================

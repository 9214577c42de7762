----------------------------- MODULE Processor -----------------------------
(***************************************************************************)
(* XPSPL\Processor: installing processes on signals and emitting signals.  *)
(*                                                                         *)
(* The program has one thread.  What makes it hard is re-entrancy: a       *)
(* process is user code that the processor calls in the middle of a loop   *)
(* over a database, and it may emit, install, delete, flush or throw       *)
(* before it returns.  The machine below has PHP's call stack: `frames`    *)
(* holds an "emit" frame per emit() and an "exec" frame per                *)
(* _processes_execute() in progress, the innermost last.  User code runs   *)
(* when the stack is empty (the main program) or when its innermost frame  *)
(* is running a process (the body of that process).                        *)
(***************************************************************************)
EXTENDS Processes

CONSTANTS Sigs,        \* signal objects
          Index,       \* SIG::$_index of each of them
          Complex,     \* the signal objects that are SIG_Complex
          Exhausts,    \* exhaust rates processes are constructed with
          Priorities,  \* priorities processes are constructed with
          Calls,       \* functions of the API the main program calls
          BodyCalls,   \* functions of the API the processes call
          Returns,     \* what processes return: FALSE halts the signal
          Reinstall,   \* whether a process object is installed repeatedly
          MaxCalls,    \* bound: API calls in a behaviour
          MaxFrames,   \* bound: depth of the call stack
          Microtime,   \* the time an emission is recorded with
          NoDb, NoSig, NoProc, NoKey

Idx == {Index[s] : s \in Sigs}

\* The Signals databases: installed processes and the two interruptions.
Places == {"index", "before", "after"}

ASSUME IndexType   == Index \in [Sigs -> Idx]
ASSUME RatesType   == Exhausts \subseteq Int \cup {Never} /\ Priorities \subseteq Int
ASSUME ReturnsType == Returns \subseteq BOOLEAN /\ Reinstall \in BOOLEAN
ASSUME BoundsType  == MaxCalls \in Nat /\ MaxFrames \in Nat
ASSUME NothingType == /\ NoDb \notin Dbs /\ NoSig \notin Sigs
                      /\ NoProc \notin Procs /\ NoKey \notin Int
\* SIG_Complex is unique: each object has an index of its own.
ASSUME ComplexType == /\ Complex \subseteq Sigs
                      /\ \A s \in Complex, t \in Sigs : Index[s] = Index[t] => s = t
ASSUME TimeIsNoSig == Microtime \notin Sigs

VARIABLES heap,       \* databases and processes, see Processes
          made,       \* process objects constructed so far
          databases,  \* process database of each index, per Signals database
          complexes,  \* indexes in _sig_complex, in the order of registration
          halted,     \* signal objects in STATE_HALTED
          parent,     \* SIG::$_parent of each signal object
          signal,     \* Processor::$_signal, the signals in emission
          history,    \* Processor::$_history, [on, log]
          frames,     \* the call stack
          calls       \* API calls made so far

vars == <<heap, made, databases, complexes, halted, parent, signal, history,
          frames, calls>>

\* pc: what the frame does next.  loop: the database its foreach is over, db:
\* the database it works for.  proc: the process an exec frame is running; it
\* keeps the object, whatever becomes of the database.  pending: databases an
\* emit frame has still to merge.  key: of the sub-database being merged.
EmitFrame(s, d, pending) ==
  [op |-> "emit", pc |-> "start", sig |-> s, db |-> d, loop |-> d,
   proc |-> NoProc, pending |-> pending, key |-> NoKey]

ExecFrame(s, d) ==
  [op |-> "exec", pc |-> "fetch", sig |-> s, db |-> d, loop |-> d,
   proc |-> NoProc, pending |-> <<>>, key |-> NoKey]

MergeFrame(s, d, source, key) ==
  [op |-> "merge", pc |-> "fetch", sig |-> s, db |-> d, loop |-> source,
   proc |-> NoProc, pending |-> <<>>, key |-> key]

Top == frames[Len(frames)]

Push(f) == Append(frames, f)

Popped == SubSeq(frames, 1, Len(frames) - 1)

\* The stack with its innermost frame at pc.
At(pc) == [frames EXCEPT ![Len(frames)].pc = pc]

\* The innermost frame is an op frame at pc.
On(op, pc) == /\ frames # <<>> /\ ~heap.fatal
              /\ Top.op = op /\ Top.pc = pc

Idle == frames = <<>>

\* User code is in control, and calls the function f.
Calling(f) ==
  /\ ~heap.fatal
  /\ calls < MaxCalls
  /\ calls' = calls + 1
  /\ \/ Idle /\ f \in Calls
     \/ On("exec", "running") /\ f \in BodyCalls

Init ==
  /\ heap = [store   |-> [d \in Dbs |-> empty],
             unused  |-> Dbs,
             prio    |-> [p \in Procs |-> 0],
             exhaust |-> [p \in Procs |-> Never],
             fatal   |-> FALSE]
  /\ made = {}
  /\ databases = [w \in Places |-> [i \in Idx |-> NoDb]]
  /\ complexes = <<>>
  /\ halted = {}
  /\ parent = [s \in Sigs |-> NoSig]
  /\ signal = <<>>
  /\ history = [on |-> FALSE, log |-> <<>>]
  /\ frames = <<>>
  /\ calls = 0

----------------------------------------------------------------------------
(* Installing and removing processes.                                      *)

Find(w, s) == databases[w][Index[s]]

\* The heap and the database of signal s in w, registered when it has none.
\* The model has no database left when heap.unused is empty.
Registered(h, w, s) ==
  IF Find(w, s) # NoDb
    THEN [heap |-> h, db |-> Find(w, s)]
    ELSE LET d == CHOOSE x \in h.unused : TRUE
         IN  [heap |-> [h EXCEPT !.unused = @ \ {d}], db |-> d]

HasRoom(w, s) == Find(w, s) # NoDb \/ heap.unused # {}

\* _sig_complex gets an index when it is first registered.
Registering(w, s) ==
  complexes' = IF w = "index" /\ s \in Complex /\ Find(w, s) = NoDb
                 THEN Append(complexes, Index[s]) ELSE complexes

\* A process is a new object, or one of those there are.
Offered(p) ==
  IF p \in made THEN {h \in {heap} : Reinstall}
                ELSE {Construct(heap, p, e, k) : e \in Exhausts, k \in Priorities}

InstallOn(w, s, p) ==
  \E h \in Offered(p) :
    LET r == Registered(h, w, s)
        c == Install(r.heap, r.db, p)
    IN  /\ HasRoom(w, s) /\ c.done
        /\ heap' = c.heap
        /\ made' = made \cup {p}
        /\ databases' = [databases EXCEPT ![w][Index[s]] = r.db]
        /\ Registering(w, s)
        /\ UNCHANGED <<halted, parent, signal, history, frames>>

Signal(s, p) == Calling("signal") /\ InstallOn("index", s, p)
Before(s, p) == Calling("before") /\ InstallOn("before", s, p)
After(s, p)  == Calling("after")  /\ InstallOn("after", s, p)

DeleteProcess(s, p) ==
  /\ Calling("delete_process")
  /\ p \in made /\ Find("index", s) # NoDb
  /\ heap' = Delete(heap, Find("index", s), p)
  /\ UNCHANGED <<made, databases, complexes, halted, parent, signal, history,
                 frames>>

HasSignalExhausted(s) ==
  /\ Calling("has_signal_exhausted")
  /\ Find("index", s) # NoDb
  /\ heap' = AfterExhausted(heap, Find("index", s))
  /\ UNCHANGED <<made, databases, complexes, halted, parent, signal, history,
                 frames>>

\* erase_signal_history() compares the TIME of a record with the signal.
Erases(node, s) == node[2] = s

\* An erased record leaves a hole: the keys of the others stay.
EraseSignalHistory(s, log) ==
  [n \in DOMAIN log |-> IF Erases(log[n], s) THEN <<NoSig, Microtime>> ELSE log[n]]

\* The lineage of signal s runs in circles: its parents form a set in which
\* none is without a parent or its own.
Endless(s) == \E C \in SUBSET Sigs : s \in C /\ \A x \in C : parent[x] \in C \ {x}

\* erase_signal_history() descends the lineage of each record by recursion.
Descended ==
  [heap EXCEPT !.fatal = @ \/ \E n \in DOMAIN history.log : Endless(history.log[n][1])]

EraseHistory(s) ==
  /\ Calling("erase_signal_history")
  /\ heap' = Descended
  /\ history' = [history EXCEPT !.log = EraseSignalHistory(s, @)]
  /\ UNCHANGED <<made, databases, complexes, halted, parent, signal, frames>>

DeleteSignal(s, erase) ==
  /\ Calling("delete_signal")
  /\ Find("index", s) # NoDb
  /\ databases' = [databases EXCEPT !["index"][Index[s]] = NoDb]
  /\ complexes' = IF \E n \in DOMAIN complexes : complexes[n] = Index[s]
                    THEN RemoveAt(complexes, CHOOSE n \in DOMAIN complexes :
                                                complexes[n] = Index[s])
                    ELSE complexes
  /\ history' = IF erase THEN [history EXCEPT !.log = EraseSignalHistory(s, @)]
                         ELSE history
  /\ heap' = IF erase THEN Descended ELSE heap
  /\ UNCHANGED <<made, halted, parent, signal, frames>>

\* flush() frees the Signals databases.  A loop in progress holds its Processes
\* database itself; $_signal is left as it is.
Flush ==
  /\ Calling("flush")
  /\ databases' = [w \in Places |-> [i \in Idx |-> NoDb]]
  /\ complexes' = <<>>
  /\ history' = [history EXCEPT !.log = <<>>]
  /\ UNCHANGED <<heap, made, halted, parent, signal, frames>>

SetSignalHistory(flag) ==
  /\ Calling("set_signal_history")
  /\ history' = [on |-> flag, log |-> IF flag THEN history.log ELSE <<>>]
  /\ UNCHANGED <<heap, made, databases, complexes, halted, parent, signal, frames>>

----------------------------------------------------------------------------
(* Signal objects.                                                         *)

Referenced == {frames[i].sig : i \in DOMAIN frames}
                \cup {signal[i] : i \in DOMAIN signal}
                \cup {parent[x] : x \in Sigs}
                \cup {history.log[i][1] : i \in DOMAIN history.log}

\* new SIG: an object nobody refers to any more gives its name to a new one.
NewSignal(s) ==
  /\ ~heap.fatal
  /\ Idle \/ On("exec", "running")
  /\ s \notin Referenced
  /\ s \in halted \/ parent[s] # NoSig
  /\ halted' = halted \ {s}
  /\ parent' = [parent EXCEPT ![s] = NoSig]
  /\ UNCHANGED <<heap, made, databases, complexes, signal, history, frames, calls>>

\* SIG::halt(), called by user code.
Halt(s) ==
  /\ Calling("halt")
  /\ s \notin halted
  /\ halted' = halted \cup {s}
  /\ UNCHANGED <<heap, made, databases, complexes, parent, signal, history, frames>>

----------------------------------------------------------------------------
(* emit().                                                                 *)

\* array_slice($_signal, offset, 1)[0], and its special cases.
current_signal(offset) ==
  CASE signal = <<>>           -> NoSig
    [] Len(signal) = 1         -> signal[1]
    [] Len(signal) > offset /\ Len(signal) > 1 -> signal[offset + 1]
    [] OTHER                   -> NoSig

\* has_signal_exhausted() says that there is nothing to run.
EmitNothing(s) ==
  LET d == Find("index", s)
  IN  /\ Calling("emit")
      /\ d # NoDb => AreExhausted(heap, d)
      /\ heap' = IF d = NoDb THEN heap ELSE AfterExhausted(heap, d)
      /\ UNCHANGED <<made, databases, complexes, halted, parent, signal, history,
                     frames>>

\* The databases of the complex signals, which will be asked to accept s.
Evaluated ==
  [n \in DOMAIN complexes |-> databases["index"][complexes[n]]]

Emit(s) ==
  LET d == Find("index", s)
  IN  /\ Calling("emit")
      /\ Len(frames) < MaxFrames
      /\ d # NoDb
      /\ ~AreExhausted(heap, d)
      /\ heap' = AfterExhausted(heap, d)
      /\ history' = IF history.on
                      THEN [history EXCEPT !.log = Append(@, <<s, Microtime>>)]
                      ELSE history
      /\ parent' = IF Len(signal) > 1
                     THEN [parent EXCEPT ![s] = current_signal(1)] ELSE parent
      /\ signal' = Append(signal, s)
      /\ frames' = Push(EmitFrame(s, d, Evaluated))
      /\ UNCHANGED <<made, databases, complexes, halted>>

Rewind(d) == [heap EXCEPT !.store[d] = reset(@)]

NextDatabase == [frames EXCEPT ![Len(frames)].pending = Tail(@)]

\* evaluate() of a complex signal is user code: it accepts the signal or not.
Reject ==
  /\ On("emit", "start")
  /\ Top.pending # <<>>
  /\ frames' = NextDatabase
  /\ UNCHANGED <<heap, made, databases, complexes, halted, parent, signal, history,
                 calls>>

\* $memory->merge($_db): the complex signal's processes join the database of
\* the emitted signal, where they stay.
Accept ==
  /\ On("emit", "start")
  /\ Top.pending # <<>>
  /\ heap' = Rewind(Head(Top.pending))
  /\ frames' = Append(NextDatabase,
                      MergeFrame(Top.sig, Top.db, Head(Top.pending), NoKey))
  /\ UNCHANGED <<made, databases, complexes, halted, parent, signal, history, calls>>

Fetched == current(heap.store[Top.loop])

\* The process of a sub-database gets the key of that as its priority, and an
\* exhaustion of 1.
Merged ==
  Install(IF Top.key = NoKey THEN heap ELSE Construct(heap, Fetched, 1, Top.key),
          Top.db, Fetched)

MergeProcess ==
  /\ On("merge", "fetch")
  /\ valid(heap.store[Top.loop])
  /\ Fetched \in Procs
  /\ Merged.done
  /\ heap' = [Merged.heap EXCEPT !.store[Top.loop] = next(@)]
  /\ UNCHANGED <<made, databases, complexes, halted, parent, signal, history,
                 frames, calls>>

MergeSubDatabase ==
  /\ On("merge", "fetch")
  /\ valid(heap.store[Top.loop])
  /\ Fetched \in Dbs
  /\ Top.key = NoKey
  /\ heap' = Rewind(Fetched)
  /\ LET s == heap.store[Top.loop]
     IN  frames' = Append(At("next"),
                          MergeFrame(Top.sig, Top.db, Fetched, s.nodes[s.ptr].key))
  /\ UNCHANGED <<made, databases, complexes, halted, parent, signal, history, calls>>

\* A sub-database of a sub-database has no set_priority().
MergeFatal ==
  /\ On("merge", "fetch")
  /\ valid(heap.store[Top.loop])
  /\ Fetched \in Dbs
  /\ Top.key # NoKey
  /\ heap' = [heap EXCEPT !.fatal = TRUE]
  /\ UNCHANGED <<made, databases, complexes, halted, parent, signal, history,
                 frames, calls>>

MergeEnd ==
  /\ On("merge", "fetch")
  /\ ~valid(heap.store[Top.loop])
  /\ frames' = Popped
  /\ UNCHANGED <<heap, made, databases, complexes, halted, parent, signal, history,
                 calls>>

\* Starts a loop over d in the emission on top, which goes on at pc after it.
Execute(d, pc) ==
  /\ heap' = Rewind(d)
  /\ frames' = Append(At(pc), ExecFrame(Top.sig, d))
  /\ UNCHANGED <<made, databases, complexes, halted, parent, signal, history, calls>>

\* _interrupt(): nothing to do for a signal without interruptions in w.
Interrupt(w, pc) ==
  LET d == Find(w, Top.sig)
  IN  \/ d # NoDb /\ Execute(d, pc)
      \/ /\ d = NoDb
         /\ frames' = At(pc)
         /\ UNCHANGED <<heap, made, databases, complexes, halted, parent, signal,
                        history, calls>>

EmitBefore == On("emit", "start") /\ Top.pending = <<>> /\ Interrupt("before", "main")
EmitMain   == On("emit", "main") /\ Execute(Top.db, "after")
EmitAfter  == On("emit", "after") /\ Interrupt("after", "done")

\* Mutant: array_shift() for array_pop().
EmitEnd_Shift ==
  /\ On("emit", "done")
  /\ signal' = Tail(signal)
  /\ frames' = Popped
  /\ UNCHANGED <<heap, made, databases, complexes, halted, parent, history, calls>>

EmitEnd ==
  /\ On("emit", "done")
  /\ signal' = SubSeq(signal, 1, Len(signal) - 1)
  /\ frames' = Popped
  /\ UNCHANGED <<heap, made, databases, complexes, halted, parent, history, calls>>

----------------------------------------------------------------------------
(* _processes_execute().                                                   *)

ExecEnd ==
  /\ On("exec", "fetch")
  /\ ~valid(heap.store[Top.loop]) \/ Top.sig \in halted
  /\ frames' = Popped
  /\ UNCHANGED <<heap, made, databases, complexes, halted, parent, signal, history,
                 calls>>

ExecSubDatabase ==
  /\ On("exec", "fetch")
  /\ valid(heap.store[Top.loop]) /\ Top.sig \notin halted
  /\ Fetched \in Dbs
  /\ Execute(Fetched, "next")

ExecProcess ==
  /\ On("exec", "fetch")
  /\ valid(heap.store[Top.loop]) /\ Top.sig \notin halted
  /\ Fetched \in Procs
  /\ heap' = [heap EXCEPT !.exhaust[Fetched] = decrement_exhaust(@)]
  /\ frames' = [At("running") EXCEPT ![Len(frames)].proc = Fetched]
  /\ UNCHANGED <<made, databases, complexes, halted, parent, signal, history, calls>>

\* Mutant: a process that halts the signal is not purged.
Return_HaltKeeps(result) ==
  LET p == Top.proc
  IN  /\ On("exec", "running")
      /\ halted' = IF result THEN halted ELSE halted \cup {Top.sig}
      /\ LET h == IF result /\ is_exhausted(heap.exhaust[p])
                    THEN Delete(heap, Top.db, p) ELSE heap
         IN  heap' = [h EXCEPT !.store[Top.loop] = next(@)]
      /\ frames' = [At("fetch") EXCEPT ![Len(frames)].proc = NoProc]
      /\ UNCHANGED <<made, databases, complexes, parent, signal, history, calls>>

\* Mutant: the loop does not advance past a process that lives on.
Return_Stays(result) ==
  LET p == Top.proc
  IN  /\ On("exec", "running")
      /\ halted' = IF result THEN halted ELSE halted \cup {Top.sig}
      /\ heap' = IF is_exhausted(heap.exhaust[p]) THEN Delete(heap, Top.db, p)
                                                  ELSE heap
      /\ frames' = [At("fetch") EXCEPT ![Len(frames)].proc = NoProc]
      /\ UNCHANGED <<made, databases, complexes, parent, signal, history, calls>>

\* The process returns: FALSE halts the signal, and an exhausted process is
\* deleted, which moves the pointer the loop is about to advance.
Return(result) ==
  LET p == Top.proc
  IN  /\ On("exec", "running")
      /\ halted' = IF result THEN halted ELSE halted \cup {Top.sig}
      /\ LET h == IF is_exhausted(heap.exhaust[p]) THEN Delete(heap, Top.db, p)
                                                   ELSE heap
         IN  heap' = [h EXCEPT !.store[Top.loop] = next(@)]
      /\ frames' = [At("fetch") EXCEPT ![Len(frames)].proc = NoProc]
      /\ UNCHANGED <<made, databases, complexes, parent, signal, history, calls>>

\* The process throws.  Another process further down, or the main program,
\* catches; none of the frames in between cleans up after itself.
Throw ==
  LET catchers == {k \in DOMAIN frames : k < Len(frames) /\ frames[k].pc = "running"}
  IN  /\ Calling("throw")
      /\ ~Idle
      /\ \E k \in {0} \cup catchers : frames' = SubSeq(frames, 1, k)
      /\ UNCHANGED <<heap, made, databases, complexes, halted, parent, signal,
                     history>>

\* The loop moves on from a sub-database it has finished.
Advance ==
  /\ On("exec", "next") \/ On("merge", "next")
  /\ heap' = [heap EXCEPT !.store[Top.loop] = next(@)]
  /\ frames' = At("fetch")
  /\ UNCHANGED <<made, databases, complexes, halted, parent, signal, history, calls>>

----------------------------------------------------------------------------
\* What the processor does by itself, and a process that comes to its end.
Step ==
  \/ Accept \/ Reject \/ MergeProcess \/ MergeSubDatabase \/ MergeFatal \/ MergeEnd
  \/ EmitBefore \/ EmitMain \/ EmitAfter \/ EmitEnd
  \/ ExecEnd \/ ExecSubDatabase \/ ExecProcess \/ Advance
  \/ \E result \in Returns : Return(result)

\* What user code does.
User ==
  \/ \E s \in Sigs, p \in Procs :
       Signal(s, p) \/ Before(s, p) \/ After(s, p) \/ DeleteProcess(s, p)
  \/ \E s \in Sigs : HasSignalExhausted(s) \/ Emit(s) \/ EmitNothing(s)
                       \/ Halt(s) \/ NewSignal(s) \/ EraseHistory(s)
  \/ \E s \in Sigs, erase \in BOOLEAN : DeleteSignal(s, erase)
  \/ \E flag \in BOOLEAN : SetSignalHistory(flag)
  \/ Flush \/ Throw

\* Bound of the model: a merge needs more databases than there are.
OutOfDatabases ==
  /\ On("merge", "fetch")
  /\ valid(heap.store[Top.loop]) /\ Fetched \in Procs
  /\ ~Merged.done /\ Merged.heap.unused = {}

\* The program ends, by itself, by a fatal error, or where the model does.
Terminated == (Idle \/ heap.fatal \/ OutOfDatabases) /\ UNCHANGED vars

Next == Step \/ User \/ Terminated

\* Fairness: PHP goes on executing, and every process returns or throws.
Spec == Init /\ [][Next]_vars /\ WF_vars(Step)

----------------------------------------------------------------------------
FrameType == [op : {"emit", "exec", "merge"},
              pc : {"start", "main", "after", "done", "fetch", "running", "next"},
              sig : Sigs, db : Dbs, loop : Dbs, proc : Procs \cup {NoProc},
              pending : Seq(Dbs), key : Int \cup {NoKey}]

\* The emissions among the first n frames of a call stack.
Emissions(stack, n) == {m \in 1..n : stack[m].op = "emit"}

Stacked(signals, stack) ==
  /\ Len(signals) = Cardinality(Emissions(stack, Len(stack)))
  /\ \A n \in Emissions(stack, Len(stack)) :
       signals[Cardinality(Emissions(stack, n))] = stack[n].sig

\* Processor::$_signal is the signals being emitted, outermost first, whatever
\* emissions are nested in one another: an emission takes off the entry that it
\* has put there.
SignalStack == Stacked(signal, frames)

Entered(signals, stack) ==
  \E at \in [Emissions(stack, Len(stack)) -> DOMAIN signals] :
    /\ \A m, n \in DOMAIN at : m < n => at[m] < at[n]
    /\ \A n \in DOMAIN at : signals[at[n]] = stack[n].sig

\* Processor::$_signal has an entry for each emission in progress, outermost
\* first, whatever is thrown.  An exception leaves the entries of the emissions
\* that it ends behind, and array_pop() may take one of these for its own, but
\* the emissions that go on, and those begun later, keep theirs.
SignalsHeld == Entered(signal, frames)

Registereds == {databases[w][i] : w \in Places, i \in Idx} \ {NoDb}

\* The process databases stay trees, rooted at those that signals are registered
\* with, through every installation, deletion, merge and walk, whoever else is
\* iterating over them.  Processes::install and ::delete rebuild nodes while
\* loops hold them.
Forest == ForestOf(heap, Registereds)

\* The type invariant: what each variable of the processor holds, the keys of a
\* database being unique and its pointer in range.
TypeOK ==
  /\ heap \in HeapType
  /\ made \subseteq Procs
  /\ databases \in [Places -> [Idx -> Dbs \cup {NoDb}]]
  /\ complexes \in Seq(Idx)
  /\ halted \subseteq Sigs
  /\ parent \in [Sigs -> Sigs \cup {NoSig}]
  /\ signal \in Seq(Sigs)
  /\ history \in [on : BOOLEAN, log : Seq((Sigs \cup {NoSig}) \X {Microtime})]
  /\ frames \in Seq(FrameType)
  /\ calls \in 0..MaxCalls
=============================================================================

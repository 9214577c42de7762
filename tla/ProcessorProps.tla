--------------------------- MODULE ProcessorProps ---------------------------
(***************************************************************************)
(* What the processor is checked for.                                      *)
(***************************************************************************)
EXTENDS Processor

----------------------------------------------------------------------------
(* The databases.                                                          *)

Created == Dbs \ heap.unused

\* Database x is stored in a node of database d.
Stored(x, d) == x \in vals(heap.store[d])

SubDatabases == {x \in Created : \E d \in Created : Stored(x, d)}

\* Processes.php: "the index priority is then based on FIFO".  In a
\* sub-database the keys increase in the order of installation, and the last
\* process carries the key it is stored under, which is what install() takes
\* the next key from: two processes never meet on one key there.
SubDatabaseFIFO ==
  \A x \in SubDatabases :
    LET nodes == heap.store[x].nodes
    IN  /\ \A i, j \in DOMAIN nodes : i < j => nodes[i].key < nodes[j].key
        /\ \A i \in DOMAIN nodes :
             nodes[i].val \in Procs /\ nodes[i].key = heap.prio[nodes[i].val]

----------------------------------------------------------------------------
(* The registry.                                                           *)

registered == [w \in Places |-> [i \in Idx |->
                 IF databases[w][i] = NoDb THEN {}
                 ELSE Members(heap)[databases[w][i]]]]

left == [p \in Procs |-> IF is_exhausted(heap.exhaust[p]) THEN 0
                                                           ELSE heap.exhaust[p]]

R == INSTANCE Registry

\* The databases, with their keys, sub-databases and pointers, implement the
\* registry: installing a process adds it and loses no other, a registered
\* process has one execution less each time it runs, and it is purged only when
\* it has none.
RegistrySpec == R!Spec

----------------------------------------------------------------------------
(* One emission.                                                           *)

\* The processes of the nodes of database d from position k on, in the order
\* a loop over them and over the sub-databases meets them.
FlatFrom(d, k) ==
  LET flat[x \in Dbs] ==
        FlattenSeq([i \in DOMAIN heap.store[x].nodes |->
          LET v == heap.store[x].nodes[i].val
          IN  IF v \in Procs THEN <<v>> ELSE flat[v]])
      rest == SubSeq(heap.store[d].nodes, k, Len(heap.store[d].nodes))
  IN  FlattenSeq([i \in DOMAIN rest |->
        IF rest[i].val \in Procs THEN <<rest[i].val>> ELSE flat[rest[i].val]])

FlatOf(d) == IF d = NoDb THEN <<>> ELSE FlatFrom(d, 1)

\* What a frame has still to run.
Remaining(f) ==
  LET before == FlatOf(Find("before", f.sig))
      main   == FlatOf(f.db)
      after  == FlatOf(Find("after", f.sig))
  IN  CASE f.op = "emit" /\ f.pc = "start" -> before \o main \o after
        [] f.op = "emit" /\ f.pc = "main"  -> main \o after
        [] f.op = "emit" /\ f.pc = "after" -> after
        [] f.op = "exec" /\ f.pc = "fetch" -> FlatFrom(f.db, heap.store[f.db].ptr)
        [] f.op = "exec" /\ f.pc # "fetch" -> FlatFrom(f.db, heap.store[f.db].ptr + 1)
        [] OTHER -> <<>>

todo ==
  IF Idle \/ frames[1].sig \in halted THEN <<>>
  ELSE FlattenSeq([n \in DOMAIN frames |-> Remaining(frames[Len(frames) + 1 - n])])

running == IF Idle THEN NoProc ELSE Top.proc

E == INSTANCE Emission WITH Nobody <- NoProc

\* The loops over a database and its sub-databases, the interruptions and the
\* halting of a signal implement one emission: every process installed when
\* the signal is emitted runs once, in order, unless a process halts it.
EmissionSpec == E!Spec

----------------------------------------------------------------------------
(* The call stack and the signals in emission.                             *)

\* No exhausted process stays behind in a database: it is purged when it
\* returns, also when the emission it ran in was nested in another of the same
\* signal or somebody halted the signal meanwhile.
ExhaustedIsPurged ==
  \A w \in Places, i \in Idx : databases[w][i] # NoDb =>
    \A p \in Members(heap)[databases[w][i]] :
      is_exhausted(heap.exhaust[p]) =>
        \E n \in DOMAIN frames : frames[n].proc = p

\* An emission comes to its end once the processes stop calling the API: no
\* loop runs on for ever because of what they did to its pointer.
EmissionTerminates == []<>(Idle \/ heap.fatal)

\* A process leaves a database only by delete_process() or when it is
\* exhausted and returns: the installs, merges and walks that rebuild the
\* nodes of a database lose none, not even while loops are iterating over it.
NothingLost ==
  [][\A d \in Created : \A p \in Members(heap)[d] \ Members(heap')[d] :
       \/ \E s \in Sigs : DeleteProcess(s, p)
       \/ ~Idle /\ p = Top.proc /\ is_exhausted(heap.exhaust[p])
    ]_vars

\* A merge that comes to its end leaves no process out: all those of the complex
\* signal are in the database of the emitted one, whatever was merged into it
\* before, and also when the two are the same.
MergedWhole ==
  On("merge", "fetch") /\ ~valid(heap.store[Top.loop]) =>
    Members(heap)[Top.loop] \subseteq Members(heap)[Top.db]

----------------------------------------------------------------------------
(* What the documentation says, and the code does not do.                  *)

\* sig.php: "When we emit either object both installed processes will
\* execute."  With processes of exhaustion 1 that call nothing and halt
\* nothing, none may be left in the database after its loop.
BothProcessesExecute == On("emit", "after") => Members(heap)[Top.db] = {}
=============================================================================

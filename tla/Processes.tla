----------------------------- MODULE Processes -----------------------------
(***************************************************************************)
(* XPSPL\database\Processes: the process databases of the signals.         *)
(*                                                                         *)
(* A database is a storage whose key is the priority of the process.  Two  *)
(* processes of one priority share a SUB-DATABASE stored under it, which   *)
(* numbers them 1, 2, ... in the order of their installation.              *)
(*                                                                         *)
(* Databases and processes are PHP objects that several callers hold at    *)
(* once, so the operators work on a heap                                   *)
(*   store:   the storage of each database object,                         *)
(*   unused:  the database objects not created yet,                        *)
(*   prio:    Process::$_priority of each process,                         *)
(*   exhaust: Process::$_exhaustion of each process,                       *)
(*   fatal:   PHP gave up: a method was called on something without it.    *)
(***************************************************************************)
EXTENDS Storage, FiniteSets

CONSTANTS Procs,    \* process objects
          Dbs,      \* database objects
          Never     \* the null exhaustion, of a process that never exhausts

ASSUME DisjointObjects == Procs \cap Dbs = {}
ASSUME NeverIsNoCount  == Never \notin Int

NodeType == [key : Int, val : Procs \cup Dbs]

StorageType ==
  {s \in [nodes : Seq(NodeType), ptr : Nat \ {0}] : WellFormedStorage(s)}

HeapType == [store : [Dbs -> StorageType], unused : SUBSET Dbs,
             prio : [Procs -> Int], exhaust : [Procs -> Int \cup {Never}],
             fatal : BOOLEAN]

XPSPL_SUBDATABASE_DEFAULT_PRIORITY == 1
XPSPL_PROCESS_DEFAULT_EXHAUST == 1

----------------------------------------------------------------------------
(* XPSPL\Process                                                           *)

set_exhaust(rate) ==
  IF rate # Never /\ rate <= -1 THEN XPSPL_PROCESS_DEFAULT_EXHAUST ELSE rate

decrement_exhaust(n) == IF n # Never /\ n >= 0 THEN n - 1 ELSE n

is_exhausted(n) == n # Never /\ 0 >= n

\* new Process($callable, $exhaust, $priority)
Construct(h, p, rate, priority) ==
  [h EXCEPT !.exhaust[p] = set_exhaust(rate), !.prio[p] = priority]

----------------------------------------------------------------------------
(* install(): one pass of it ends in a tail call of itself, on the same or *)
(* on the sub-database, or stores the process.  A pass is a step on        *)
(* [heap, at, done]: the heap, the database install() was called on, and   *)
(* whether it has returned.                                                *)

Call(h, d) == [heap |-> h, at |-> d, done |-> FALSE]

\* No node has the priority: the process is stored under it, at the end.
InstallNode(c, p) ==
  [c EXCEPT !.done = TRUE,
            !.heap.store[c.at] = offsetSet(@, c.heap.prio[p], p)]

\* Mutant: the next priority is the number of nodes plus one.
InstallInSubDatabase_Count(c, sub, p) ==
  [c EXCEPT !.at = sub, !.heap.prio[p] = count(c.heap.store[sub]) + 1]

\* The priority has a sub-database: the process gets the priority after that
\* of its last node.  end() of an empty sub-database is false, and that of
\* one ending in a sub-database has no get_priority(): both are fatal.
InstallInSubDatabase(c, sub, p) ==
  LET h      == c.heap
      ending == end(h.store[sub])
      last   == current(ending)
  IN  IF valid(ending) /\ last \in Procs
        THEN [c EXCEPT !.at = sub,
                       !.heap = [h EXCEPT !.store[sub] = ending,
                                          !.prio[p] = h.prio[last] + 1]]
        ELSE [c EXCEPT !.done = TRUE, !.heap.fatal = TRUE]

\* Mutant: the process that was there is not moved.
CreateSubDatabase_Drops(c, q, p) ==
  LET key == c.heap.prio[p]
      sub == CHOOSE d \in c.heap.unused : TRUE
  IN  [c EXCEPT !.done = TRUE,
                !.heap.unused = @ \ {sub},
                !.heap.prio[p] = XPSPL_SUBDATABASE_DEFAULT_PRIORITY,
                !.heap.store =
                  [@ EXCEPT ![sub]  = offsetSet(empty, XPSPL_SUBDATABASE_DEFAULT_PRIORITY, p),
                            ![c.at] = offsetSet(offsetUnset(@, key), key, sub)]]

\* The priority has a process: it moves into a new sub-database, which takes
\* its key but not its place, and the install starts over.
CreateSubDatabase(c, q, p) ==
  LET h     == c.heap
      key   == h.prio[p]
      sub   == CHOOSE d \in h.unused : TRUE
      prio  == [h.prio EXCEPT ![q] = XPSPL_SUBDATABASE_DEFAULT_PRIORITY]
      moved == offsetSet(empty, prio[q], q)
      keyed == offsetSet(offsetUnset(h.store[c.at], key), key, sub)
      store == [h.store EXCEPT ![sub] = moved, ![c.at] = keyed]
  IN  [c EXCEPT !.heap = [h EXCEPT !.prio   = prio,
                                   !.unused = @ \ {sub},
                                   !.store  = store]]

\* Mutant: a process is stored over whatever has its priority.
InstallStep_Overwrites(c, p) == IF c.done THEN c ELSE InstallNode(c, p)

\* What has the priority of p in the database of the pass.
Taken(c, p) == offsetExists(c.heap.store[c.at], c.heap.prio[p])

Found(c, p) == offsetGet(c.heap.store[c.at], c.heap.prio[p])

InstallStep(c, p) ==
  IF c.done THEN c
  ELSE IF ~Taken(c, p) THEN InstallNode(c, p)
  ELSE IF Found(c, p) \in Dbs THEN InstallInSubDatabase(c, Found(c, p), p)
  ELSE IF c.heap.unused # {} THEN CreateSubDatabase(c, Found(c, p), p)
  ELSE c

\* Six passes are enough for sub-databases nested three deep.  An install is
\* done unless it needed more passes, or more databases, than there are: both
\* are bounds of the model, and its actions take only installs that are done.
TwoSteps(c, p) == InstallStep(InstallStep(c, p), p)

Install(h, d, p) == TwoSteps(TwoSteps(TwoSteps(Call(h, d), p), p), p)

----------------------------------------------------------------------------
(* delete() and are_processes_exhausted() walk a database depth first, in   *)
(* the order of its nodes, up to the first process that is in a set of      *)
(* targets: the process to delete, or the processes that are not exhausted. *)
(* Both move the pointers of the databases they walk over, and leave them   *)
(* where the walk ended: on the node it stopped at, or past the last one.   *)

\* Which databases have a target at some depth.
Holding(h, targets) ==
  LET holds[d \in Dbs] ==
        \E v \in vals(h.store[d]) : v \in targets \/ (v \in Dbs /\ holds[v])
  IN  holds

\* The node of d the walk ends on.
StopAt(h, targets, d) ==
  LET nodes == h.store[d].nodes
      hits  == {i \in DOMAIN nodes : \/ nodes[i].val \in targets
                                    \/ /\ nodes[i].val \in Dbs
                                       /\ Holding(h, targets)[nodes[i].val]}
  IN  CHOOSE i \in 1..(Len(nodes) + 1) :
        /\ i \in hits \/ i = Len(nodes) + 1
        /\ \A j \in hits : i <= j

\* The databases walked over, from each database.
Walked(h, targets) ==
  LET walked[d \in Dbs] ==
        LET visited == {h.store[d].nodes[i].val :
                          i \in {j \in DOMAIN h.store[d].nodes :
                                  j <= StopAt(h, targets, d)}}
        IN  {d} \cup UNION {walked[v] : v \in visited \cap Dbs}
  IN  walked

Walk(h, targets, d) ==
  LET walked == Walked(h, targets)[d]
  IN  [h EXCEPT !.store =
         [x \in Dbs |-> IF x \in walked
                          THEN [h.store[x] EXCEPT !.ptr = StopAt(h, targets, x)]
                          ELSE h.store[x]]]

Delete(h, d, p) ==
  LET walked == Walked(h, {p})[d]
      w      == Walk(h, {p}, d)
      found(x) == x \in walked /\ valid(w.store[x]) /\ current(w.store[x]) = p
  IN  [w EXCEPT !.store =
         [x \in Dbs |-> IF found(x) THEN unsetAt(w.store[x], w.store[x].ptr)
                                    ELSE w.store[x]]]

LiveProcesses(h) == {p \in Procs : ~is_exhausted(h.exhaust[p])}

\* are_processes_exhausted(): its answer, and the heap it leaves.
AreExhausted(h, d)   == ~Holding(h, LiveProcesses(h))[d]
AfterExhausted(h, d) == Walk(h, LiveProcesses(h), d)

\* The processes of a database and of its sub-databases.
Members(h) ==
  LET members[d \in Dbs] ==
        (vals(h.store[d]) \cap Procs)
          \cup UNION {members[v] : v \in vals(h.store[d]) \cap Dbs}
  IN  members

----------------------------------------------------------------------------
(* The shape of a heap.                                                    *)

\* The nodes of storage s that hold a sub-database.
SubNodes(s) == {n \in Range(s.nodes) : n.val \in Dbs}

\* The databases of h are trees: keys are unique and pointers in range, a
\* database is in at most one node of all, none of the roots is in any, those
\* not created yet are nowhere, and no databases hold each other in a circle.
ForestOf(h, roots) ==
  /\ \A d \in Dbs : WellFormedStorage(h.store[d])
  /\ \A d \in h.unused : h.store[d] = empty /\ d \notin roots
  /\ \A d \in Dbs : \A n \in SubNodes(h.store[d]) : n.val \notin h.unused \cup roots
  /\ \A d, e \in Dbs :
       \A m \in SubNodes(h.store[d]), n \in SubNodes(h.store[e]) :
         m.val = n.val => d = e /\ m = n
  /\ \A C \in SUBSET Dbs : C # {} =>
       \E x \in C : \A d \in C : \A n \in SubNodes(h.store[d]) : n.val # x
=============================================================================
